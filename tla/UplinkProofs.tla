----------------------------- MODULE UplinkProofs -----------------------------
(* Theorems about module Uplink, and their proofs. *)
EXTENDS Uplink, StreamLemmas, SequenceTheorems, FunctionTheorems,
        FiniteSetTheorems

(* Where the commands of a queue of lines stand, and how many they are. *)
CommandPlaces(q) == {i \in 1 .. Len(q) : q[i] \in Commands}

CommandsIn(q) == Cardinality(CommandPlaces(q))

(* Every command that was typed is sent or still to be read. *)
TypeInv ==
  /\ TypeOK
  /\ orders = Len(sent) + CommandsIn(buffered) + CommandsIn(typed)

(* Where Action n begins in the stream. *)
Start(n) == IdLen + (n - 1) * ActionLen

(* The broker has read on behind every place of an Action it has handled   *)
(* where a command can begin.                                              *)
MixedInv ==
  /\ TypeInv
  /\ NeverMixed
  /\ \A i \in DOMAIN handled : Start(handled[i].action) + PrefixLen < taken

(* The broker has taken the identifier, and whole commands only: those     *)
(* that came with the identifier and those it has handled.                 *)
InStep ==
  /\ arrived = 0 \/ SendEnds(arrived)
  /\ pc = "identifier" => taken = 0 /\ first = 0 /\ handled = <<>>
  /\ pc # "identifier" /\ SendEnds(first) =>
       taken = IdLen + (Swallowed + Len(handled)) * ActionLen

StepInv ==
  /\ TypeInv
  /\ ~cuts => InStep
  /\ HandledIsSent

-----------------------------------------------------------------------------
(* Lengths and positions. *)

LEMMA Lengths ==
  /\ IdLen \in Nat \ {0} /\ TypeLen \in Nat \ {0} /\ TopicLen \in Nat \ {0}
  /\ ActionLen \in Nat \ {0} /\ ActionLen = TypeLen + TopicLen + 1
  /\ PrefixLen \in Nat \ {0} /\ WordLen \in Nat \ {0} /\ PrefixLen < WordLen
  /\ PrefixLen + WordLen < TypeLen
  /\ NameLen \in Nat /\ PrefixLen <= NameLen /\ NameLen < TopicLen
  /\ MaxLines \in Nat /\ BUFF_LEN \in Nat \ {0}
  BY UplinkAssumption DEF ActionLen

LEMMA Positions ==
  ASSUME TypeOK
  PROVE  /\ sent \in Seq(Commands) /\ Len(sent) \in Nat /\ Len(sent) * ActionLen \in Nat
         /\ Written \in Nat /\ Written = IdLen + Len(sent) * ActionLen
         /\ arrived \in Nat /\ taken \in Nat /\ arrived <= Written /\ taken <= arrived
         /\ Available \in Nat /\ taken + Available = arrived
         /\ Len(sent) <= orders /\ orders \in Nat /\ Len(sent) <= MaxLines
         /\ first \in Nat /\ first <= taken
         /\ handled \in Seq(Heard) /\ Len(handled) \in Nat
         /\ DOMAIN handled = 1 .. Len(handled)
<1>1. /\ orders \in Nat /\ lines \in Nat /\ sent \in Seq(Commands)
      /\ Len(sent) <= orders /\ orders <= lines /\ lines <= MaxLines
  BY Lengths DEF TypeOK
<1>2. Len(sent) \in Nat
  BY <1>1
<1>3. Len(sent) * ActionLen \in Nat
  BY <1>2, Lengths
<1>4. Written \in Nat /\ Written = IdLen + Len(sent) * ActionLen
  BY <1>3, Lengths DEF Written
<1>5. /\ arrived \in Nat /\ taken \in Nat /\ arrived <= Written /\ taken <= arrived
      /\ first \in Nat /\ first <= taken
      /\ handled \in Seq(Heard)
  BY <1>4 DEF TypeOK
<1>6. Len(handled) \in Nat /\ DOMAIN handled = 1 .. Len(handled)
  BY <1>5
<1>7. Len(sent) <= MaxLines
  BY <1>1, <1>2, Lengths
<1>. QED BY <1>1, <1>2, <1>3, <1>4, <1>5, <1>6, <1>7, Lengths DEF Available

(* The text of a send() ends behind the identifier and whole commands. *)
LEMMA SendEndsForm ==
  ASSUME NEW n \in Nat, SendEnds(n)
  PROVE  \E q \in Nat : n = IdLen + q * ActionLen
<1>. DEFINE q == (n - IdLen) \div ActionLen
<1>1. n - IdLen \in Nat /\ (n - IdLen) % ActionLen = 0
  BY Lengths DEF SendEnds
<1>2. q \in Nat /\ n - IdLen = q * ActionLen + ((n - IdLen) % ActionLen)
  BY <1>1, Lengths, DivMod
<1>3. q * ActionLen \in Nat
  BY <1>2, Lengths
<1>. HIDE DEF q
<1>4. n = IdLen + q * ActionLen
  BY <1>1, <1>2, <1>3, Lengths
<1>. QED BY <1>2, <1>4

(* If more than m whole commands have arrived, m + 1 have. *)
LEMMA NextSendEnd ==
  ASSUME NEW n \in Nat, SendEnds(n), NEW m \in Nat, n > IdLen + m * ActionLen
  PROVE  n >= IdLen + m * ActionLen + ActionLen
<1>1. PICK q \in Nat : n = IdLen + q * ActionLen
  BY SendEndsForm
<1>2. q * ActionLen \in Nat /\ m * ActionLen \in Nat
  BY Lengths
<1>3. m < q
  BY <1>1, <1>2, Lengths, TimesLess
<1>4. m * ActionLen + ActionLen <= q * ActionLen
  BY <1>3, Lengths, TimesNext
<1>. QED BY <1>1, <1>2, <1>4, Lengths

-----------------------------------------------------------------------------
(* How many commands a queue holds. *)

LEMMA CommandsType ==
  ASSUME NEW q \in Seq(Lines)
  PROVE  /\ IsFiniteSet(CommandPlaces(q)) /\ CommandsIn(q) \in Nat
         /\ q = <<>> => CommandsIn(q) = 0
<1>1. IsFiniteSet(CommandPlaces(q))
  <2>1. IsFiniteSet(1 .. Len(q)) /\ CommandPlaces(q) \in SUBSET (1 .. Len(q))
    BY FS_Interval DEF CommandPlaces
  <2>. QED BY <2>1, FS_Subset
<1>2. q = <<>> => CommandPlaces(q) = {}
  BY DEF CommandPlaces
<1>. QED BY <1>1, <1>2, FS_CardinalityType, FS_EmptySet DEF CommandsIn

LEMMA CommandsAppend ==
  ASSUME NEW q \in Seq(Lines), NEW line \in Lines
  PROVE  CommandsIn(Append(q, line)) =
           IF line \in Commands THEN CommandsIn(q) + 1 ELSE CommandsIn(q)
<1>. DEFINE r == Append(q, line)
<1>1. /\ Len(q) \in Nat /\ Len(r) = Len(q) + 1 /\ r[Len(q) + 1] = line
      /\ \A i \in 1 .. Len(q) : r[i] = q[i]
  OBVIOUS
<1>2. Len(q) + 1 \notin CommandPlaces(q)
  BY <1>1 DEF CommandPlaces
<1>. HIDE DEF r
<1>3. CommandPlaces(r) = IF line \in Commands THEN CommandPlaces(q) \cup {Len(q) + 1}
                                             ELSE CommandPlaces(q)
  BY <1>1 DEF CommandPlaces
<1>4. CommandsIn(r) = IF line \in Commands THEN CommandsIn(q) + 1 ELSE CommandsIn(q)
  BY <1>2, <1>3, CommandsType, FS_AddElement DEF CommandsIn
<1>. QED BY <1>4 DEF r

LEMMA CommandsTail ==
  ASSUME NEW q \in Seq(Lines), q # <<>>
  PROVE  CommandsIn(q) =
           IF Head(q) \in Commands THEN CommandsIn(Tail(q)) + 1 ELSE CommandsIn(Tail(q))
<1>. DEFINE r == Tail(q)
<1>1. /\ Len(q) \in Nat /\ Len(q) >= 1 /\ r \in Seq(Lines) /\ Len(r) = Len(q) - 1
      /\ \A i \in 1 .. Len(r) : r[i] = q[i + 1]
      /\ q[1] = Head(q)
  OBVIOUS
<1>. HIDE DEF r
<1>. DEFINE R == CommandPlaces(r)
            Q == CommandPlaces(q) \ {1}
            f == [i \in R |-> i + 1]
<1>2. f \in Bijection(R, Q)
  <2>1. \A i \in R : i \in 1 .. Len(r) /\ i + 1 \in Q
    BY <1>1 DEF CommandPlaces
  <2>2. \A k \in Q : k - 1 \in R /\ (k - 1) + 1 = k
    BY <1>1 DEF CommandPlaces
  <2>3. f \in [R -> Q]
    BY <2>1
  <2>4. \A i, k \in R : f[i] = f[k] => i = k
    BY <1>1, <2>1
  <2>5. \A k \in Q : \E i \in R : f[i] = k
    BY <2>2
  <2>. HIDE DEF f, R, Q
  <2>. QED BY <2>3, <2>4, <2>5, Fun_IsBij
<1>3. Cardinality(Q) = Cardinality(R)
  <2>1. ExistsBijection(R, Q)
    BY <1>2 DEF ExistsBijection
  <2>2. IsFiniteSet(R)
    BY <1>1, CommandsType
  <2>. QED BY <2>1, <2>2, FS_Bijection
<1>4. 1 \in CommandPlaces(q) <=> Head(q) \in Commands
  BY <1>1 DEF CommandPlaces
<1>5. /\ CommandsIn(q) \in Nat /\ CommandsIn(r) \in Nat
      /\ IsFiniteSet(CommandPlaces(q))
  BY <1>1, CommandsType
<1>6. Cardinality(Q) = IF Head(q) \in Commands THEN CommandsIn(q) - 1 ELSE CommandsIn(q)
  BY <1>4, <1>5, FS_RemoveElement DEF CommandsIn
<1>7. Cardinality(R) = CommandsIn(r)
  BY DEF CommandsIn
<1>8. CommandsIn(q) = IF Head(q) \in Commands THEN CommandsIn(r) + 1 ELSE CommandsIn(r)
  BY <1>3, <1>5, <1>6, <1>7
<1>. QED BY <1>8 DEF r

-----------------------------------------------------------------------------
(* Every variable keeps its type. *)

LEMMA TypeInit == Init => TypeInv
<1>. SUFFICES ASSUME Init PROVE TypeInv
  OBVIOUS
<1>1. /\ <<>> \in Seq(Lines) /\ <<>> \in Seq(Heard) /\ <<>> \in Seq(Commands)
      /\ CommandsIn(<<>>) = 0 /\ Len(<<>>) = 0
  BY EmptySeq, CommandsType
<1>2. buffer \in [1 .. ActionLen -> {0}]
  BY DEF Init, Zeros
<1>3. Len(sent) = 0 /\ 0 * ActionLen = 0 /\ Written \in Nat
  BY <1>1, Lengths DEF Written, Init
<1>4. eof \in BOOLEAN /\ left \in BOOLEAN
  BY Zenon DEF Init
<1>5. Len(sent) + CommandsIn(buffered) + CommandsIn(typed) = orders
  BY <1>1, <1>3 DEF Init
<1>6. arrived \in 0 .. Written /\ taken \in 0 .. arrived /\ first \in 0 .. taken
  BY <1>3 DEF Init
<1>7. /\ lines \in 0 .. MaxLines /\ orders \in 0 .. lines /\ Len(sent) <= orders
      /\ sent \in Seq(Commands)
  BY <1>1, <1>3, Lengths DEF Init
<1>8. buffer \in [1 .. ActionLen -> 0 .. taken]
  BY <1>2 DEF Init
<1>. QED BY <1>1, <1>4, <1>5, <1>6, <1>7, <1>8 DEF Init, TypeInv, TypeOK

(* What was sent stays; a line that is executed is a command that is sent, *)
(* or is no command.                                                       *)
LEMMA ExecuteCounts ==
  ASSUME TypeInv, NEW line \in Lines, Execute(line)
  PROVE  /\ sent' \in Seq(Commands)
         /\ Len(sent') = Len(sent) + (IF line \in Commands THEN 1 ELSE 0)
         /\ \A n \in 1 .. Len(sent) : sent'[n] = sent[n]
         /\ left' \in BOOLEAN
<1>1. sent \in Seq(Commands)
  BY DEF TypeInv, TypeOK
<1>2. CASE line \in Commands
  BY <1>1, <1>2 DEF Execute
<1>3. CASE line \notin Commands
  BY <1>1, <1>3 DEF Execute
<1>. QED BY <1>2, <1>3

LEMMA SubscriberType ==
  ASSUME TypeInv, Subscriber
  PROVE  /\ typed' \in Seq(Lines) /\ buffered' \in Seq(Lines)
         /\ left' \in BOOLEAN
         /\ sent' \in Seq(Commands)
         /\ Len(sent') \in Len(sent) .. orders
         /\ \A n \in 1 .. Len(sent) : sent'[n] = sent[n]
         /\ orders = Len(sent') + CommandsIn(buffered') + CommandsIn(typed')
<1>a. /\ typed \in Seq(Lines) /\ buffered \in Seq(Lines)
      /\ Len(sent) \in Nat /\ orders \in Nat
  BY Positions DEF TypeInv, TypeOK
<1>b. <<>> \in Seq(Lines) /\ CommandsIn(<<>>) = 0
  BY CommandsType, EmptySeq
<1>c. orders = Len(sent) + CommandsIn(buffered) + CommandsIn(typed)
  BY DEF TypeInv
<1>2. CASE NextBuffered
  <2>1. /\ Head(buffered) \in Lines /\ Tail(buffered) \in Seq(Lines)
        /\ buffered # <<>> /\ Execute(Head(buffered))
        /\ buffered' = Tail(buffered) /\ typed' = typed
    BY <1>a, <1>2 DEF NextBuffered
  <2>2. CommandsIn(buffered) =
          IF Head(buffered) \in Commands THEN CommandsIn(buffered') + 1
                                         ELSE CommandsIn(buffered')
    BY <1>a, <2>1, CommandsTail
  <2>3. CommandsIn(buffered') \in Nat /\ CommandsIn(typed) \in Nat
    BY <1>a, <2>1, CommandsType
  <2>4. CommandsIn(typed') = CommandsIn(typed)
    BY <2>1
  <2>5. /\ sent' \in Seq(Commands)
        /\ Len(sent') = Len(sent) + (IF Head(buffered) \in Commands THEN 1 ELSE 0)
        /\ \A n \in 1 .. Len(sent) : sent'[n] = sent[n]
        /\ left' \in BOOLEAN
    BY <2>1, ExecuteCounts
  <2>6. /\ orders = Len(sent') + CommandsIn(buffered') + CommandsIn(typed')
        /\ Len(sent') \in Len(sent) .. orders
    <3>. DEFINE old == CommandsIn(buffered)
                new == CommandsIn(buffered')
                rest == CommandsIn(typed)
                n == Len(sent')
    <3>1. /\ new \in Nat /\ rest \in Nat /\ CommandsIn(typed') = rest
          /\ orders = Len(sent) + old + rest
      BY <1>c, <2>3, <2>4
    <3>2. \/ old = new + 1 /\ n = Len(sent) + 1
          \/ old = new /\ n = Len(sent) + 0
      BY <2>2, <2>5
    <3>3. CommandsIn(typed') = rest
      BY <2>4
    <3>. HIDE DEF old, new, rest, n
    <3>4. orders = n + new + rest /\ n \in Len(sent) .. orders
      BY <1>a, <3>1, <3>2
    <3>. QED BY <3>3, <3>4 DEF new, rest, n
  <2>. QED BY <1>a, <2>1, <2>5, <2>6
<1>3. CASE ReadLine
  <2>1. /\ Head(typed) \in Lines /\ Tail(typed) \in Seq(Lines)
        /\ typed # <<>> /\ buffered = <<>> /\ Execute(Head(typed))
        /\ \/ typed' = <<>> /\ buffered' = Tail(typed)
           \/ typed' = Tail(typed) /\ buffered' = <<>>
    BY <1>a, <1>3 DEF ReadLine
  <2>2. CommandsIn(typed) =
          IF Head(typed) \in Commands THEN CommandsIn(Tail(typed)) + 1
                                      ELSE CommandsIn(Tail(typed))
    BY <1>a, <2>1, CommandsTail
  <2>. DEFINE n == CommandsIn(Tail(typed))
  <2>3. n \in Nat
    BY <2>1, CommandsType
  <2>4. /\ CommandsIn(buffered') \in Nat /\ CommandsIn(typed') \in Nat
        /\ CommandsIn(buffered') + CommandsIn(typed') = n
        /\ typed' \in Seq(Lines) /\ buffered' \in Seq(Lines)
    <3>1. CASE typed' = <<>> /\ buffered' = Tail(typed)
      BY <1>b, <2>1, <2>3, <3>1
    <3>2. CASE typed' = Tail(typed) /\ buffered' = <<>>
      BY <1>b, <2>1, <2>3, <3>2
    <3>. QED BY <2>1, <3>1, <3>2
  <2>5. /\ sent' \in Seq(Commands)
        /\ Len(sent') = Len(sent) + (IF Head(typed) \in Commands THEN 1 ELSE 0)
        /\ \A k \in 1 .. Len(sent) : sent'[k] = sent[k]
        /\ left' \in BOOLEAN
    BY <2>1, ExecuteCounts
  <2>6. orders = Len(sent) + (IF Head(typed) \in Commands THEN n + 1 ELSE n)
    <3>1. CommandsIn(buffered) = 0
      BY <1>b, <2>1
    <3>. DEFINE old == CommandsIn(typed)
                more == IF Head(typed) \in Commands THEN n + 1 ELSE n
    <3>2. old = more /\ more \in Nat
      BY <2>2, <2>3
    <3>3. orders = Len(sent) + 0 + old
      BY ONLY <1>c, <3>1 DEF old
    <3>. HIDE DEF n, old, more
    <3>4. orders = Len(sent) + more
      BY <1>a, <3>2, <3>3
    <3>. QED BY <3>4 DEF more
  <2>. HIDE DEF n
  <2>7. orders = Len(sent') + n /\ Len(sent') \in Len(sent) .. orders /\ Len(sent') \in Nat
    BY <1>a, <2>3, <2>5, <2>6
  <2>8. orders = Len(sent') + CommandsIn(buffered') + CommandsIn(typed')
    <3>. DEFINE sum == Len(sent')
                b == CommandsIn(buffered')
                t == CommandsIn(typed')
    <3>1. b \in Nat /\ t \in Nat /\ sum \in Nat /\ b + t = n /\ orders = sum + n
      BY <2>4, <2>7
    <3>. HIDE DEF sum, b, t
    <3>2. orders = sum + b + t
      BY <2>3, <3>1
    <3>. QED BY <3>2 DEF sum, b, t
  <2>. QED BY <2>4, <2>5, <2>7, <2>8
<1>. QED BY <1>2, <1>3 DEF Subscriber

(* A later command makes the stream longer. *)
LEMMA WrittenGrows ==
  ASSUME NEW a \in Nat, NEW b \in Nat, a <= b
  PROVE  IdLen + a * ActionLen <= IdLen + b * ActionLen
<1>1. a * ActionLen <= b * ActionLen
  BY Lengths, TimesMonotone
<1>2. a * ActionLen \in Nat /\ b * ActionLen \in Nat
  BY Lengths
<1>. QED BY <1>1, <1>2, Lengths

(* One recv() of a command takes what has arrived, and not more than an    *)
(* Action has; behind it the buffer is empty (server.c:128 and 219).       *)
LEMMA RecvTakes ==
  ASSUME TypeOK, RecvCommand
  PROVE  /\ \E k \in 1 .. ActionLen :
              /\ k <= Available
              /\ k = AtMost(ActionLen)
              /\ taken' = taken + k
              /\ \A i \in 1 .. ActionLen : buffer'[i] = IF i <= k THEN taken + i ELSE 0
         /\ taken' \in taken .. arrived
         /\ buffer' \in [1 .. ActionLen -> 0 .. taken']
<1>. DEFINE k == AtMost(ActionLen)
<1>1. Available \in Nat \ {0}
  BY Positions DEF RecvCommand
<1>2. k \in 1 .. ActionLen /\ k <= Available
  BY <1>1, Lengths DEF AtMost
<1>3. /\ taken' = taken + k
      /\ buffer' = [i \in 1 .. ActionLen |-> IF i <= k THEN taken + i ELSE 0]
  BY DEF RecvCommand, CommandAsked, Beyond
<1>. HIDE DEF k
<1>4. \A i \in 1 .. ActionLen : buffer'[i] = IF i <= k THEN taken + i ELSE 0
  BY <1>3
<1>5. taken' \in taken .. arrived
  BY <1>2, <1>3, Positions, Lengths
<1>6. buffer' \in [1 .. ActionLen -> 0 .. taken']
  <2>1. \A i \in 1 .. ActionLen : (IF i <= k THEN taken + i ELSE 0) \in 0 .. taken'
    <3>. SUFFICES ASSUME NEW i \in 1 .. ActionLen
                  PROVE  (IF i <= k THEN taken + i ELSE 0) \in 0 .. taken'
      OBVIOUS
    <3>1. i \in Nat /\ k \in Nat /\ taken \in Nat
      BY <1>2, Positions, Lengths
    <3>2. i <= k => taken + i \in Nat /\ taken + i <= taken + k /\ taken + k \in Nat
      BY <3>1
    <3>. QED BY <1>3, <3>1, <3>2
  <2>. QED BY <1>3, <2>1
<1>. QED BY <1>2, <1>3, <1>4, <1>5, <1>6 DEF k

-----------------------------------------------------------------------------
(* What one recv() of a command may bring. *)

(* Cell i of the Action behind the first m belongs to it. *)
LEMMA CellIn ==
  ASSUME NEW m \in Nat, NEW i \in 1 .. ActionLen, NEW cell,
         cell = IdLen + m * ActionLen + i
  PROVE  ActionOf(cell) = m + 1 /\ PlaceOf(cell) = i
<1>1. i - 1 \in 0 .. ActionLen - 1 /\ m * ActionLen \in Nat /\ i \in Nat
  BY Lengths
<1>2. cell - IdLen - 1 = m * ActionLen + (i - 1)
  BY <1>1, Lengths
<1>3. /\ (m * ActionLen + (i - 1)) \div ActionLen = m
      /\ (m * ActionLen + (i - 1)) % ActionLen = i - 1
  BY <1>1, Lengths, QuotientOf
<1>. QED BY <1>1, <1>2, <1>3 DEF ActionOf, PlaceOf

(* If the buffer begins at a place of an Action, this is the Action and    *)
(* the place that the broker has come to in the stream.                    *)
LEMMA BeginsInAction ==
  ASSUME TypeOK, RecvCommand, NEW place \in 1 .. ActionLen, NEW command,
         NEW len \in Nat \ {0}, len <= ActionLen,
         BeginsAt(buffer', place, command, len)
  PROVE  \E m \in Nat :
           /\ taken = IdLen + m * ActionLen + (place - 1)
           /\ m < Len(sent)
           /\ ActionOf(buffer'[1]) = m + 1
           /\ sent[m + 1] = command
           /\ taken' >= taken + len
<1>1. PICK k \in 1 .. ActionLen :
        /\ k <= Available
        /\ taken' = taken + k
        /\ \A i \in 1 .. ActionLen : buffer'[i] = IF i <= k THEN taken + i ELSE 0
  BY RecvTakes
<1>2. buffer'[1] = taken + 1
  BY <1>1, Lengths
<1>. DEFINE d == taken - IdLen
            m == d \div ActionLen
<1>3. buffer'[1] > IdLen /\ PlaceOf(buffer'[1]) = place
  BY DEF BeginsAt
<1>4. d \in Nat /\ (taken + 1) - IdLen - 1 = d /\ taken = IdLen + d
  <2>1. taken + 1 > IdLen /\ taken \in Nat
    BY <1>2, <1>3, Positions
  <2>. QED BY <2>1, Lengths
<1>d. place - 1 \in Nat /\ (place - 1) + 1 = place /\ place \in Nat
  BY Lengths
<1>. HIDE DEF d
<1>5. d % ActionLen = place - 1
  <2>1. (d % ActionLen) + 1 = place
    BY <1>2, <1>3, <1>4 DEF PlaceOf
  <2>2. d % ActionLen \in Nat
    BY <1>4, Lengths, DivMod
  <2>. QED BY <1>d, <2>1, <2>2
<1>6. ActionOf(buffer'[1]) = m + 1
  BY <1>2, <1>4 DEF ActionOf
<1>7. m \in Nat /\ d = m * ActionLen + (place - 1)
  <2>1. m \in Nat /\ d = m * ActionLen + (d % ActionLen)
    BY <1>4, Lengths, DivMod
  <2>. HIDE DEF m
  <2>. QED BY <1>5, <2>1
<1>8. m < Len(sent)
  <2>. DEFINE whole == Len(sent) * ActionLen
  <2>1. /\ whole \in Nat /\ Written = IdLen + whole /\ Written \in Nat /\ IdLen \in Nat
        /\ arrived \in Nat /\ taken \in Nat /\ arrived <= Written
        /\ Available \in Nat /\ taken + Available = arrived /\ Available > 0
    BY Positions, Lengths DEF RecvCommand
  <2>. HIDE DEF whole
  <2>2. d < whole
    BY <1>4, <2>1
  <2>3. d < Len(sent) * ActionLen
    BY <2>2 DEF whole
  <2>. QED BY <1>4, <2>3, Positions, Lengths, QuotientBound
<1>9. taken = IdLen + m * ActionLen + (place - 1)
  <2>. DEFINE units == m * ActionLen
  <2>1. units \in Nat /\ d = units + (place - 1)
    BY <1>7, Lengths
  <2>. HIDE DEF units, m
  <2>2. taken = IdLen + units + (place - 1)
    BY <1>4, <1>d, <2>1, Lengths
  <2>. QED BY <2>2 DEF units
<1>10. len <= k
  <2>1. buffer'[len] = taken + 1 + len - 1
    BY <1>2 DEF BeginsAt
  <2>2. taken + 1 + len - 1 > 0 /\ len \in 1 .. ActionLen
    BY Positions, Lengths
  <2>3. buffer'[len] # 0
    BY <2>1, <2>2
  <2>. QED BY <1>1, <2>2, <2>3
<1>11. taken' >= taken + len
  BY <1>1, <1>10, Positions
<1>12. sent[m + 1] = command
  BY <1>6 DEF BeginsAt
<1>. HIDE DEF d, m
<1>. QED BY <1>6, <1>7, <1>8, <1>9, <1>11, <1>12

(* The name ends before the Action does, if the buffer begins with a       *)
(* command, and all its cells are the same Action's.                       *)
LEMMA NameInAction ==
  ASSUME TypeOK, RecvCommand, NEW shift \in {0, PrefixLen}, NEW m \in Nat,
         taken = IdLen + m * ActionLen + shift
  PROVE  \A cell \in NameIn(buffer') : cell \in Nat /\ ActionOf(cell) = m + 1
<1>1. PICK k \in 1 .. ActionLen :
        /\ taken' = taken + k
        /\ \A i \in 1 .. ActionLen : buffer'[i] = IF i <= k THEN taken + i ELSE 0
  BY RecvTakes
<1>a. shift \in Nat /\ shift <= NameLen /\ shift <= PrefixLen
  BY Lengths
<1>b. m * ActionLen \in Nat
  BY Lengths
<1>. SUFFICES ASSUME NEW j \in TypeLen + 1 .. TypeLen + TopicLen,
                     \A l \in TypeLen + 1 .. j : ~EndsName(buffer'[l])
              PROVE  buffer'[j] \in Nat /\ ActionOf(buffer'[j]) = m + 1
  BY DEF NameIn
<1>. DEFINE stop == TypeLen + NameLen + 1 - shift
<1>2. /\ stop \in TypeLen + 1 .. TypeLen + TopicLen /\ stop \in 1 .. ActionLen
      /\ stop + shift \in TypeLen + NameLen + 1 .. TypeLen + TopicLen
      /\ stop + shift \in 1 .. ActionLen
  BY <1>a, Lengths
<1>3. EndsName(buffer'[stop])
  <2>1. CASE stop <= k
    <3>1. buffer'[stop] = IdLen + m * ActionLen + (stop + shift)
      <4>1. buffer'[stop] = taken + stop
        BY <1>1, <1>2, <2>1
      <4>. HIDE DEF stop
      <4>2. stop \in Nat
        BY <1>2, Lengths
      <4>. QED BY <1>a, <1>b, <4>1, <4>2, Lengths
    <3>. HIDE DEF stop
    <3>2. PlaceOf(buffer'[stop]) = stop + shift
      BY <1>2, <3>1, CellIn
    <3>. QED BY <1>2, <3>2 DEF EndsName
  <2>2. CASE ~ (stop <= k)
    BY <1>1, <1>2, <2>2 DEF EndsName
  <2>. QED BY <2>1, <2>2
<1>4. j < stop
  <2>1. stop \notin TypeLen + 1 .. j
    BY <1>3
  <2>. HIDE DEF stop
  <2>. QED BY <1>2, <2>1, Lengths
<1>5. j \in 1 .. ActionLen /\ j + shift \in 1 .. ActionLen
  BY <1>a, <1>4, Lengths
<1>6. j <= k
  <2>1. ~EndsName(buffer'[j])
    BY Lengths
  <2>. QED BY <1>1, <1>5, <2>1 DEF EndsName
<1>7. buffer'[j] = taken + j
  BY <1>1, <1>5, <1>6
<1>8. buffer'[j] = IdLen + m * ActionLen + (j + shift)
  <2>1. j \in Nat
    BY <1>5, Lengths
  <2>. QED BY <1>7, <2>1, <1>a, <1>b, Lengths
<1>9. ActionOf(buffer'[j]) = m + 1
  BY <1>5, <1>8, CellIn
<1>. QED BY <1>5, <1>7, <1>9, Positions, Lengths

(* An SF that is no text is the same Action's, or missing. *)
LEMMA SfInAction ==
  ASSUME TypeOK, RecvCommand, NEW shift \in {0, PrefixLen}, NEW m \in Nat,
         taken = IdLen + m * ActionLen + shift,
         shift = 0 \/ ~SfIsText(buffer')
  PROVE  buffer'[ActionLen] # 0 => ActionOf(buffer'[ActionLen]) = m + 1
<1>. SUFFICES ASSUME buffer'[ActionLen] # 0
              PROVE  ActionOf(buffer'[ActionLen]) = m + 1
  OBVIOUS
<1>a. ActionLen \in 1 .. ActionLen /\ m * ActionLen \in Nat
  BY Lengths
<1>1. buffer'[ActionLen] = taken + ActionLen
  <2>1. PICK k \in 1 .. ActionLen :
          \A i \in 1 .. ActionLen : buffer'[i] = IF i <= k THEN taken + i ELSE 0
    BY RecvTakes
  <2>. QED BY <1>a, <2>1
<1>2. CASE shift = 0
  <2>1. buffer'[ActionLen] = IdLen + m * ActionLen + ActionLen
    BY <1>a, <1>1, <1>2, Lengths
  <2>. QED BY <1>a, <2>1, CellIn
<1>3. CASE shift = PrefixLen
  <2>1. (m + 1) * ActionLen = m * ActionLen + ActionLen
    BY Lengths, NextUnit
  <2>2. buffer'[ActionLen] = IdLen + (m + 1) * ActionLen + PrefixLen
    BY <1>a, <1>1, <1>3, <2>1, Lengths
  <2>3. PrefixLen \in 1 .. ActionLen /\ m + 1 \in Nat /\ PrefixLen # ActionLen
    BY Lengths
  <2>4. PlaceOf(buffer'[ActionLen]) = PrefixLen
    BY <2>2, <2>3, CellIn
  <2>5. SfIsText(buffer')
    BY <2>3, <2>4 DEF SfIsText
  <2>. QED BY <1>3, <2>3, <2>5, Lengths
<1>. QED BY <1>2, <1>3

(* The broker acts on a command that it has read in one Action, and has    *)
(* read on behind the places of it where a command can begin.              *)
ReadInOne(m, h) ==
  /\ h.word \in Commands /\ h.action = m + 1
  /\ h.name \in SUBSET Nat
  /\ \A cell \in h.name : ActionOf(cell) = m + 1
  /\ h.sf \in {0, m + 1}
  /\ h = [word |-> h.word, action |-> h.action, name |-> h.name, sf |-> h.sf]
  /\ m < Len(sent)
  /\ taken <= IdLen + m * ActionLen + PrefixLen
  /\ IdLen + m * ActionLen + PrefixLen < taken'

LEMMA HeardBegins ==
  ASSUME TypeOK, RecvCommand, NEW shift \in {0, PrefixLen}, NEW word \in Commands,
         NEW command, NEW len \in Nat, len <= ActionLen, PrefixLen < shift + len,
         BeginsAt(buffer', shift + 1, command, len),
         shift = 0 \/ ~SfIsText(buffer')
  PROVE  \E m \in Nat : ReadInOne(m, HeardIn(buffer', word))
<1>1. shift + 1 \in 1 .. ActionLen /\ (shift + 1) - 1 = shift /\ len \in Nat \ {0}
  BY Lengths
<1>2. PICK m \in Nat :
        /\ taken = IdLen + m * ActionLen + shift
        /\ m < Len(sent)
        /\ ActionOf(buffer'[1]) = m + 1
        /\ taken' >= taken + len
  BY <1>1, BeginsInAction
<1>3. \A cell \in NameIn(buffer') : cell \in Nat /\ ActionOf(cell) = m + 1
  BY <1>2, NameInAction
<1>4. buffer'[ActionLen] # 0 => ActionOf(buffer'[ActionLen]) = m + 1
  BY <1>2, SfInAction
<1>5. /\ taken <= IdLen + m * ActionLen + PrefixLen
      /\ IdLen + m * ActionLen + PrefixLen < taken'
  <2>. DEFINE units == m * ActionLen
  <2>1. units \in Nat /\ taken' \in Nat
    BY RecvTakes, Positions, Lengths
  <2>2. taken = IdLen + units + shift
    BY <1>2
  <2>. HIDE DEF units
  <2>3. taken <= IdLen + units + PrefixLen /\ IdLen + units + PrefixLen < taken'
    BY <1>2, <2>1, <2>2, Lengths
  <2>. QED BY <2>3 DEF units
<1>. QED BY <1>2, <1>3, <1>4, <1>5 DEF ReadInOne, HeardIn

(* A command is handled if its word is there, and then with what is there  *)
(* of the same Action.                                                     *)
LEMMA Handles ==
  ASSUME TypeOK, RecvCommand
  PROVE  \/ UNCHANGED handled
         \/ \E m \in Nat : \E h : ReadInOne(m, h) /\ handled' = Append(handled, h)
<1>1. /\ WordLen \in Nat /\ WordLen <= ActionLen /\ PrefixLen < 0 + WordLen
      /\ PrefixLen < PrefixLen + WordLen
      /\ PrefixLen + WordLen \in Nat /\ PrefixLen + WordLen <= ActionLen
      /\ PrefixLen < 0 + (PrefixLen + WordLen)
      /\ 0 + 1 = 1
  BY Lengths
<1>2. CASE SaysSubscribe(buffer') /\ ~SfIsText(buffer')
  <2>1. \E m \in Nat : ReadInOne(m, HeardIn(buffer', "subscribe"))
    <3>1. CASE BeginsAt(buffer', 1, "subscribe", WordLen)
      <4>1. BeginsAt(buffer', 0 + 1, "subscribe", WordLen)
        BY <1>1, <3>1
      <4>. QED BY <1>1, <1>2, <4>1, HeardBegins DEF Commands
    <3>2. CASE BeginsAt(buffer', PrefixLen + 1, "unsubscribe", WordLen)
      BY <1>1, <1>2, <3>2, HeardBegins DEF Commands
    <3>. QED BY <1>2, <3>1, <3>2 DEF SaysSubscribe
  <2>2. handled' = Append(handled, HeardIn(buffer', "subscribe"))
    BY <1>2 DEF RecvCommand
  <2>. QED BY <2>1, <2>2
<1>3. CASE ~(SaysSubscribe(buffer') /\ ~SfIsText(buffer')) /\ SaysUnsubscribe(buffer')
  <2>1. \E m \in Nat : ReadInOne(m, HeardIn(buffer', "unsubscribe"))
    <3>1. BeginsAt(buffer', 0 + 1, "unsubscribe", PrefixLen + WordLen)
      BY <1>1, <1>3 DEF SaysUnsubscribe
    <3>. QED BY <1>1, <3>1, HeardBegins DEF Commands
  <2>2. handled' = Append(handled, HeardIn(buffer', "unsubscribe"))
    BY <1>3 DEF RecvCommand
  <2>. QED BY <2>1, <2>2
<1>4. CASE ~(SaysSubscribe(buffer') /\ ~SfIsText(buffer')) /\ ~SaysUnsubscribe(buffer')
  BY <1>4 DEF RecvCommand
<1>. QED BY <1>2, <1>3, <1>4

-----------------------------------------------------------------------------
(* Every step keeps the types. *)

(* The first recv() takes what has arrived, as far as its buffer goes.     *)
LEMMA RecvIdTakes ==
  ASSUME TypeOK, RecvId
  PROVE  taken' \in taken .. arrived /\ first' = taken'
<1>1. AtMost(BUFF_LEN) \in 0 .. Available
  BY Positions, Lengths DEF AtMost
<1>. QED BY <1>1, Positions DEF RecvId

LEMMA HeardType ==
  ASSUME TypeOK, NEW m \in Nat, NEW h, ReadInOne(m, h)
  PROVE  h \in Heard
<1>1. m + 1 \in 1 .. MaxLines /\ m + 1 \in 0 .. MaxLines /\ 0 \in 0 .. MaxLines
  <2>1. m < Len(sent)
    BY DEF ReadInOne
  <2>2. Len(sent) \in Nat /\ Len(sent) <= MaxLines /\ MaxLines \in Nat
    BY Positions, Lengths
  <2>. QED BY <2>1, <2>2
<1>2. /\ h.word \in Commands /\ h.action \in 1 .. MaxLines
      /\ h.name \in SUBSET Nat /\ h.sf \in 0 .. MaxLines
      /\ h = [word |-> h.word, action |-> h.action, name |-> h.name, sf |-> h.sf]
  BY <1>1 DEF ReadInOne
<1>. QED BY <1>2, Zenon DEF Heard

LEMMA TypeStep == TypeInv /\ [Next]_vars => TypeInv'
<1>. SUFFICES ASSUME TypeInv, [Next]_vars PROVE TypeInv'
  OBVIOUS
<1>t. TypeOK /\ orders = Len(sent) + CommandsIn(buffered) + CommandsIn(typed)
  BY DEF TypeInv
<1>. USE DEF network, userVars, brokerVars
<1>1. CASE UNCHANGED vars
  <2>1. UNCHANGED <<piped, cuts, typed, buffered, eof, orders, lines, sent, left,
                    arrived, taken, pc, buffer, first, handled>>
    BY <1>1 DEF vars
  <2>2. TypeOK'
    BY <1>t, <2>1 DEF TypeOK, Written
  <2>3. CommandsIn(buffered') = CommandsIn(buffered) /\ CommandsIn(typed') = CommandsIn(typed)
    BY <2>1
  <2>. QED BY <1>t, <2>1, <2>2, <2>3 DEF TypeInv
<1>2. CASE TypeLine
  <2>1. PICK line \in Lines :
          /\ typed' = Append(typed, line)
          /\ orders' = IF line \in Commands THEN orders + 1 ELSE orders
    BY <1>2 DEF TypeLine
  <2>2. /\ lines' = lines + 1 /\ lines < MaxLines
        /\ UNCHANGED <<piped, cuts, buffered, eof, sent, left, arrived, taken, pc,
                       buffer, first, handled>>
    BY <1>2 DEF TypeLine
  <2>3. typed \in Seq(Lines) /\ buffered \in Seq(Lines) /\ lines \in Nat
        /\ orders \in Nat /\ Len(sent) \in Nat /\ orders <= lines /\ Len(sent) <= orders
    BY <1>t, Lengths, Positions DEF TypeOK
  <2>4. typed' \in Seq(Lines)
    BY <2>1, <2>3
  <2>5. CommandsIn(typed') = IF line \in Commands THEN CommandsIn(typed) + 1
                                                  ELSE CommandsIn(typed)
    BY <2>1, <2>3, CommandsAppend
  <2>6. orders' = Len(sent') + CommandsIn(buffered') + CommandsIn(typed')
    <3>. DEFINE b == CommandsIn(buffered)
                t == CommandsIn(typed)
                n == Len(sent)
    <3>1. b \in Nat /\ t \in Nat /\ n \in Nat /\ orders = n + b + t
      BY <1>t, <2>3, CommandsType
    <3>2. CommandsIn(buffered') = b /\ Len(sent') = n
      BY <2>2
    <3>3. CommandsIn(typed') = IF line \in Commands THEN t + 1 ELSE t
      BY <2>5
    <3>. HIDE DEF b, t, n
    <3>4. orders' = n + b + (IF line \in Commands THEN t + 1 ELSE t)
      BY <2>1, <3>1
    <3>. QED BY <3>2, <3>3, <3>4
  <2>7. lines' \in 0 .. MaxLines /\ orders' \in 0 .. lines' /\ Len(sent') <= orders'
    BY <2>1, <2>2, <2>3, Lengths
  <2>. QED BY <1>t, <2>2, <2>4, <2>6, <2>7 DEF TypeInv, TypeOK, Written
<1>3. CASE CloseStdin
  <2>1. /\ eof' \in BOOLEAN
        /\ UNCHANGED <<piped, cuts, typed, buffered, orders, lines, sent, left,
                       arrived, taken, pc, buffer, first, handled>>
    BY <1>3 DEF CloseStdin
  <2>2. CommandsIn(buffered') = CommandsIn(buffered) /\ CommandsIn(typed') = CommandsIn(typed)
    BY <2>1
  <2>. QED BY <1>t, <2>1, <2>2 DEF TypeInv, TypeOK, Written
<1>4. CASE Arrive
  <2>1. /\ arrived' \in arrived + 1 .. Written
        /\ UNCHANGED <<piped, cuts, typed, buffered, eof, orders, lines, sent, left,
                       taken, pc, buffer, first, handled>>
    BY <1>4 DEF Arrive
  <2>2. arrived' \in 0 .. Written' /\ taken' \in 0 .. arrived'
    BY <1>t, <2>1, Positions DEF Written
  <2>3. CommandsIn(buffered') = CommandsIn(buffered) /\ CommandsIn(typed') = CommandsIn(typed)
    BY <2>1
  <2>. QED BY <1>t, <2>1, <2>2, <2>3 DEF TypeInv, TypeOK
<1>5. CASE Subscriber
  <2>1. /\ typed' \in Seq(Lines) /\ buffered' \in Seq(Lines)
        /\ left' \in BOOLEAN
        /\ sent' \in Seq(Commands)
        /\ Len(sent') \in Len(sent) .. orders
        /\ orders = Len(sent') + CommandsIn(buffered') + CommandsIn(typed')
    BY <1>5, SubscriberType
  <2>2. UNCHANGED <<piped, cuts, eof, orders, lines, arrived, taken, pc, buffer,
                    first, handled>>
    BY <1>5 DEF Subscriber, NextBuffered, ReadLine
  <2>3. Len(sent') \in Nat /\ Len(sent) <= Len(sent') /\ Len(sent') <= orders
    BY <1>t, <2>1, Positions
  <2>4. Written <= Written' /\ Written' \in Nat
    <3>1. Len(sent') * ActionLen \in Nat
      BY <2>3, Lengths
    <3>2. IdLen + Len(sent) * ActionLen <= IdLen + Len(sent') * ActionLen
      BY <1>t, <2>3, Positions, WrittenGrows
    <3>. QED BY <3>1, <3>2, Lengths DEF Written
  <2>5. arrived' \in 0 .. Written' /\ Len(sent') <= orders'
    BY <1>t, <2>2, <2>3, <2>4, Positions DEF TypeOK
  <2>. QED BY <1>t, <2>1, <2>2, <2>5 DEF TypeInv, TypeOK
<1>6. CASE RecvId
  <2>1. taken' \in taken .. arrived /\ first' = taken'
    BY <1>6, <1>t, RecvIdTakes
  <2>2. /\ pc' = "command"
        /\ UNCHANGED <<piped, cuts, typed, buffered, eof, orders, lines, sent, left,
                       arrived, buffer, handled>>
    BY <1>6 DEF RecvId
  <2>3. /\ taken' \in 0 .. arrived' /\ first' \in 0 .. taken'
        /\ buffer' \in [1 .. ActionLen -> 0 .. taken']
    BY <1>t, <2>1, <2>2, Positions DEF TypeOK
  <2>4. CommandsIn(buffered') = CommandsIn(buffered) /\ CommandsIn(typed') = CommandsIn(typed)
    BY <2>2
  <2>. QED BY <1>t, <2>2, <2>3, <2>4 DEF TypeInv, TypeOK, Written
<1>7. CASE RecvCommand
  <2>1. taken' \in taken .. arrived /\ buffer' \in [1 .. ActionLen -> 0 .. taken']
    BY <1>7, <1>t, RecvTakes
  <2>2. UNCHANGED <<piped, cuts, typed, buffered, eof, orders, lines, sent, left,
                    arrived, pc, first>>
    BY <1>7 DEF RecvCommand
  <2>3. handled' \in Seq(Heard)
    <3>1. CASE UNCHANGED handled
      BY <1>t, <3>1, Positions
    <3>2. ASSUME NEW m \in Nat, NEW h, ReadInOne(m, h), handled' = Append(handled, h)
          PROVE  handled' \in Seq(Heard)
      BY <1>t, <3>2, HeardType, Positions
    <3>. QED BY <1>7, <1>t, <3>1, <3>2, Handles
  <2>4. taken' \in 0 .. arrived' /\ first' \in 0 .. taken'
    BY <1>t, <2>1, <2>2, Positions
  <2>5. CommandsIn(buffered') = CommandsIn(buffered) /\ CommandsIn(typed') = CommandsIn(typed)
    BY <2>2
  <2>. QED BY <1>t, <2>1, <2>2, <2>3, <2>4, <2>5 DEF TypeInv, TypeOK, Written
<1>8. CASE EndOfFile
  <2>1. /\ pc' = "ended"
        /\ UNCHANGED <<piped, cuts, typed, buffered, eof, orders, lines, sent, left,
                       arrived, taken, buffer, first, handled>>
    BY <1>8 DEF EndOfFile
  <2>2. CommandsIn(buffered') = CommandsIn(buffered) /\ CommandsIn(typed') = CommandsIn(typed)
    BY <2>1
  <2>. QED BY <1>t, <2>1, <2>2 DEF TypeInv, TypeOK, Written
<1>. QED BY <1>1, <1>2, <1>3, <1>4, <1>5, <1>6, <1>7, <1>8 DEF Next, Broker

(* No more commands are sent than were typed, the broker takes no more     *)
(* than has arrived, and what it acts on names an Action (subscriber.c:    *)
(* 104-158, server.c:172 and 219).                                         *)
THEOREM UplinkTypeCorrect == Spec => []TypeOK
<1>1. TypeInv => TypeOK
  BY DEF TypeInv
<1>. QED BY <1>1, TypeInit, TypeStep, PTL DEF Spec

-----------------------------------------------------------------------------
(* No command is handled with a part of another one, or twice, or after a  *)
(* later one.                                                              *)

LEMMA MixedInit == Init => MixedInv
<1>. SUFFICES ASSUME Init PROVE MixedInv
  OBVIOUS
<1>1. DOMAIN handled = {}
  BY DEF Init
<1>. QED BY <1>1, TypeInit DEF MixedInv, NeverMixed

(* A command read from here on is a later one than those handled. *)
LEMMA LaterAction ==
  ASSUME MixedInv, NEW m \in Nat, taken <= IdLen + m * ActionLen + PrefixLen,
         NEW i \in DOMAIN handled
  PROVE  handled[i].action < m + 1
<1>. DEFINE a == handled[i].action - 1
<1>1. handled[i] \in Heard
  BY Positions DEF MixedInv, TypeInv
<1>2. handled[i].action \in 1 .. MaxLines
  BY <1>1 DEF Heard
<1>3. a \in Nat /\ handled[i].action = a + 1
  BY <1>2, Lengths
<1>4. IdLen + a * ActionLen + PrefixLen < taken /\ taken \in Nat
  BY Positions DEF MixedInv, TypeInv, Start
<1>. HIDE DEF a
<1>5. a * ActionLen \in Nat /\ m * ActionLen \in Nat
  BY <1>3, Lengths
<1>6. a * ActionLen < m * ActionLen
  BY <1>4, <1>5, Lengths
<1>7. a < m
  BY <1>3, <1>6, Lengths, TimesLess
<1>. QED BY <1>3, <1>7

LEMMA MixedStep == MixedInv /\ [Next]_vars => MixedInv'
<1>. SUFFICES ASSUME MixedInv, [Next]_vars PROVE MixedInv'
  OBVIOUS
<1>t. TypeOK /\ TypeInv'
  BY TypeStep DEF MixedInv, TypeInv
<1>h. DOMAIN handled = 1 .. Len(handled) /\ Len(handled) \in Nat /\ handled \in Seq(Heard)
  BY <1>t, Positions
<1>s. \A i \in DOMAIN handled :
        /\ Start(handled[i].action) + PrefixLen \in Int
        /\ Start(handled[i].action) + PrefixLen < taken
  <2>. SUFFICES ASSUME NEW i \in DOMAIN handled
                PROVE  Start(handled[i].action) + PrefixLen \in Int
    BY DEF MixedInv
  <2>1. handled[i] \in Heard
    BY <1>h
  <2>2. handled[i].action \in Nat /\ handled[i].action - 1 \in Int
    BY <2>1, Lengths DEF Heard
  <2>3. (handled[i].action - 1) * ActionLen \in Int
    BY <2>2, Lengths
  <2>. QED BY <2>3, Lengths DEF Start
<1>1. ASSUME UNCHANGED handled, taken' \in Nat, taken <= taken'
      PROVE  MixedInv'
  <2>1. NeverMixed'
    BY <1>1 DEF MixedInv, NeverMixed
  <2>2. \A i \in DOMAIN handled' : Start(handled'[i].action) + PrefixLen < taken'
    BY <1>1, <1>s, <1>t, Positions
  <2>. QED BY <1>t, <2>1, <2>2 DEF MixedInv
<1>2. CASE RecvCommand
  <2>a. taken' \in Nat /\ taken <= taken'
    BY <1>2, <1>t, RecvTakes, Positions
  <2>1. ASSUME NEW m \in Nat, NEW h, ReadInOne(m, h), handled' = Append(handled, h)
        PROVE  MixedInv'
    <3>1. /\ DOMAIN handled' = 1 .. Len(handled) + 1
          /\ \A i \in 1 .. Len(handled) : handled'[i] = handled[i]
          /\ handled'[Len(handled) + 1] = h
      BY <1>h, <2>1
    <3>2. /\ h.action = m + 1
          /\ \A cell \in h.name : ActionOf(cell) = h.action
          /\ h.sf \in {0, h.action}
          /\ \A k \in 1 .. Len(handled) : handled[k].action < h.action
      BY <1>h, <2>1, LaterAction DEF ReadInOne
    <3>3. Start(h.action) + PrefixLen < taken'
      <4>1. (m + 1) - 1 = m
        OBVIOUS
      <4>. QED BY <2>1, <3>2, <4>1 DEF ReadInOne, Start
    <3>4. NeverMixed'
      <4>. SUFFICES ASSUME NEW i \in DOMAIN handled'
                    PROVE  /\ \A cell \in handled'[i].name : ActionOf(cell) = handled'[i].action
                           /\ handled'[i].sf \in {0, handled'[i].action}
                           /\ \A k \in 1 .. i - 1 : handled'[k].action < handled'[i].action
        BY DEF NeverMixed
      <4>1. CASE i \in 1 .. Len(handled)
        <5>1. \A k \in 1 .. i - 1 : k \in 1 .. Len(handled)
          BY <1>h, <4>1
        <5>. QED BY <1>h, <3>1, <4>1, <5>1 DEF MixedInv, NeverMixed
      <4>2. CASE i = Len(handled) + 1
        <5>1. i - 1 = Len(handled)
          BY <1>h, <4>2
        <5>. QED BY <3>1, <3>2, <4>2, <5>1
      <4>. QED BY <1>h, <3>1, <4>1, <4>2
    <3>5. \A i \in DOMAIN handled' : Start(handled'[i].action) + PrefixLen < taken'
      <4>. SUFFICES ASSUME NEW i \in DOMAIN handled'
                    PROVE  Start(handled'[i].action) + PrefixLen < taken'
        OBVIOUS
      <4>1. CASE i \in 1 .. Len(handled)
        BY <1>h, <1>s, <1>t, <2>a, <3>1, <4>1, Positions
      <4>2. CASE i = Len(handled) + 1
        BY <3>1, <3>3, <4>2
      <4>. QED BY <1>h, <3>1, <4>1, <4>2
    <3>. QED BY <1>t, <3>4, <3>5 DEF MixedInv
  <2>. QED BY <1>1, <1>2, <1>t, <2>a, <2>1, Handles
<1>3. CASE RecvId
  BY <1>1, <1>3, <1>t, RecvIdTakes, Positions DEF RecvId
<1>4. CASE TypeLine \/ CloseStdin \/ Arrive \/ Subscriber \/ EndOfFile \/ UNCHANGED vars
  <2>1. UNCHANGED <<handled, taken>>
    BY <1>4 DEF TypeLine, CloseStdin, Arrive, Subscriber, NextBuffered, ReadLine,
                EndOfFile, brokerVars, vars
  <2>. QED BY <1>1, <1>t, <2>1, Positions
<1>. QED BY <1>2, <1>3, <1>4 DEF Next, Broker

(* Wherever the stream is cut, the broker acts on no name and no SF of     *)
(* another Action than the one in which it read the command, and on no     *)
(* Action twice or after a later one (server.c:128 before :219, and        *)
(* utils.c:196).                                                           *)
THEOREM CommandsNeverMixed == Spec => []NeverMixed
<1>1. MixedInv => NeverMixed
  BY DEF MixedInv
<1>. QED BY <1>1, MixedInit, MixedStep, PTL DEF Spec

-----------------------------------------------------------------------------
(* As long as the network does not cut what one send() has written, and    *)
(* the first recv() has cut nothing, every recv() of a command returns the *)
(* next command, and all of it.                                            *)

(* The commands the broker is past. *)
Past == Swallowed + Len(handled)

(* What came with the identifier, if nothing was cut.                      *)
LEMMA SwallowedIs ==
  ASSUME TypeOK
  PROVE  /\ Swallowed \in Nat
         /\ SendEnds(first) => first = IdLen + Swallowed * ActionLen
<1>a. first \in Nat
  BY Positions
<1>1. CASE first > IdLen
  <2>. DEFINE n == first - IdLen
  <2>1. n \in Nat
    BY <1>a, <1>1, Lengths
  <2>2. Swallowed = n \div ActionLen
    BY <1>1 DEF Swallowed
  <2>3. SendEnds(first) => n % ActionLen = 0
    BY DEF SendEnds
  <2>4. first = IdLen + n
    BY <1>a, Lengths
  <2>. HIDE DEF n
  <2>5. Swallowed \in Nat /\ n = Swallowed * ActionLen + (n % ActionLen)
    BY <2>1, <2>2, Lengths, DivMod
  <2>6. Swallowed * ActionLen \in Nat
    BY <2>5, Lengths
  <2>7. SendEnds(first) => n = Swallowed * ActionLen
    BY <2>3, <2>5, <2>6
  <2>. QED BY <2>4, <2>5, <2>7
<1>2. CASE ~ (first > IdLen)
  <2>1. Swallowed = 0 /\ 0 * ActionLen = 0
    BY <1>2, Lengths DEF Swallowed
  <2>2. SendEnds(first) => first = IdLen + 0
    BY <1>a, <1>2, Lengths DEF SendEnds
  <2>. QED BY <2>1, <2>2
<1>. QED BY <1>1, <1>2

SwallowedWell ==
  Swallowed \in Nat /\ (SendEnds(first) => first = IdLen + Swallowed * ActionLen)

LEMMA SwallowedNow == TypeOK => SwallowedWell
  BY SwallowedIs DEF SwallowedWell

LEMMA SwallowedNext == TypeOK' => SwallowedWell'
  BY SwallowedNow, PTL

LEMMA PastType ==
  TypeOK => /\ Past \in Nat /\ Past * ActionLen \in Nat
            /\ Swallowed \in Nat /\ Len(handled) \in Nat
<1>1. TypeOK => Swallowed \in Nat /\ Len(handled) \in Nat
  BY Positions, SwallowedIs
<1>2. TypeOK => Past \in Nat
  BY <1>1 DEF Past
<1>. QED BY <1>1, <1>2, Lengths

(* What the broker is past has been sent. *)
LEMMA PastSent ==
  ASSUME TypeOK, taken = IdLen + Past * ActionLen
  PROVE  Past <= Len(sent)
<1>1. Len(sent) < Past => Len(sent) * ActionLen + ActionLen <= Past * ActionLen
  BY PastType, Positions, Lengths, TimesNext
<1>2. /\ Past \in Nat /\ Past * ActionLen \in Nat
      /\ Len(sent) \in Nat /\ Len(sent) * ActionLen \in Nat
      /\ taken <= IdLen + Len(sent) * ActionLen
  BY PastType, Positions
<1>. DEFINE p == Past * ActionLen
            q == Len(sent) * ActionLen
<1>3. /\ p \in Nat /\ q \in Nat /\ IdLen + p <= IdLen + q
      /\ Len(sent) < Past => q + ActionLen <= p
  BY <1>1, <1>2
<1>. HIDE DEF p, q
<1>4. ~ (Len(sent) < Past)
  BY <1>3, Lengths
<1>. QED BY <1>2, <1>4

(* The buffer holds an Action, all of it and nothing else. *)
HoldsAction(b, m) == \A i \in 1 .. ActionLen : b[i] = IdLen + m * ActionLen + i

LEMMA ActionCells ==
  ASSUME NEW m \in Nat, NEW b, HoldsAction(b, m)
  PROVE  \A i \in 1 .. ActionLen :
           /\ ActionOf(b[i]) = m + 1 /\ PlaceOf(b[i]) = i
           /\ b[i] \in Nat /\ b[i] > IdLen /\ b[i] = b[1] + i - 1
<1>. SUFFICES ASSUME NEW i \in 1 .. ActionLen
              PROVE  /\ ActionOf(b[i]) = m + 1 /\ PlaceOf(b[i]) = i
                     /\ b[i] \in Nat /\ b[i] > IdLen /\ b[i] = b[1] + i - 1
  OBVIOUS
<1>1. b[i] = IdLen + m * ActionLen + i /\ b[1] = IdLen + m * ActionLen + 1
  BY Lengths DEF HoldsAction
<1>2. ActionOf(b[i]) = m + 1 /\ PlaceOf(b[i]) = i
  BY <1>1, CellIn
<1>. DEFINE units == m * ActionLen
<1>3. units \in Nat /\ b[i] = IdLen + units + i /\ b[1] = IdLen + units + 1
  BY <1>1, Lengths
<1>. HIDE DEF units
<1>4. b[i] \in Nat /\ b[i] > IdLen /\ b[i] = b[1] + i - 1
  BY <1>3, Lengths
<1>. QED BY <1>2, <1>4

(* Its command is the one that was sent, and so are its name and its SF.   *)
LEMMA ActionWhole ==
  ASSUME NEW m \in Nat, NEW b, HoldsAction(b, m), sent[m + 1] \in Commands
  PROVE  /\ SaysSubscribe(b) <=> sent[m + 1] = "subscribe"
         /\ SaysUnsubscribe(b) <=> sent[m + 1] = "unsubscribe"
         /\ ~SfIsText(b)
         /\ HeardIn(b, sent[m + 1]) = Whole(m + 1)
<1>1. \A i \in 1 .. ActionLen :
        /\ ActionOf(b[i]) = m + 1 /\ PlaceOf(b[i]) = i
        /\ b[i] \in Nat /\ b[i] > IdLen /\ b[i] = b[1] + i - 1
  BY ActionCells
<1>2. /\ 1 \in 1 .. ActionLen /\ ActionLen \in 1 .. ActionLen /\ PrefixLen + 1 # 1
      /\ \A i \in 1 .. WordLen : i \in 1 .. ActionLen
      /\ \A i \in 1 .. PrefixLen + WordLen : i \in 1 .. ActionLen
  BY Lengths
<1>3. SaysSubscribe(b) <=> sent[m + 1] = "subscribe"
  <2>1. PlaceOf(b[1]) = 1 /\ ActionOf(b[1]) = m + 1 /\ b[1] > IdLen
    BY <1>1, <1>2
  <2>2. \A i \in 1 .. WordLen : b[i] = b[1] + i - 1
    BY <1>1, <1>2
  <2>. QED BY <1>2, <2>1, <2>2 DEF SaysSubscribe, BeginsAt
<1>4. SaysUnsubscribe(b) <=> sent[m + 1] = "unsubscribe"
  <2>1. PlaceOf(b[1]) = 1 /\ ActionOf(b[1]) = m + 1 /\ b[1] > IdLen
    BY <1>1, <1>2
  <2>2. \A i \in 1 .. PrefixLen + WordLen : b[i] = b[1] + i - 1
    BY <1>1, <1>2
  <2>. QED BY <1>2, <2>1, <2>2 DEF SaysUnsubscribe, BeginsAt
<1>5. ~SfIsText(b) /\ b[ActionLen] # 0 /\ ActionOf(b[ActionLen]) = m + 1
  <2>1. PlaceOf(b[ActionLen]) = ActionLen /\ b[ActionLen] > IdLen /\ b[ActionLen] \in Nat
    BY <1>1, <1>2
  <2>. QED BY <1>1, <1>2, <2>1, Lengths DEF SfIsText
<1>. DEFINE places == {k \in TypeLen + 1 .. TypeLen + TopicLen :
                          \A l \in TypeLen + 1 .. k : ~EndsName(b[l])}
            name == {IdLen + m * ActionLen + TypeLen + k : k \in 1 .. NameLen}
<1>6. \A l \in TypeLen + 1 .. TypeLen + TopicLen : EndsName(b[l]) <=> l > TypeLen + NameLen
  <2>. SUFFICES ASSUME NEW l \in TypeLen + 1 .. TypeLen + TopicLen
                PROVE  EndsName(b[l]) <=> l > TypeLen + NameLen
    OBVIOUS
  <2>1. l \in 1 .. ActionLen
    BY Lengths
  <2>2. PlaceOf(b[l]) = l /\ b[l] # 0
    BY <1>1, <2>1, Lengths
  <2>. QED BY <2>2, Lengths DEF EndsName
<1>7. places = TypeLen + 1 .. TypeLen + NameLen
  BY <1>6, Lengths
<1>8. {b[i] : i \in places} = name
  <2>1. \A i \in TypeLen + 1 .. TypeLen + NameLen :
          i - TypeLen \in 1 .. NameLen /\ b[i] = IdLen + m * ActionLen + TypeLen + (i - TypeLen)
    <3>. SUFFICES ASSUME NEW i \in TypeLen + 1 .. TypeLen + NameLen
                  PROVE  /\ i - TypeLen \in 1 .. NameLen
                         /\ b[i] = IdLen + m * ActionLen + TypeLen + (i - TypeLen)
      OBVIOUS
    <3>1. i \in 1 .. ActionLen /\ m * ActionLen \in Nat
      BY Lengths
    <3>2. b[i] = IdLen + m * ActionLen + i
      BY <3>1 DEF HoldsAction
    <3>. QED BY <3>1, <3>2, Lengths
  <2>2. \A k \in 1 .. NameLen :
          /\ TypeLen + k \in TypeLen + 1 .. TypeLen + NameLen
          /\ (TypeLen + k) - TypeLen = k
    BY Lengths
  <2>. HIDE DEF places
  <2>. QED BY <1>7, <2>1, <2>2
<1>9. NameIn(b) = name
  BY <1>8 DEF NameIn
<1>10. name = {IdLen + ((m + 1) - 1) * ActionLen + TypeLen + k : k \in 1 .. NameLen}
  <2>1. (m + 1) - 1 = m
    OBVIOUS
  <2>. QED BY <2>1
<1>. HIDE DEF name
<1>11. ActionOf(b[1]) = m + 1
  BY <1>1, <1>2
<1>12. HeardIn(b, sent[m + 1]) = Whole(m + 1)
  BY <1>5, <1>9, <1>10, <1>11 DEF HeardIn, Whole
<1>. QED BY <1>3, <1>4, <1>5, <1>12

(* A command is read, all of it and nothing else (server.c:219).           *)
LEMMA CommandInStep ==
  ASSUME TypeOK, InStep, SendEnds(first), RecvCommand
  PROVE  /\ taken' = IdLen + (Past + 1) * ActionLen
         /\ handled' = Append(handled, Whole(Past + 1))
<1>1. taken = IdLen + Past * ActionLen /\ Past \in Nat /\ Past * ActionLen \in Nat
  BY PastType DEF InStep, RecvCommand, Past
<1>2. arrived > taken /\ arrived \in Nat
  BY Positions DEF RecvCommand
<1>3. arrived >= taken + ActionLen
  <2>1. SendEnds(arrived)
    BY <1>2, Positions DEF InStep
  <2>. QED BY <1>1, <1>2, <2>1, NextSendEnd
<1>4. PICK k \in 1 .. ActionLen :
        /\ k = AtMost(ActionLen)
        /\ taken' = taken + k
        /\ \A i \in 1 .. ActionLen : buffer'[i] = IF i <= k THEN taken + i ELSE 0
  BY RecvTakes
<1>5. k = ActionLen
  <2>1. Available \in Nat /\ Available >= ActionLen
    BY <1>2, <1>3, Positions, Lengths
  <2>2. AtMost(ActionLen) = ActionLen
    BY <2>1, Lengths DEF AtMost
  <2>. QED BY <1>4, <2>2
<1>6. HoldsAction(buffer', Past)
  BY <1>1, <1>4, <1>5, Lengths DEF HoldsAction
<1>7. taken' = IdLen + (Past + 1) * ActionLen
  <2>1. (Past + 1) * ActionLen = Past * ActionLen + ActionLen
    BY <1>1, Lengths, NextUnit
  <2>. QED BY <1>1, <1>4, <1>5, <2>1, Lengths
<1>8. sent[Past + 1] \in Commands
  <2>1. Past * ActionLen < Len(sent) * ActionLen
    BY <1>1, <1>2, Positions, Lengths
  <2>2. Past < Len(sent)
    BY <1>1, <2>1, Positions, Lengths, TimesLess
  <2>. QED BY <1>1, <2>2, Positions
<1>9. /\ SaysSubscribe(buffer') <=> sent[Past + 1] = "subscribe"
      /\ SaysUnsubscribe(buffer') <=> sent[Past + 1] = "unsubscribe"
      /\ ~SfIsText(buffer')
      /\ HeardIn(buffer', sent[Past + 1]) = Whole(Past + 1)
  BY <1>1, <1>6, <1>8, ActionWhole
<1>10. handled' = Append(handled, Whole(Past + 1))
  <2>1. CASE sent[Past + 1] = "subscribe"
    BY <1>9, <2>1 DEF RecvCommand
  <2>2. CASE sent[Past + 1] = "unsubscribe"
    BY <1>9, <2>2 DEF RecvCommand
  <2>. QED BY <1>8, <2>1, <2>2 DEF Commands
<1>. QED BY <1>7, <1>10

LEMMA StepInit == Init => StepInv
<1>. SUFFICES ASSUME Init PROVE StepInv
  OBVIOUS
<1>1. /\ arrived = 0 /\ taken = 0 /\ first = 0 /\ handled = <<>>
      /\ pc = "identifier"
  BY DEF Init
<1>2. InStep /\ HandledIsSent
  BY <1>1 DEF InStep, HandledIsSent
<1>. QED BY <1>2, TypeInit DEF StepInv

LEMMA StepStep == StepInv /\ [Next]_vars => StepInv'
<1>. SUFFICES ASSUME StepInv, [Next]_vars PROVE StepInv'
  OBVIOUS
<1>t. TypeInv /\ TypeInv' /\ TypeOK /\ TypeOK'
  BY TypeStep DEF StepInv, TypeInv
<1>. USE DEF network, brokerVars
<1>c. cuts' = cuts
  BY DEF vars, Next, TypeLine, CloseStdin, Arrive, Subscriber, NextBuffered, ReadLine,
         Broker, RecvId, RecvCommand, EndOfFile
<1>. SUFFICES ASSUME ~cuts PROVE InStep' /\ HandledIsSent'
  BY <1>t, <1>c DEF StepInv, HandledIsSent
<1>i. /\ InStep
      /\ SendEnds(first) => \A i \in DOMAIN handled : handled[i] = Whole(i + Swallowed)
  BY DEF StepInv, HandledIsSent
<1>h. /\ Len(handled) \in Nat /\ Swallowed \in Nat /\ handled \in Seq(Heard)
      /\ DOMAIN handled = 1 .. Len(handled)
  BY <1>t, PastType, Positions
<1>1. ASSUME UNCHANGED <<taken, pc, first, handled, sent>>,
             arrived' = arrived \/ SendEnds(arrived')
      PROVE  InStep' /\ HandledIsSent'
  <2>1. Swallowed' = Swallowed
    BY <1>1 DEF Swallowed
  <2>2. InStep'
    BY <1>1, <1>i, <2>1 DEF InStep, SendEnds
  <2>. QED BY <1>1, <1>i, <2>1, <2>2 DEF SendEnds, HandledIsSent, Whole
<1>2. CASE TypeLine \/ CloseStdin \/ UNCHANGED vars
  BY <1>1, <1>2 DEF TypeLine, CloseStdin, vars, userVars
<1>3. CASE Arrive
  BY <1>1, <1>3 DEF Arrive, userVars
<1>4. CASE Subscriber
  <2>1. UNCHANGED <<arrived, taken, pc, first, handled>>
    BY <1>4 DEF Subscriber, NextBuffered, ReadLine
  <2>2. Swallowed' = Swallowed
    BY <2>1 DEF Swallowed
  <2>3. \A n \in 1 .. Len(sent) : sent'[n] = sent[n]
    BY <1>4, <1>t, SubscriberType
  <2>4. InStep'
    BY <1>i, <2>1, <2>2 DEF InStep, SendEnds
  <2>5. ASSUME SendEnds(first), NEW i \in DOMAIN handled
        PROVE  handled'[i] = Whole(i + Swallowed)'
    <3>1. handled # <<>>
      BY <1>h, <2>5
    <3>2. taken = IdLen + Past * ActionLen
      BY <1>i, <2>5, <3>1 DEF InStep, Past
    <3>3. Past <= Len(sent)
      BY <1>t, <3>2, PastSent
    <3>4. i + Swallowed \in 1 .. Len(sent)
      BY <1>h, <1>t, <3>3, Positions DEF Past
    <3>5. sent'[i + Swallowed] = sent[i + Swallowed]
      BY <2>3, <3>4
    <3>. QED BY <1>i, <2>1, <2>2, <2>5, <3>5 DEF Whole
  <2>6. HandledIsSent'
    BY <2>1, <2>2, <2>5 DEF HandledIsSent, SendEnds
  <2>. QED BY <2>4, <2>6
<1>5. CASE RecvId
  <2>1. /\ UNCHANGED <<arrived, handled>> /\ handled = <<>>
        /\ pc' = "command" /\ first' = taken'
    BY <1>5, <1>i, <1>t, RecvIdTakes DEF RecvId, InStep
  <2>2. /\ Swallowed' \in Nat
        /\ SendEnds(first') => first' = IdLen + Swallowed' * ActionLen
    BY <1>t, SwallowedNext DEF SwallowedWell, SendEnds
  <2>3. Swallowed' + Len(handled') = Swallowed'
    <3>1. Len(handled') = 0
      BY <2>1
    <3>2. \A n \in Nat : n + 0 = n
      OBVIOUS
    <3>. QED BY <2>2, <3>1, <3>2
  <2>. QED BY <1>i, <2>1, <2>2, <2>3 DEF InStep, SendEnds, HandledIsSent
<1>6. CASE RecvCommand
  <2>1. UNCHANGED <<arrived, pc, first, sent>> /\ pc = "command"
    BY <1>6 DEF RecvCommand, userVars
  <2>2. Swallowed' = Swallowed
    BY <2>1 DEF Swallowed
  <2>3. CASE ~SendEnds(first)
    BY <1>i, <2>1, <2>3 DEF InStep, SendEnds, HandledIsSent
  <2>4. CASE SendEnds(first)
    <3>1. /\ taken' = IdLen + (Past + 1) * ActionLen
          /\ handled' = Append(handled, Whole(Past + 1))
      BY <1>6, <1>i, <1>t, <2>4, CommandInStep
    <3>2. /\ Len(handled') = Len(handled) + 1
          /\ DOMAIN handled' = 1 .. Len(handled) + 1
          /\ \A i \in 1 .. Len(handled) : handled'[i] = handled[i]
          /\ handled'[Len(handled) + 1] = Whole(Past + 1)
      BY <1>h, <3>1
    <3>3. Swallowed' + Len(handled') = Past + 1
      BY <1>h, <2>2, <3>2 DEF Past
    <3>4. InStep'
      BY <1>i, <2>1, <3>1, <3>3 DEF InStep, SendEnds
    <3>5. \A i \in DOMAIN handled' : handled'[i] = Whole(i + Swallowed)
      <4>. SUFFICES ASSUME NEW i \in DOMAIN handled'
                    PROVE  handled'[i] = Whole(i + Swallowed)
        OBVIOUS
      <4>1. CASE i \in 1 .. Len(handled)
        BY <1>h, <1>i, <2>4, <3>2, <4>1
      <4>2. CASE i = Len(handled) + 1
        <5>1. i + Swallowed = Past + 1
          BY <1>h, <4>2 DEF Past
        <5>. QED BY <3>2, <4>2, <5>1
      <4>. QED BY <1>h, <3>2, <4>1, <4>2
    <3>6. HandledIsSent'
      BY <2>1, <2>2, <3>5 DEF HandledIsSent, Whole
    <3>. QED BY <3>4, <3>6
  <2>. QED BY <2>3, <2>4
<1>7. CASE EndOfFile
  <2>1. /\ UNCHANGED <<arrived, taken, first, handled, sent>>
        /\ pc' = "ended" /\ pc = "command"
    BY <1>7 DEF EndOfFile, userVars
  <2>2. Swallowed' = Swallowed
    BY <2>1 DEF Swallowed
  <2>. QED BY <1>i, <2>1, <2>2 DEF InStep, SendEnds, HandledIsSent, Whole
<1>. QED BY <1>2, <1>3, <1>4, <1>5, <1>6, <1>7 DEF Next, Broker

(* If the network cuts nothing that one send() has written, and the buffer *)
(* of the first recv() has cut nothing either, the broker handles every    *)
(* command whole and in the order in which they were sent, in whatever     *)
(* groups they arrive; only those that came with the identifier are        *)
(* missing (server.c:172 and 219).                                         *)
THEOREM HandledAsSent == Spec => []HandledIsSent
<1>1. StepInv => HandledIsSent
  BY DEF StepInv
<1>. QED BY <1>1, StepInit, StepStep, PTL DEF Spec

=============================================================================
