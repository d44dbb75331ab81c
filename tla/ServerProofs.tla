---------------------------- MODULE ServerProofs ----------------------------
(* Theorems about module Server, and their proofs. *)
EXTENDS Server, TLAPS, SequenceTheorems, FiniteSetTheorems, WellFoundedInduction

(* A function that maps every position of a sequence to an element of S is *)
(* a sequence of S.                                                        *)
LEMMA SeqOfFunction ==
  ASSUME NEW S, NEW n \in Nat, NEW f \in [1 .. n -> S]
  PROVE  f \in Seq(S)
  OBVIOUS

(* The first position of a set of positions exists. *)
LEMMA FirstExists ==
  ASSUME NEW P, P \subseteq Nat, P # {}
  PROVE  \E i \in P : \A k \in P : i <= k
<1>. DEFINE Below == {ij \in Nat \X Nat : ij[1] < ij[2]}
<1>1. IsWellFoundedOn(Below, Nat)
  BY NatLessThanWellFounded DEF OpToRel
<1>2. PICK i \in P : \A k \in P : ~ (<<k, i>> \in Below)
  <2>. HIDE DEF Below
  <2>. QED BY <1>1, WFMin
<1>3. ASSUME NEW k \in P PROVE i <= k
  <2>1. k \in Nat /\ i \in Nat
    OBVIOUS
  <2>2. k < i => <<k, i>> \in Below
    BY <2>1
  <2>. QED BY <1>2, <2>1, <2>2
<1>. QED BY <1>3

-----------------------------------------------------------------------------
(* What the handlers make of one Topic record is a Topic record. *)

LEMMA TopicFields ==
  ASSUME NEW tp \in Topic
  PROVE  /\ tp.name \in Topics /\ tp.sf \in {0, 1} /\ tp.subscribed \in BOOLEAN
         /\ tp.tcps \in Seq(Msgs) /\ Len(tp.tcps) \in Nat
         /\ tp.max_tcps \in Nat \ {0}
         /\ tp.block \in {"null", "live", "freed"} /\ tp.cap \in Nat
  BY DEF Topic

LEMMA NewTopicType ==
  ASSUME NEW t \in Topics, NEW sf \in {0, 1}
  PROVE  NewTopic(t, sf) \in Topic
  BY ServerAssumption DEF NewTopic, Topic

LEMMA EmptiedType ==
  ASSUME NEW tp \in Topic
  PROVE  Emptied(tp) \in Topic
<1>1. <<>> \in Seq(Msgs)
  BY EmptySeq
<1>. QED BY <1>1, ServerAssumption DEF Emptied, Topic

LEMMA FreshArrayType ==
  ASSUME NEW tp \in Topic
  PROVE  FreshArray(tp) \in Topic
<1>1. <<>> \in Seq(Msgs)
  BY EmptySeq
<1>. QED BY <1>1, ServerAssumption DEF FreshArray, Topic

LEMMA StoredType ==
  ASSUME NEW tp \in Topic, NEW n \in Msgs
  PROVE  store_tcp_msg_to_unconn_client(tp, n) \in Topic
<1>1. Append(tp.tcps, n) \in Seq(Msgs)
  BY TopicFields
<1>2. 2 * tp.max_tcps \in Nat \ {0}
  BY TopicFields
<1>. QED BY <1>1, <1>2 DEF store_tcp_msg_to_unconn_client, Topic

(* A function on the positions of a sequence is a sequence as long. *)
LEMMA SameDomain ==
  ASSUME NEW S, NEW T, NEW q \in Seq(S), NEW f \in [DOMAIN q -> T]
  PROVE  /\ f \in Seq(T)
         /\ DOMAIN f = DOMAIN q
         /\ Len(f) = Len(q)
<1>1. /\ Len(q) \in Nat
      /\ DOMAIN q = 1 .. Len(q)
  BY LenProperties
<1>2. f \in Seq(T)
  BY <1>1, SeqOfFunction
<1>3. DOMAIN f = 1 .. Len(f) /\ Len(f) \in Nat
  BY <1>2, LenProperties
<1>. QED BY <1>1, <1>2, <1>3

-----------------------------------------------------------------------------
(* Type correctness. *)

LEMMA RecordType ==
  ASSUME TypeOK, NEW i \in DOMAIN subscribers
  PROVE  /\ i \in Nat /\ i \in 1 .. Len(subscribers)
         /\ subscribers[i] \in Client
         /\ subscribers[i].id \in Ids
         /\ subscribers[i].socket \in ClientFds
         /\ subscribers[i].connected \in BOOLEAN
<1>1. subscribers \in Seq(Client)
  BY DEF TypeOK
<1>2. i \in 1 .. Len(subscribers) /\ Len(subscribers) \in Nat
  BY <1>1, LenProperties
<1>3. subscribers[i] \in Client
  BY <1>1, <1>2, ElementOfSeq
<1>. QED BY <1>2, <1>3 DEF Client

LEMMA TopicType ==
  ASSUME TypeOK, NEW id \in Ids
  PROVE  /\ topics[id] \in Seq(Topic)
         /\ \A j \in DOMAIN topics[id] :
              /\ j \in Nat /\ j \in 1 .. Len(topics[id])
              /\ topics[id][j] \in Topic
<1>1. topics[id] \in Seq(Topic)
  BY DEF TypeOK
<1>. QED BY <1>1, LenProperties, ElementOfSeq

LEMMA FdStepType ==
  ASSUME FdTypeOK, NEW s \in ClientFds,
         link' \in [ClientFds -> LinkStates],
         Watch(s) \/ WatchAndDrop(s) \/ Unwatch(s)
  PROVE  FdTypeOK'
<1>1. s \in Int
  BY FdAssumption DEF ClientFds
<1>2. CASE Watch(s)
  BY <1>1, <1>2 DEF FdTypeOK, Watch, MaxOf
<1>3. CASE WatchAndDrop(s)
  BY <1>1, <1>3 DEF FdTypeOK, WatchAndDrop
<1>4. CASE Unwatch(s)
  BY <1>1, <1>4 DEF FdTypeOK, Unwatch
<1>. QED BY <1>2, <1>3, <1>4

LEMMA CopiesType ==
  ASSUME NEW id, NEW t, NEW upto \in Nat
  PROVE  Copies(id, t, upto) \in Nat
<1>. DEFINE C == {i \in 1 .. upto :
                   /\ Sends(i, t)
                   /\ PeerOpen(subscribers[i].socket)
                   /\ peer[subscribers[i].socket] = id}
<1>1. IsFiniteSet(1 .. upto)
  BY FS_Interval
<1>2. IsFiniteSet(C)
  BY <1>1, FS_Subset
<1>. QED BY <1>2, FS_CardinalityType DEF Copies

LEMMA DeliverType ==
  ASSUME TypeOK, NEW t \in Topics, NEW n \in Msgs, NEW upto \in Nat,
         Deliver(t, n, upto)
  PROVE  /\ topics' \in [Ids -> Seq(Topic)]
         /\ received' \in [Ids -> [Topics -> Seq(Msgs)]]
         /\ link' \in [ClientFds -> LinkStates]
<1>1. topics' \in [Ids -> Seq(Topic)]
  <2>1. ASSUME NEW id \in Ids PROVE topics'[id] \in Seq(Topic)
    <3>1. topics[id] \in Seq(Topic)
      BY DEF TypeOK
    <3>2. ASSUME NEW j \in DOMAIN topics[id] PROVE topics[id][j] \in Topic
      BY <3>1, LenProperties, ElementOfSeq
    <3>3. topics'[id] \in [DOMAIN topics[id] -> Topic]
      BY <3>2, StoredType DEF Deliver
    <3>. QED BY <3>1, <3>3, SameDomain
  <2>. QED BY <2>1 DEF Deliver
<1>2. received' \in [Ids -> [Topics -> Seq(Msgs)]]
  <2>1. ASSUME NEW id \in Ids
        PROVE  received[id][t] \o [c \in 1 .. Copies(id, t, upto) |-> n] \in Seq(Msgs)
    <3>1. [c \in 1 .. Copies(id, t, upto) |-> n] \in Seq(Msgs)
      BY CopiesType, SeqOfFunction
    <3>2. received[id][t] \in Seq(Msgs)
      BY DEF TypeOK
    <3>. QED BY <3>1, <3>2, ConcatProperties
  <2>. QED BY <2>1 DEF Deliver, TypeOK
<1>3. link' \in [ClientFds -> LinkStates]
  BY DEF Deliver, TypeOK, FdTypeOK, LinkStates
<1>. QED BY <1>1, <1>2, <1>3

LEMMA ReplyType ==
  ASSUME TypeOK, Running, NEW s \in ClientFds, Reply(s)
  PROVE  link' \in [ClientFds -> LinkStates] /\ status' \in Statuses
  BY DEF Reply, SendToGone, TypeOK, FdTypeOK, LinkStates, Statuses, Running

LEMMA DisconnectType ==
  ASSUME TypeOK, NEW s \in ClientFds, disconnect_client(s)
  PROVE  /\ subscribers' \in Seq(Client)
         /\ topics' \in [Ids -> Seq(Topic)]
         /\ link' \in [ClientFds -> LinkStates]
         /\ peer' \in [ClientFds -> Ids \union {NoId}]
<1>. DEFINE found == get_client_by_socket(s)
<1>1. \A i \in DOMAIN subscribers : subscribers[i] \in Client
  BY LenProperties, ElementOfSeq DEF TypeOK
<1>2. subscribers' \in Seq(Client)
  <2>1. subscribers' \in [DOMAIN subscribers -> Client]
    BY <1>1 DEF disconnect_client, Client
  <2>. QED BY <2>1, SameDomain DEF TypeOK
<1>3. topics' \in [Ids -> Seq(Topic)]
  <2>1. ASSUME NEW id \in Ids PROVE topics'[id] \in Seq(Topic)
    <3>1. topics[id] \in Seq(Topic)
      BY DEF TypeOK
    <3>2. ASSUME NEW j \in DOMAIN topics[id] PROVE topics[id][j] \in Topic
      BY <3>1, LenProperties, ElementOfSeq
    <3>3. [j \in DOMAIN topics[id] |-> FreshArray(topics[id][j])] \in Seq(Topic)
      BY <3>1, <3>2, FreshArrayType, SameDomain
    <3>. QED BY <3>1, <3>3 DEF disconnect_client
  <2>. QED BY <2>1 DEF disconnect_client
<1>4. link' \in [ClientFds -> LinkStates]
  BY DEF disconnect_client, TypeOK, FdTypeOK, LinkStates
<1>5. peer' \in [ClientFds -> Ids \union {NoId}]
  BY DEF disconnect_client, TypeOK
<1>. QED BY <1>2, <1>3, <1>4, <1>5

LEMMA ReconnectType ==
  ASSUME TypeOK, NEW id \in Ids, NEW i \in DOMAIN subscribers,
         NEW s \in ClientFds, NEW alive, reconnect_old_sub(id, i, s, alive)
  PROVE  /\ subscribers' \in Seq(Client)
         /\ received' \in [Ids -> [Topics -> Seq(Msgs)]]
         /\ freed' \subseteq Msgs
         /\ topics' \in [Ids -> Seq(Topic)]
<1>1. \A k \in DOMAIN subscribers : subscribers[k] \in Client
  BY LenProperties, ElementOfSeq DEF TypeOK
<1>2. topics[id] \in Seq(Topic)
  BY DEF TypeOK
<1>3. ASSUME NEW j \in DOMAIN topics[id] PROVE topics[id][j] \in Topic
  BY <1>2, LenProperties, ElementOfSeq
<1>4. subscribers' \in Seq(Client)
  <2>1. subscribers' \in [DOMAIN subscribers -> Client]
    BY <1>1 DEF reconnect_old_sub, Client
  <2>. QED BY <2>1, SameDomain DEF TypeOK
<1>5. received' \in [Ids -> [Topics -> Seq(Msgs)]]
  <2>1. ASSUME NEW t \in Topics PROVE received[id][t] \o Replayed(id, t) \in Seq(Msgs)
    <3>1. Replayed(id, t) \in Seq(Msgs)
      <4>1. CASE Keeping(id, t) = {}
        BY <4>1, EmptySeq DEF Replayed
      <4>2. CASE Keeping(id, t) # {}
        BY <4>2, <1>3, TopicFields DEF Replayed, Keeping, TopicOf
      <4>. QED BY <4>1, <4>2
    <3>2. received[id][t] \in Seq(Msgs)
      BY DEF TypeOK
    <3>. QED BY <3>1, <3>2, ConcatProperties
  <2>. QED BY <2>1 DEF reconnect_old_sub, TypeOK
<1>6. freed' \subseteq Msgs
  <2>1. ASSUME NEW j \in DOMAIN topics[id] PROVE ToSet(topics[id][j].tcps) \subseteq Msgs
    <3>1. topics[id][j].tcps \in Seq(Msgs)
      BY <1>3, TopicFields
    <3>. QED BY <3>1, LenProperties, ElementOfSeq DEF ToSet
  <2>2. StoredFor(id) \subseteq Msgs
    BY <2>1 DEF StoredFor
  <2>. QED BY <2>2 DEF reconnect_old_sub, TypeOK
<1>7. topics' \in [Ids -> Seq(Topic)]
  <2>1. [j \in DOMAIN topics[id] |-> Emptied(topics[id][j])] \in Seq(Topic)
    BY <1>2, <1>3, EmptiedType, SameDomain
  <2>. QED BY <2>1 DEF reconnect_old_sub, TypeOK
<1>. QED BY <1>4, <1>5, <1>6, <1>7

LEMMA SubscribeType ==
  ASSUME TypeOK, Running, NEW s \in ClientFds, NEW t \in Topics, NEW sf \in SfInputs,
         subscribe_to_topic(t, sf, s)
  PROVE  /\ topics' \in [Ids -> Seq(Topic)]
         /\ link' \in [ClientFds -> LinkStates]
         /\ status' \in Statuses
<1>1. PICK i \in get_client_by_socket(s) :
        LET id == subscribers[i].id IN
        \/ \E j \in KnownTopic(id, t, sf) : ChangeSf(id, j, sf) /\ Reply(s)
        \/ /\ sf \in {0, 1}
           /\ topics' = [topics EXCEPT ![id] = Append(@, NewTopic(t, sf))]
           /\ UNCHANGED <<link, status>>
        \/ Reply(s) /\ UNCHANGED topics
  BY DEF subscribe_to_topic
<1>. DEFINE id == subscribers[i].id
<1>2. id \in Ids
  <2>1. i \in DOMAIN subscribers
    BY DEF get_client_by_socket
  <2>. QED BY <2>1, RecordType
<1>3. topics[id] \in Seq(Topic)
  BY <1>2 DEF TypeOK
<1>4. CASE \E j \in KnownTopic(id, t, sf) : ChangeSf(id, j, sf) /\ Reply(s)
  <2>1. PICK j \in KnownTopic(id, t, sf) : ChangeSf(id, j, sf) /\ Reply(s)
    BY <1>4
  <2>2. j \in 1 .. Len(topics[id]) /\ topics[id][j] \in Topic
    BY <1>3, LenProperties, ElementOfSeq DEF KnownTopic, Found, TopicOf
  <2>3. sf \in {0, 1} => [topics[id][j] EXCEPT !.sf = sf] \in Topic
    BY <2>2 DEF Topic
  <2>4. topics' \in [Ids -> Seq(Topic)]
    BY <1>2, <1>3, <2>1, <2>2, <2>3, ExceptSeq DEF ChangeSf, TypeOK
  <2>. QED BY <2>1, <2>4, ReplyType
<1>5. CASE /\ sf \in {0, 1}
           /\ topics' = [topics EXCEPT ![id] = Append(@, NewTopic(t, sf))]
           /\ UNCHANGED <<link, status>>
  <2>1. Append(topics[id], NewTopic(t, sf)) \in Seq(Topic)
    BY <1>3, <1>5, NewTopicType, AppendProperties
  <2>. QED BY <1>2, <1>5, <2>1 DEF TypeOK, FdTypeOK
<1>6. CASE Reply(s) /\ UNCHANGED topics
  BY <1>6, ReplyType DEF TypeOK
<1>. QED BY <1>1, <1>4, <1>5, <1>6

LEMMA UnsubscribeType ==
  ASSUME TypeOK, Running, NEW s \in ClientFds, NEW t \in Topics,
         unsubscribe_from_topic(t, s)
  PROVE  /\ topics' \in [Ids -> Seq(Topic)]
         /\ link' \in [ClientFds -> LinkStates]
         /\ status' \in Statuses
<1>1. PICK i \in get_client_by_socket(s) :
        LET id == subscribers[i].id IN
        \/ \E j \in SubscribedTopic(id, t) :
             /\ topics' = [topics EXCEPT ![id][j].subscribed = FALSE]
             /\ UNCHANGED <<link, status>>
        \/ Reply(s) /\ UNCHANGED topics
  BY DEF unsubscribe_from_topic
<1>. DEFINE id == subscribers[i].id
<1>2. id \in Ids
  <2>1. i \in DOMAIN subscribers
    BY DEF get_client_by_socket
  <2>. QED BY <2>1, RecordType
<1>3. topics[id] \in Seq(Topic)
  BY <1>2 DEF TypeOK
<1>4. CASE \E j \in SubscribedTopic(id, t) :
             /\ topics' = [topics EXCEPT ![id][j].subscribed = FALSE]
             /\ UNCHANGED <<link, status>>
  <2>1. PICK j \in SubscribedTopic(id, t) :
             /\ topics' = [topics EXCEPT ![id][j].subscribed = FALSE]
             /\ UNCHANGED <<link, status>>
    BY <1>4
  <2>2. j \in 1 .. Len(topics[id]) /\ topics[id][j] \in Topic
    BY <1>3, LenProperties, ElementOfSeq DEF SubscribedTopic, Found, TopicOf
  <2>3. [topics[id][j] EXCEPT !.subscribed = FALSE] \in Topic
    BY <2>2 DEF Topic
  <2>4. topics' \in [Ids -> Seq(Topic)]
    BY <1>2, <1>3, <2>1, <2>2, <2>3, ExceptSeq DEF TypeOK
  <2>. QED BY <2>1, <2>4 DEF TypeOK, FdTypeOK
<1>5. CASE Reply(s) /\ UNCHANGED topics
  BY <1>5, ReplyType DEF TypeOK
<1>. QED BY <1>1, <1>4, <1>5

(* TypeOK is inductive: one step per action of Next. *)
LEMMA TypeStep == TypeOK /\ [Next]_vars => TypeOK'
<1>. SUFFICES ASSUME TypeOK, [Next]_vars PROVE TypeOK'
  OBVIOUS
<1>1. ASSUME NEW s \in ClientFds, ClientCloses(s) PROVE TypeOK'
  BY <1>1 DEF ClientCloses, TypeOK, FdTypeOK, LinkStates
<1>2. ASSUME NEW id \in Ids, NEW s \in ClientFds, NEW alive \in BOOLEAN,
             AcceptNew(id, s, alive)
      PROVE  TypeOK'
  <2>1. [id |-> id, socket |-> s, connected |-> TRUE] \in Client
    BY DEF Client
  <2>2. subscribers' \in Seq(Client)
    BY <1>2, <2>1, AppendProperties DEF AcceptNew, add_new_client, TypeOK
  <2>3. topics' \in [Ids -> Seq(Topic)]
    <3>1. <<>> \in Seq(Topic)
      BY EmptySeq
    <3>. QED BY <1>2, <3>1 DEF AcceptNew, add_new_client, TypeOK
  <2>4. link' \in [ClientFds -> LinkStates] /\ peer' \in [ClientFds -> Ids \union {NoId}]
    BY <1>2 DEF AcceptNew, Established, TypeOK, FdTypeOK, LinkStates
  <2>5. FdTypeOK'
    BY <1>2, <2>4, FdStepType DEF AcceptNew, TypeOK
  <2>. QED BY <1>2, <2>2, <2>3, <2>4, <2>5 DEF AcceptNew, TypeOK
<1>3. ASSUME NEW id \in Ids, NEW s \in ClientFds, NEW alive \in BOOLEAN,
             AcceptDuplicate(id, s, alive)
      PROVE  TypeOK'
  <2>1. link' = link /\ status' \in Statuses
    BY <1>3 DEF AcceptDuplicate, SendToGone, TypeOK, Statuses
  <2>2. FdTypeOK'
    BY <1>3, <2>1, FdStepType DEF AcceptDuplicate, TypeOK, FdTypeOK
  <2>. QED BY <1>3, <2>1, <2>2 DEF AcceptDuplicate, TypeOK
<1>4. ASSUME NEW id \in Ids, NEW s \in ClientFds, NEW alive \in BOOLEAN,
             AcceptReturning(id, s, alive)
      PROVE  TypeOK'
  <2>1. PICK i \in get_client_by_id(id) : reconnect_old_sub(id, i, s, alive)
    BY <1>4 DEF AcceptReturning
  <2>2. i \in DOMAIN subscribers
    BY DEF get_client_by_id
  <2>3. link' \in [ClientFds -> LinkStates] /\ peer' \in [ClientFds -> Ids \union {NoId}]
    BY <1>4 DEF AcceptReturning, Established, TypeOK, FdTypeOK, LinkStates
  <2>4. FdTypeOK'
    BY <1>4, <2>3, FdStepType DEF AcceptReturning, TypeOK
  <2>. QED BY <1>4, <2>1, <2>2, <2>3, <2>4, ReconnectType DEF AcceptReturning, TypeOK
<1>5. ASSUME NEW id \in Ids, NEW s \in ClientFds, NEW alive \in BOOLEAN,
             ReplayFails(id, s, alive)
      PROVE  TypeOK'
  BY <1>5 DEF ReplayFails, TypeOK, FdTypeOK, fdVars, Statuses
<1>6. ASSUME NEW s \in ClientFds, EndOfFile(s) PROVE TypeOK'
  <2>1. FdTypeOK'
    BY <1>6, DisconnectType, FdStepType DEF EndOfFile, TypeOK
  <2>. QED BY <1>6, <2>1, DisconnectType DEF EndOfFile, TypeOK
<1>7. ASSUME NEW s \in ClientFds, RecvFails(s) PROVE TypeOK'
  BY <1>7 DEF RecvFails, TypeOK, FdTypeOK, fdVars, Statuses
<1>8. ASSUME NEW s \in ClientFds, NEW t \in Topics, NEW sf \in SfInputs,
             Subscribe(s, t, sf)
      PROVE  TypeOK'
  BY <1>8, SubscribeType DEF Subscribe, TypeOK, FdTypeOK
<1>9. ASSUME NEW s \in ClientFds, NEW t \in Topics, Unsubscribe(s, t)
      PROVE  TypeOK'
  BY <1>9, UnsubscribeType DEF Unsubscribe, TypeOK, FdTypeOK
<1>10. CASE MalformedDatagram
  BY <1>10 DEF MalformedDatagram, TypeOK, FdTypeOK, fdVars, Statuses
<1>11. ASSUME NEW t \in Topics, UdpMessage(t) PROVE TypeOK'
  <2>1. published + 1 \in Msgs /\ published' \in 0 .. MaxMsgs
    BY <1>11, ServerAssumption DEF UdpMessage, TypeOK, Msgs
  <2>2. Len(subscribers) \in Nat
    BY LenProperties DEF TypeOK
  <2>. QED BY <1>11, <2>1, <2>2, DeliverType DEF UdpMessage, TypeOK, FdTypeOK
<1>12. ASSUME NEW t \in Topics, UdpMessageFails(t) PROVE TypeOK'
  <2>1. published + 1 \in Msgs /\ published' \in 0 .. MaxMsgs
    BY <1>12, ServerAssumption DEF UdpMessageFails, TypeOK, Msgs
  <2>2. PICK k \in DOMAIN subscribers :
          /\ status' \in SendFaults(k, t) \union StoreFaults(k, t)
          /\ Deliver(t, published + 1, k - 1)
    BY <1>12 DEF UdpMessageFails
  <2>3. k - 1 \in Nat
    BY RecordType
  <2>4. status' \in Statuses
    BY <2>2 DEF SendFaults, StoreFaults, Statuses
  <2>. QED BY <1>12, <2>1, <2>2, <2>3, <2>4, DeliverType DEF UdpMessageFails, TypeOK, FdTypeOK
<1>13. CASE ExitCommand
  BY <1>13 DEF ExitCommand, TypeOK, FdTypeOK, fdVars, Statuses
<1>14. CASE UNCHANGED vars
  BY <1>14 DEF vars, fdVars, TypeOK, FdTypeOK
<1>15. ASSUME NEW t \in Topics, UdpUnheard(t) PROVE TypeOK'
  <2>1. published' \in 0 .. MaxMsgs
    BY <1>15, ServerAssumption DEF UdpUnheard, TypeOK
  <2>. QED BY <1>15, <2>1 DEF UdpUnheard, TypeOK, FdTypeOK, fdVars
<1>16. CASE CallFails
  BY <1>16 DEF CallFails, TypeOK, FdTypeOK, fdVars, Statuses
<1>. QED BY <1>1, <1>2, <1>3, <1>4, <1>5, <1>6, <1>7, <1>8, <1>9, <1>10, <1>11,
            <1>12, <1>13, <1>14, <1>15, <1>16
         DEF Next, ClientNext, AcceptNext, CommandNext, DatagramNext

LEMMA InitType == Init => TypeOK
<1>. SUFFICES ASSUME Init PROVE TypeOK
  OBVIOUS
<1>1. \A S : <<>> \in Seq(S)
  BY EmptySeq
<1>. QED BY <1>1, FdAssumption, ServerAssumption
         DEF Init, TypeOK, FdInit, FdTypeOK, LinkStates, Statuses, ClientFds

(* Every variable keeps its type: whatever the identifiers, the topics and *)
(* the bounds.                                                             *)
THEOREM TypeCorrect == Spec => []TypeOK
  BY InitType, TypeStep, PTL DEF Spec

-----------------------------------------------------------------------------
(* Who is on which socket.  OwnerConnected is not inductive by itself: a   *)
(* returning client must not own an open socket already (its record says   *)
(* it is disconnected, and UniqueIds leaves it no other record), and the   *)
(* lookup at an end-of-file must find a record.                            *)

SocketInv ==
  /\ TypeOK
  /\ UniqueIds
  /\ OwnerConnected
  /\ ReadSetMatchesOpen
  /\ ListenerWatched

(* get_client_by_id finds the record of an identifier that has one. *)
LEMMA IdFound ==
  ASSUME TypeOK, UniqueIds, NEW i \in DOMAIN subscribers
  PROVE  get_client_by_id(subscribers[i].id) = {i}
<1>1. \A k \in DOMAIN subscribers : subscribers[k].id = subscribers[i].id => k = i
  BY DEF UniqueIds
<1>2. i \in Nat /\ \A k \in 1 .. i - 1 : k \in DOMAIN subscribers /\ k # i
  BY RecordType, LenProperties DEF TypeOK
<1>3. \A k \in 1 .. i - 1 : subscribers[k].id # subscribers[i].id
  BY <1>1, <1>2
<1>. QED BY <1>1, <1>3 DEF get_client_by_id

(* get_client_by_socket finds one record for the socket of any record. *)
LEMMA SocketFound ==
  ASSUME TypeOK, NEW k \in DOMAIN subscribers
  PROVE  \E f \in DOMAIN subscribers :
           /\ subscribers[f].socket = subscribers[k].socket
           /\ get_client_by_socket(subscribers[k].socket) = {f}
<1>. DEFINE sock == subscribers[k].socket
            P == {i \in DOMAIN subscribers : subscribers[i].socket = sock}
<1>1. P \subseteq Nat /\ P # {}
  BY RecordType
<1>2. PICK f \in P : \A i \in P : f <= i
  <2>. HIDE DEF P
  <2>. QED BY <1>1, FirstExists
<1>3. ASSUME NEW i \in DOMAIN subscribers
      PROVE  i \in Nat /\ \A j \in 1 .. i - 1 : j \in DOMAIN subscribers
  BY RecordType, LenProperties DEF TypeOK
<1>4. \A j \in 1 .. f - 1 : subscribers[j].socket # sock
  <2>. SUFFICES ASSUME NEW j \in 1 .. f - 1, subscribers[j].socket = sock
                PROVE  FALSE
    OBVIOUS
  <2>1. j \in P /\ f \in Nat /\ j \in Nat
    BY <1>3
  <2>2. f <= j
    BY <1>2, <2>1
  <2>. QED BY <2>1, <2>2
<1>5. ASSUME NEW i \in P, \A j \in 1 .. i - 1 : subscribers[j].socket # sock
      PROVE  i = f
  <2>1. i \in Nat /\ f \in Nat /\ f <= i
    BY <1>2, <1>3
  <2>2. f >= 1
    BY RecordType
  <2>3. ~ f \in 1 .. i - 1
    BY <1>5
  <2>. QED BY <2>1, <2>2, <2>3
<1>. QED BY <1>4, <1>5 DEF get_client_by_socket

(* What leaves the table of sockets as it is keeps the invariant. *)
LEMMA SocketsSame ==
  ASSUME SocketInv, TypeOK', UNCHANGED <<subscribers, peer, read_fds, fdmax, prev_fdmax>>,
         \A s \in ClientFds : IsOpen(s)' <=> IsOpen(s)
  PROVE  SocketInv'
  BY DEF SocketInv, UniqueIds, OwnerConnected, ReadSetMatchesOpen, ListenerWatched

LEMMA ReplyKeepsOpen ==
  ASSUME TypeOK, NEW s \in ClientFds, Reply(s)
  PROVE  \A r \in ClientFds : IsOpen(r)' <=> IsOpen(r)
  BY DEF Reply, SendToGone, PeerOpen, IsOpen, TypeOK, FdTypeOK

LEMMA DeliverKeepsOpen ==
  ASSUME TypeOK, NEW t, NEW n, NEW upto, Deliver(t, n, upto)
  PROVE  \A r \in ClientFds : IsOpen(r)' <=> IsOpen(r)
  BY DEF Deliver, PeerOpen, IsOpen, TypeOK, FdTypeOK

LEMMA AcceptNewSockets ==
  ASSUME SocketInv, TypeOK', NEW id \in Ids, NEW s \in ClientFds, NEW alive \in BOOLEAN,
         AcceptNew(id, s, alive)
  PROVE  SocketInv'
<1>. DEFINE n == Len(subscribers)
            new == [id |-> id, socket |-> s, connected |-> TRUE]
<1>1. subscribers \in Seq(Client) /\ new \in Client
  BY DEF SocketInv, TypeOK, Client
<1>2. /\ n \in Nat /\ DOMAIN subscribers = 1 .. n
      /\ DOMAIN subscribers' = 1 .. n + 1
      /\ \A i \in 1 .. n : subscribers'[i] = subscribers[i]
      /\ subscribers'[n + 1] = new
  BY <1>1, AppendProperties, LenProperties DEF AcceptNew, add_new_client, SocketInv, TypeOK
<1>3. \A i \in DOMAIN subscribers : subscribers[i].id # id
  BY IdFound DEF AcceptNew, SocketInv
<1>4. UniqueIds'
  BY <1>2, <1>3 DEF UniqueIds, SocketInv
<1>5. /\ \A r \in ClientFds : IsOpen(r)' <=> IsOpen(r) \/ r = s
      /\ ~ IsOpen(s)
      /\ \A r \in ClientFds : r # s => peer'[r] = peer[r]
      /\ peer'[s] = id
  BY DEF AcceptNew, Established, LowestFree, IsOpen, SocketInv, TypeOK, FdTypeOK
<1>6. OwnerConnected'
  <2>. SUFFICES ASSUME NEW r \in ClientFds, IsOpen(r)'
                PROVE  \E k \in DOMAIN subscribers' :
                         subscribers'[k] = [id |-> peer'[r], socket |-> r, connected |-> TRUE]
    BY DEF OwnerConnected
  <2>1. CASE r = s
    <3>1. n + 1 \in DOMAIN subscribers'
      BY <1>2
    <3>2. subscribers'[n + 1] = [id |-> peer'[r], socket |-> r, connected |-> TRUE]
      BY <1>2, <1>5, <2>1
    <3>. QED BY <3>1, <3>2
  <2>2. CASE r # s
    <3>1. PICK k \in DOMAIN subscribers :
            subscribers[k] = [id |-> peer[r], socket |-> r, connected |-> TRUE]
      BY <1>5, <2>2 DEF OwnerConnected, SocketInv
    <3>2. k \in DOMAIN subscribers' /\ subscribers'[k] = subscribers[k]
      BY <1>2
    <3>3. subscribers'[k] = [id |-> peer'[r], socket |-> r, connected |-> TRUE]
      BY <1>5, <2>2, <3>1, <3>2
    <3>. QED BY <3>2, <3>3
  <2>. QED BY <2>1, <2>2
<1>7. ReadSetMatchesOpen' /\ ListenerWatched'
  BY <1>5, FdAssumption DEF AcceptNew, Watch, MaxOf, ReadSetMatchesOpen, ListenerWatched, SocketInv,
     TypeOK, FdTypeOK, ClientFds
<1>. QED BY <1>4, <1>6, <1>7 DEF SocketInv

LEMMA AcceptDuplicateSockets ==
  ASSUME SocketInv, TypeOK', NEW id \in Ids, NEW s \in ClientFds, NEW alive \in BOOLEAN,
         AcceptDuplicate(id, s, alive)
  PROVE  SocketInv'
<1>1. UNCHANGED <<subscribers, peer, link>>
  BY DEF AcceptDuplicate, SendToGone
<1>2. read_fds' = read_fds
  BY DEF AcceptDuplicate, WatchAndDrop, LowestFree, ReadSetMatchesOpen, SocketInv
<1>3. UniqueIds' /\ OwnerConnected' /\ ReadSetMatchesOpen'
  BY <1>1, <1>2 DEF UniqueIds, OwnerConnected, ReadSetMatchesOpen, IsOpen, SocketInv
<1>4. ListenerWatched'
  BY DEF AcceptDuplicate, WatchAndDrop, ListenerWatched, SocketInv
<1>. QED BY <1>3, <1>4 DEF SocketInv

LEMMA AcceptReturningSockets ==
  ASSUME SocketInv, TypeOK', NEW id \in Ids, NEW s \in ClientFds, NEW alive \in BOOLEAN,
         AcceptReturning(id, s, alive)
  PROVE  SocketInv'
<1>1. PICK i \in get_client_by_id(id) :
        ~ subscribers[i].connected /\ reconnect_old_sub(id, i, s, alive)
  BY DEF AcceptReturning
<1>2. i \in DOMAIN subscribers /\ subscribers[i].id = id
  BY DEF get_client_by_id
<1>3. \A k \in DOMAIN subscribers : subscribers[k] \in Client
  BY RecordType DEF SocketInv
<1>4. /\ DOMAIN subscribers' = DOMAIN subscribers
      /\ subscribers'[i] = [id |-> id, socket |-> s, connected |-> TRUE]
      /\ \A k \in DOMAIN subscribers : k # i => subscribers'[k] = subscribers[k]
  BY <1>1, <1>2, <1>3 DEF reconnect_old_sub, Client
<1>5. UniqueIds'
  BY <1>2, <1>4 DEF UniqueIds, SocketInv
<1>6. /\ \A r \in ClientFds : IsOpen(r)' <=> IsOpen(r) \/ r = s
      /\ ~ IsOpen(s)
      /\ \A r \in ClientFds : r # s => peer'[r] = peer[r]
      /\ peer'[s] = id
  BY DEF AcceptReturning, Established, LowestFree, IsOpen, SocketInv, TypeOK, FdTypeOK
<1>7. OwnerConnected'
  <2>. SUFFICES ASSUME NEW r \in ClientFds, IsOpen(r)'
                PROVE  \E k \in DOMAIN subscribers' :
                         subscribers'[k] = [id |-> peer'[r], socket |-> r, connected |-> TRUE]
    BY DEF OwnerConnected
  <2>1. CASE r = s
    BY <1>2, <1>4, <1>6, <2>1
  <2>2. CASE r # s
    <3>1. PICK k \in DOMAIN subscribers :
            subscribers[k] = [id |-> peer[r], socket |-> r, connected |-> TRUE]
      BY <1>6, <2>2 DEF OwnerConnected, SocketInv
    <3>2. k # i
      BY <1>1, <3>1
    <3>. QED BY <1>4, <1>6, <2>2, <3>1, <3>2
  <2>. QED BY <2>1, <2>2
<1>8. ReadSetMatchesOpen' /\ ListenerWatched'
  BY <1>6, FdAssumption DEF AcceptReturning, Watch, MaxOf, ReadSetMatchesOpen, ListenerWatched,
     SocketInv, TypeOK, FdTypeOK, ClientFds
<1>. QED BY <1>5, <1>7, <1>8 DEF SocketInv

LEMMA EndOfFileSockets ==
  ASSUME SocketInv, TypeOK', NEW s \in ClientFds, EndOfFile(s)
  PROVE  SocketInv'
<1>1. IsOpen(s)
  BY DEF EndOfFile, IsOpen
<1>2. PICK k \in DOMAIN subscribers : subscribers[k].socket = s
  BY <1>1 DEF OwnerConnected, SocketInv
<1>3. PICK f \in DOMAIN subscribers :
        subscribers[f].socket = s /\ get_client_by_socket(s) = {f}
  BY <1>2, SocketFound DEF SocketInv
<1>4. \A i \in DOMAIN subscribers : subscribers[i] \in Client
  BY RecordType DEF SocketInv
<1>5. /\ DOMAIN subscribers' = DOMAIN subscribers
      /\ \A i \in DOMAIN subscribers : subscribers'[i].id = subscribers[i].id
      /\ \A i \in DOMAIN subscribers : i # f => subscribers'[i] = subscribers[i]
  BY <1>3, <1>4 DEF EndOfFile, disconnect_client, Client
<1>6. UniqueIds'
  BY <1>5 DEF UniqueIds, SocketInv
<1>7. \A r \in ClientFds : /\ IsOpen(r)' <=> IsOpen(r) /\ r # s
                           /\ r # s => peer'[r] = peer[r]
  BY <1>3 DEF EndOfFile, disconnect_client, IsOpen, SocketInv, TypeOK, FdTypeOK
<1>8. OwnerConnected'
  <2>. SUFFICES ASSUME NEW r \in ClientFds, IsOpen(r)'
                PROVE  \E i \in DOMAIN subscribers' :
                         subscribers'[i] = [id |-> peer'[r], socket |-> r, connected |-> TRUE]
    BY DEF OwnerConnected
  <2>1. IsOpen(r) /\ r # s /\ peer'[r] = peer[r]
    BY <1>7
  <2>2. PICK i \in DOMAIN subscribers :
          subscribers[i] = [id |-> peer[r], socket |-> r, connected |-> TRUE]
    BY <2>1 DEF OwnerConnected, SocketInv
  <2>3. i # f
    BY <1>3, <2>1, <2>2
  <2>. QED BY <1>5, <2>1, <2>2, <2>3
<1>9. ReadSetMatchesOpen' /\ ListenerWatched'
  BY <1>7 DEF EndOfFile, Unwatch, ReadSetMatchesOpen, ListenerWatched, SocketInv
<1>. QED BY <1>6, <1>8, <1>9 DEF SocketInv

LEMMA SocketStep == SocketInv /\ [Next]_vars => SocketInv'
<1>. SUFFICES ASSUME SocketInv, [Next]_vars PROVE SocketInv'
  OBVIOUS
<1>. TypeOK /\ TypeOK'
  BY TypeStep DEF SocketInv
<1>1. ASSUME NEW s \in ClientFds, ClientCloses(s) PROVE SocketInv'
  <2>1. \A r \in ClientFds : IsOpen(r)' <=> IsOpen(r)
    BY <1>1 DEF ClientCloses, PeerOpen, IsOpen, TypeOK, FdTypeOK
  <2>. QED BY <1>1, <2>1, SocketsSame DEF ClientCloses
<1>2. ASSUME NEW id \in Ids, NEW s \in ClientFds, NEW alive \in BOOLEAN,
             ReplayFails(id, s, alive)
      PROVE  SocketInv'
  BY <1>2, SocketsSame DEF ReplayFails, fdVars, IsOpen
<1>3. ASSUME NEW s \in ClientFds, RecvFails(s) PROVE SocketInv'
  BY <1>3, SocketsSame DEF RecvFails, fdVars, IsOpen
<1>4. ASSUME NEW s \in ClientFds, NEW t \in Topics, NEW sf \in SfInputs,
             Subscribe(s, t, sf)
      PROVE  SocketInv'
  <2>1. Reply(s) \/ UNCHANGED link
    BY <1>4 DEF Subscribe, subscribe_to_topic
  <2>2. \A r \in ClientFds : IsOpen(r)' <=> IsOpen(r)
    BY <2>1, ReplyKeepsOpen DEF IsOpen
  <2>. QED BY <1>4, <2>2, SocketsSame DEF Subscribe
<1>5. ASSUME NEW s \in ClientFds, NEW t \in Topics, Unsubscribe(s, t)
      PROVE  SocketInv'
  <2>1. Reply(s) \/ UNCHANGED link
    BY <1>5 DEF Unsubscribe, unsubscribe_from_topic
  <2>2. \A r \in ClientFds : IsOpen(r)' <=> IsOpen(r)
    BY <2>1, ReplyKeepsOpen DEF IsOpen
  <2>. QED BY <1>5, <2>2, SocketsSame DEF Unsubscribe
<1>6. CASE MalformedDatagram
  BY <1>6, SocketsSame DEF MalformedDatagram, fdVars, IsOpen
<1>7. ASSUME NEW t \in Topics, UdpMessage(t) PROVE SocketInv'
  BY <1>7, DeliverKeepsOpen, SocketsSame DEF UdpMessage
<1>8. ASSUME NEW t \in Topics, UdpMessageFails(t) PROVE SocketInv'
  <2>1. \A r \in ClientFds : IsOpen(r)' <=> IsOpen(r)
    BY <1>8, DeliverKeepsOpen DEF UdpMessageFails
  <2>. QED BY <1>8, <2>1, SocketsSame DEF UdpMessageFails
<1>9. CASE ExitCommand
  BY <1>9, SocketsSame DEF ExitCommand, fdVars, IsOpen
<1>10. CASE UNCHANGED vars
  BY <1>10, SocketsSame DEF vars, fdVars, IsOpen
<1>11. ASSUME NEW t \in Topics, UdpUnheard(t) PROVE SocketInv'
  BY <1>11, SocketsSame DEF UdpUnheard, fdVars, IsOpen
<1>12. CASE CallFails
  BY <1>12, SocketsSame DEF CallFails, fdVars, IsOpen
<1>. QED BY <1>1, <1>2, <1>3, <1>4, <1>5, <1>6, <1>7, <1>8, <1>9, <1>10, <1>11, <1>12,
            AcceptNewSockets, AcceptDuplicateSockets, AcceptReturningSockets,
            EndOfFileSockets
         DEF Next, ClientNext, AcceptNext, CommandNext, DatagramNext

LEMMA SocketInit == Init => SocketInv
<1>. SUFFICES ASSUME Init PROVE SocketInv
  OBVIOUS
<1>1. TypeOK
  BY InitType
<1>2. DOMAIN subscribers = {}
  BY DEF Init
<1>. QED BY <1>1, <1>2, FdAssumption DEF Init, FdInit, SocketInv, UniqueIds,
     OwnerConnected, ReadSetMatchesOpen, ListenerWatched, IsOpen, ClientFds

THEOREM SocketInvariant == Spec => []SocketInv
  BY SocketInit, SocketStep, PTL DEF Spec

(* No two records have the same identifier, ever: however connections,     *)
(* refused duplicates, ends of file and returns follow one another.        *)
THEOREM IdsAreUnique == Spec => []UniqueIds
  BY SocketInvariant, PTL DEF SocketInv

(* Every open socket has its owner's record, connected and on that socket, *)
(* although other records may hold the same socket number.                 *)
THEOREM OwnersAreConnected == Spec => []OwnerConnected
  BY SocketInvariant, PTL DEF SocketInv

(* select() is given the open client sockets and no other.                 *)
THEOREM ReadSetIsOpenSet == Spec => []ReadSetMatchesOpen
  BY SocketInvariant, PTL DEF SocketInv

(* fdmax never falls below the listening socket. *)
THEOREM ListenerIsWatched == Spec => []ListenerWatched
  BY SocketInvariant, PTL DEF SocketInv

(* What the code takes for granted at every command: the lookup by the     *)
(* socket of an open connection finds a record, so unsubscribe_from_topic  *)
(* does not use NULL (utils.c:243-246).                                    *)
THEOREM LookupNeverNull ==
  Spec => [](\A s \in ClientFds : IsOpen(s) => get_client_by_socket(s) # {})
<1>1. SocketInv => \A s \in ClientFds : IsOpen(s) => get_client_by_socket(s) # {}
  <2>. SUFFICES ASSUME SocketInv, NEW s \in ClientFds, IsOpen(s)
                PROVE  get_client_by_socket(s) # {}
    OBVIOUS
  <2>1. PICK k \in DOMAIN subscribers : subscribers[k].socket = s
    BY DEF SocketInv, OwnerConnected
  <2>. QED BY <2>1, SocketFound DEF SocketInv
<1>. QED BY <1>1, SocketInvariant, PTL

-----------------------------------------------------------------------------
(* What each handler does to the list of topics. *)

(* Both ways of handling a datagram are a Deliver to a prefix of the list  *)
(* in which no record's store is unusable.                                 *)
LEMMA DeliverArguments ==
  ASSUME TypeOK, NEW t \in Topics, UdpMessage(t) \/ UdpMessageFails(t)
  PROVE  /\ published + 1 \in Msgs
         /\ \E upto \in Nat :
              /\ upto <= Len(subscribers)
              /\ Deliver(t, published + 1, upto)
              /\ \A i \in 1 .. upto : StoreFaults(i, t) = {}
<1>1. published + 1 \in Msgs
  BY ServerAssumption DEF UdpMessage, UdpMessageFails, TypeOK, Msgs
<1>2. Len(subscribers) \in Nat /\ DOMAIN subscribers = 1 .. Len(subscribers)
  BY LenProperties DEF TypeOK
<1>3. CASE UdpMessage(t)
  BY <1>1, <1>2, <1>3 DEF UdpMessage
<1>4. CASE UdpMessageFails(t)
  <2>1. PICK k \in DOMAIN subscribers :
          /\ \A i \in 1 .. k - 1 : StoreFaults(i, t) = {}
          /\ Deliver(t, published + 1, k - 1)
    BY <1>4 DEF UdpMessageFails
  <2>2. k - 1 \in Nat /\ k - 1 <= Len(subscribers)
    BY <1>2
  <2>. QED BY <1>1, <2>1, <2>2
<1>. QED BY <1>3, <1>4

LEMMA DeliverTopics ==
  ASSUME TypeOK, NEW t \in Topics, NEW n \in Msgs, NEW upto \in Nat,
         Deliver(t, n, upto), NEW id \in Ids
  PROVE  /\ DOMAIN topics'[id] = DOMAIN topics[id]
         /\ \A j \in DOMAIN topics[id] :
              \/ topics'[id][j] = topics[id][j]
              \/ /\ \E i \in 1 .. upto : subscribers[i].id = id /\ j \in StoreSlot(i, t)
                 /\ topics'[id][j] = store_tcp_msg_to_unconn_client(topics[id][j], n)
  BY DEF Deliver

LEMMA DisconnectTopics ==
  ASSUME TypeOK, NEW s, disconnect_client(s), NEW id \in Ids
  PROVE  /\ DOMAIN topics'[id] = DOMAIN topics[id]
         /\ \A j \in DOMAIN topics[id] :
              \/ /\ topics'[id][j] = topics[id][j]
                 /\ topics[id][j].sf # 1 \/
                    \A i \in get_client_by_socket(s) : subscribers[i].id # id
              \/ /\ topics'[id][j] = FreshArray(topics[id][j])
                 /\ topics[id][j].sf = 1
                 /\ \E i \in get_client_by_socket(s) : subscribers[i].id = id
  BY DEF disconnect_client, FreshArray

(* Only the SF of a record that was found changes, so that a full name     *)
(* keeps the one it has.                                                   *)
LEMMA SubscribeTopics ==
  ASSUME TypeOK, NEW s \in ClientFds, NEW t \in Topics, NEW sf \in SfInputs,
         subscribe_to_topic(t, sf, s), NEW id \in Ids
  PROVE  \/ /\ DOMAIN topics'[id] = DOMAIN topics[id]
            /\ \A j \in DOMAIN topics[id] :
                 \/ topics'[id][j] = topics[id][j]
                 \/ /\ topics'[id][j] = [topics[id][j] EXCEPT !.sf = sf]
                    /\ topics[id][j].name \in FullNames => topics[id][j].sf = sf
         \/ /\ topics'[id] = Append(topics[id], NewTopic(t, sf))
            /\ KnownTopic(id, t, sf) = {}
            /\ sf \in {0, 1}
<1>1. PICK i \in get_client_by_socket(s) :
        LET owner == subscribers[i].id IN
        \/ \E j \in KnownTopic(owner, t, sf) : ChangeSf(owner, j, sf)
        \/ /\ KnownTopic(owner, t, sf) = {}
           /\ sf \in {0, 1}
           /\ topics' = [topics EXCEPT ![owner] = Append(@, NewTopic(t, sf))]
        \/ UNCHANGED topics
  BY DEF subscribe_to_topic
<1>. DEFINE owner == subscribers[i].id
<1>2. CASE \E j \in KnownTopic(owner, t, sf) : ChangeSf(owner, j, sf)
  <2>1. PICK j \in KnownTopic(owner, t, sf) : ChangeSf(owner, j, sf)
    BY <1>2
  <2>. topics[owner][j].name \in FullNames => topics[owner][j].sf = sf
    BY <2>1 DEF KnownTopic, Found, TopicOf
  <2>2. \/ UNCHANGED topics
        \/ topics' = [topics EXCEPT ![owner][j].sf = sf]
    BY <2>1 DEF ChangeSf
  <2>3. CASE topics' = [topics EXCEPT ![owner][j].sf = sf]
    <3>1. topics'[id] = IF id = owner
                        THEN [topics[id] EXCEPT ![j] = [topics[id][j] EXCEPT !.sf = sf]]
                        ELSE topics[id]
      BY <2>3 DEF TypeOK
    <3>2. DOMAIN topics'[id] = DOMAIN topics[id]
      BY <3>1
    <3>3. ASSUME NEW k \in DOMAIN topics[id]
          PROVE  \/ topics'[id][k] = topics[id][k]
                 \/ /\ topics'[id][k] = [topics[id][k] EXCEPT !.sf = sf]
                    /\ topics[id][k].name \in FullNames => topics[id][k].sf = sf
      BY <3>1
    <3>. QED BY <3>2, <3>3
  <2>. QED BY <2>2, <2>3
<1>3. CASE /\ KnownTopic(owner, t, sf) = {}
           /\ sf \in {0, 1}
           /\ topics' = [topics EXCEPT ![owner] = Append(@, NewTopic(t, sf))]
  BY <1>3 DEF TypeOK
<1>4. CASE UNCHANGED topics
  BY <1>4
<1>. QED BY <1>1, <1>2, <1>3, <1>4

LEMMA UnsubscribeTopics ==
  ASSUME TypeOK, NEW s \in ClientFds, NEW t \in Topics,
         unsubscribe_from_topic(t, s), NEW id \in Ids
  PROVE  /\ DOMAIN topics'[id] = DOMAIN topics[id]
         /\ \A j \in DOMAIN topics[id] :
              \/ topics'[id][j] = topics[id][j]
              \/ topics'[id][j] = [topics[id][j] EXCEPT !.subscribed = FALSE]
<1>1. PICK i \in get_client_by_socket(s) :
        LET owner == subscribers[i].id IN
        \/ \E j \in SubscribedTopic(owner, t) :
             topics' = [topics EXCEPT ![owner][j].subscribed = FALSE]
        \/ UNCHANGED topics
  BY DEF unsubscribe_from_topic
<1>. DEFINE owner == subscribers[i].id
<1>2. CASE \E j \in SubscribedTopic(owner, t) :
             topics' = [topics EXCEPT ![owner][j].subscribed = FALSE]
  <2>1. PICK j \in SubscribedTopic(owner, t) :
          topics' = [topics EXCEPT ![owner][j].subscribed = FALSE]
    BY <1>2
  <2>2. topics'[id] = IF id = owner
                      THEN [topics[id] EXCEPT ![j] = [topics[id][j] EXCEPT !.subscribed = FALSE]]
                      ELSE topics[id]
    BY <2>1 DEF TypeOK
  <2>3. DOMAIN topics'[id] = DOMAIN topics[id]
    BY <2>2
  <2>4. ASSUME NEW k \in DOMAIN topics[id]
        PROVE  \/ topics'[id][k] = topics[id][k]
               \/ topics'[id][k] = [topics[id][k] EXCEPT !.subscribed = FALSE]
    BY <2>2
  <2>. QED BY <2>3, <2>4
<1>. QED BY <1>1, <1>2

(* The handlers that keep a Topic record keep its name, and all but the    *)
(* change of SF keep its SF.                                               *)
LEMMA NamesKept ==
  ASSUME NEW tp \in Topic, NEW n, NEW sf
  PROVE  /\ Emptied(tp).name = tp.name /\ Emptied(tp).sf = tp.sf
         /\ FreshArray(tp).name = tp.name /\ FreshArray(tp).sf = tp.sf
         /\ store_tcp_msg_to_unconn_client(tp, n).name = tp.name
         /\ store_tcp_msg_to_unconn_client(tp, n).sf = tp.sf
         /\ [tp EXCEPT !.sf = sf].name = tp.name
         /\ [tp EXCEPT !.sf = sf].sf = sf
         /\ [tp EXCEPT !.subscribed = FALSE].name = tp.name
         /\ [tp EXCEPT !.subscribed = FALSE].sf = tp.sf
  BY DEF Topic, Emptied, FreshArray, store_tcp_msg_to_unconn_client

-----------------------------------------------------------------------------
(* No client has two records of one topic that strcmp() could find.        *)

TopicInv == SocketInv /\ NoDuplicateTopic

(* Two records a client may have at once. *)
MayCoexist(a, b) ==
  a.name = b.name => a.name \in FullNames /\ (a.sf = 1 \/ b.sf = 1)

LEMMA Coexisting ==
  NoDuplicateTopic <=>
    \A id \in Ids : \A j, k \in DOMAIN topics[id] :
      j = k \/ MayCoexist(topics[id][j], topics[id][k])
  BY DEF NoDuplicateTopic, MayCoexist

(* The first of several positions is found. *)
LEMMA FirstIsKnown ==
  ASSUME TypeOK, NEW id \in Ids, NEW t, NEW sf, KnownTopic(id, t, sf) = {}
  PROVE  Found(id, t, sf) = {}
<1>. SUFFICES ASSUME Found(id, t, sf) # {} PROVE FALSE
  OBVIOUS
<1>1. Found(id, t, sf) \subseteq Nat
  BY TopicType DEF Found, TopicOf
<1>2. PICK j \in Found(id, t, sf) : \A k \in Found(id, t, sf) : j <= k
  BY <1>1, FirstExists
<1>3. \A k \in Found(id, t, sf) : k >= j
  BY <1>1, <1>2
<1>. QED BY <1>3 DEF KnownTopic

(* A record that is not found may stand beside the one that is inserted.   *)
LEMMA KnownTopicIsAny ==
  ASSUME TypeOK, NEW id \in Ids, NEW t \in Topics, NEW sf \in {0, 1},
         KnownTopic(id, t, sf) = {}, NEW j \in DOMAIN topics[id]
  PROVE  /\ MayCoexist(topics[id][j], NewTopic(t, sf))
         /\ MayCoexist(NewTopic(t, sf), topics[id][j])
<1>1. Found(id, t, sf) = {}
  BY FirstIsKnown
<1>2. topics[id][j].sf \in {0, 1}
  BY TopicType, TopicFields
<1>3. ASSUME topics[id][j].name = t
      PROVE  t \in FullNames /\ (topics[id][j].sf = 1 \/ sf = 1)
  <2>1. j \in TopicOf(id, t) /\ j \notin Found(id, t, sf)
    BY <1>1, <1>3 DEF TopicOf
  <2>2. t \in FullNames
    BY <2>1 DEF Found
  <2>3. ~ (topics[id][j].sf = sf /\ sf = 0)
    BY <2>1 DEF Found
  <2>. QED BY <1>2, <2>2, <2>3
<1>4. NewTopic(t, sf).name = t /\ NewTopic(t, sf).sf = sf
  BY DEF NewTopic
<1>. QED BY <1>3, <1>4 DEF MayCoexist

LEMMA SameNames ==
  ASSUME NoDuplicateTopic,
         \A id \in Ids : /\ DOMAIN topics'[id] = DOMAIN topics[id]
                         /\ \A j \in DOMAIN topics[id] :
                              /\ topics'[id][j].name = topics[id][j].name
                              /\ \/ topics'[id][j].sf = topics[id][j].sf
                                 \/ topics[id][j].name \notin FullNames
  PROVE  NoDuplicateTopic'
  BY DEF NoDuplicateTopic

LEMMA SubscribeNames ==
  ASSUME TypeOK, NoDuplicateTopic, NEW s \in ClientFds, NEW t \in Topics,
         NEW sf \in SfInputs, subscribe_to_topic(t, sf, s), NEW id \in Ids,
         NEW j \in DOMAIN topics'[id], NEW k \in DOMAIN topics'[id], j # k
  PROVE  MayCoexist(topics'[id][j], topics'[id][k])
<1>1. CASE /\ DOMAIN topics'[id] = DOMAIN topics[id]
           /\ \A i \in DOMAIN topics[id] :
                \/ topics'[id][i] = topics[id][i]
                \/ /\ topics'[id][i] = [topics[id][i] EXCEPT !.sf = sf]
                   /\ topics[id][i].name \in FullNames => topics[id][i].sf = sf
  <2>1. ASSUME NEW i \in DOMAIN topics[id]
        PROVE  /\ topics'[id][i].name = topics[id][i].name
               /\ \/ topics'[id][i].sf = topics[id][i].sf
                  \/ topics[id][i].name \notin FullNames
    <3>1. topics[id][i] \in Topic
      BY TopicType
    <3>2. CASE topics'[id][i] = topics[id][i]
      BY <3>2
    <3>3. CASE /\ topics'[id][i] = [topics[id][i] EXCEPT !.sf = sf]
               /\ topics[id][i].name \in FullNames => topics[id][i].sf = sf
      <4>1. topics'[id][i].name = topics[id][i].name /\ topics'[id][i].sf = sf
        BY <3>1, <3>3 DEF Topic
      <4>. QED BY <3>3, <4>1
    <3>. QED BY <1>1, <3>2, <3>3
  <2>2. MayCoexist(topics[id][j], topics[id][k])
    BY <1>1, Coexisting
  <2>3. j \in DOMAIN topics[id] /\ k \in DOMAIN topics[id]
    BY <1>1
  <2>. QED BY <2>1, <2>2, <2>3 DEF MayCoexist
<1>2. CASE /\ topics'[id] = Append(topics[id], NewTopic(t, sf))
           /\ KnownTopic(id, t, sf) = {}
           /\ sf \in {0, 1}
  <2>. DEFINE n == Len(topics[id])
  <2>1. topics[id] \in Seq(Topic) /\ NewTopic(t, sf) \in Topic
    BY <1>2, TopicType, NewTopicType
  <2>2. /\ DOMAIN topics[id] = 1 .. n /\ n \in Nat
        /\ DOMAIN topics'[id] = 1 .. n + 1
        /\ \A i \in 1 .. n : topics'[id][i] = topics[id][i]
        /\ topics'[id][n + 1] = NewTopic(t, sf)
    BY <1>2, <2>1, AppendProperties, LenProperties
  <2>3. CASE j \in 1 .. n /\ k \in 1 .. n
    BY <2>2, <2>3, Coexisting
  <2>4. CASE j = n + 1
    <3>1. k \in 1 .. n
      BY <2>2, <2>4
    <3>. QED BY <1>2, <2>2, <2>4, <3>1, KnownTopicIsAny
  <2>5. CASE k = n + 1
    <3>1. j \in 1 .. n
      BY <2>2, <2>5
    <3>. QED BY <1>2, <2>2, <2>5, <3>1, KnownTopicIsAny
  <2>. QED BY <2>2, <2>3, <2>4, <2>5
<1>. QED BY <1>1, <1>2, SubscribeTopics

LEMMA TopicStep == TopicInv /\ [Next]_vars => TopicInv'
<1>. SUFFICES ASSUME TopicInv, [Next]_vars PROVE NoDuplicateTopic'
  BY SocketStep DEF TopicInv
<1>. TypeOK /\ TypeOK' /\ NoDuplicateTopic
  BY TypeStep DEF TopicInv, SocketInv
<1>0. CASE UNCHANGED topics
  BY <1>0 DEF NoDuplicateTopic
<1>1. ASSUME NEW id \in Ids, NEW s \in ClientFds, NEW alive \in BOOLEAN,
             AcceptNew(id, s, alive)
      PROVE  NoDuplicateTopic'
  <2>1. topics' = [topics EXCEPT ![id] = <<>>]
    BY <1>1 DEF AcceptNew, add_new_client
  <2>2. ASSUME NEW k \in Ids
        PROVE  topics'[k] = topics[k] \/ DOMAIN topics'[k] = {}
    BY <2>1 DEF TypeOK
  <2>. QED BY <2>2 DEF NoDuplicateTopic
<1>2. ASSUME NEW id \in Ids, NEW s \in ClientFds, NEW alive \in BOOLEAN,
             AcceptReturning(id, s, alive)
      PROVE  NoDuplicateTopic'
  <2>1. topics' = [topics EXCEPT ![id] = [j \in DOMAIN @ |-> Emptied(@[j])]]
    BY <1>2 DEF AcceptReturning, reconnect_old_sub
  <2>. QED BY <2>1, TopicType, NamesKept, SameNames DEF TypeOK
<1>3. ASSUME NEW s \in ClientFds, EndOfFile(s) PROVE NoDuplicateTopic'
  <2>1. disconnect_client(s)
    BY <1>3 DEF EndOfFile
  <2>2. ASSUME NEW id \in Ids
        PROVE  /\ DOMAIN topics'[id] = DOMAIN topics[id]
               /\ \A j \in DOMAIN topics[id] :
                    /\ topics'[id][j].name = topics[id][j].name
                    /\ \/ topics'[id][j].sf = topics[id][j].sf
                       \/ topics[id][j].name \notin FullNames
    <3>1. \A j \in DOMAIN topics[id] :
            topics'[id][j] = topics[id][j] \/ topics'[id][j] = FreshArray(topics[id][j])
      BY <2>1, DisconnectTopics
    <3>2. \A j \in DOMAIN topics[id] : topics[id][j] \in Topic
      BY TopicType
    <3>3. DOMAIN topics'[id] = DOMAIN topics[id]
      BY <2>1, DisconnectTopics
    <3>. QED BY <3>1, <3>2, <3>3, NamesKept
  <2>. QED BY ONLY <2>2, NoDuplicateTopic, SameNames
<1>4. ASSUME NEW s \in ClientFds, NEW t \in Topics, NEW sf \in SfInputs,
             Subscribe(s, t, sf)
      PROVE  NoDuplicateTopic'
  <2>1. subscribe_to_topic(t, sf, s)
    BY <1>4 DEF Subscribe
  <2>2. \A id \in Ids : \A j, k \in DOMAIN topics'[id] :
          j = k \/ MayCoexist(topics'[id][j], topics'[id][k])
    BY <2>1, SubscribeNames
  <2>. QED BY <2>2 DEF NoDuplicateTopic, MayCoexist
<1>5. ASSUME NEW s \in ClientFds, NEW t \in Topics, Unsubscribe(s, t)
      PROVE  NoDuplicateTopic'
  <2>1. unsubscribe_from_topic(t, s)
    BY <1>5 DEF Unsubscribe
  <2>. QED BY <2>1, UnsubscribeTopics, TopicType, NamesKept, SameNames
<1>6. ASSUME NEW t \in Topics, UdpMessage(t) \/ UdpMessageFails(t)
      PROVE  NoDuplicateTopic'
  <2>1. PICK upto \in Nat : Deliver(t, published + 1, upto) /\ published + 1 \in Msgs
    BY <1>6, DeliverArguments
  <2>2. ASSUME NEW id \in Ids
        PROVE  /\ DOMAIN topics'[id] = DOMAIN topics[id]
               /\ \A j \in DOMAIN topics[id] :
                    /\ topics'[id][j].name = topics[id][j].name
                    /\ topics'[id][j].sf = topics[id][j].sf
    <3>1. \A j \in DOMAIN topics[id] : topics[id][j] \in Topic
      BY TopicType
    <3>. QED BY <2>1, <3>1, DeliverTopics, NamesKept
  <2>3. \A id \in Ids : /\ DOMAIN topics'[id] = DOMAIN topics[id]
                         /\ \A j \in DOMAIN topics[id] :
                              /\ topics'[id][j].name = topics[id][j].name
                              /\ \/ topics'[id][j].sf = topics[id][j].sf
                                 \/ topics[id][j].name \notin FullNames
    BY <2>2
  <2>. QED BY ONLY <2>3, NoDuplicateTopic, SameNames
<1>. QED BY <1>0, <1>1, <1>2, <1>3, <1>4, <1>5, <1>6
         DEF Next, ClientNext, AcceptNext, CommandNext, DatagramNext, vars, ClientCloses,
             AcceptDuplicate, ReplayFails, RecvFails, MalformedDatagram, UdpUnheard, CallFails,
             ExitCommand

(* The search in check_already_sub_topic and the insertion that follows it *)
(* act on the same list, so that no client ever has a topic twice whose    *)
(* name leaves room for its terminator, nor a full name twice with SF 0.   *)
THEOREM TopicsAreUnique == Spec => []NoDuplicateTopic
<1>1. Init => TopicInv
  BY SocketInit DEF Init, TopicInv, NoDuplicateTopic
<1>. QED BY <1>1, TopicStep, PTL DEF Spec, TopicInv

-----------------------------------------------------------------------------
(* The store of every topic stays within its array. *)

StoreInv == SocketInv /\ StoreBounds

LEMMA NewTopicFits ==
  ASSUME NEW t, NEW sf, NEW connected \in BOOLEAN
  PROVE  StoreFits(NewTopic(t, sf), connected)
  BY DEF NewTopic, StoreFits

LEMMA EmptiedFits ==
  ASSUME NEW tp \in Topic, NEW connected \in BOOLEAN
  PROVE  StoreFits(Emptied(tp), connected)
  BY DEF Topic, Emptied, StoreFits

LEMMA FreshArrayFits ==
  ASSUME NEW tp \in Topic, tp.sf = 1
  PROVE  StoreFits(FreshArray(tp), FALSE)
<1>1. <<>> \in Seq(Msgs) /\ Len(<<>>) = 0
  BY EmptySeq
<1>. QED BY <1>1, ServerAssumption DEF Topic, FreshArray, StoreFits

LEMMA DisconnectedFits ==
  ASSUME NEW tp, NEW connected \in BOOLEAN, StoreFits(tp, connected)
  PROVE  StoreFits(tp, FALSE)
  BY DEF StoreFits

LEMMA FlagsFit ==
  ASSUME NEW tp \in Topic, NEW connected, NEW sf, StoreFits(tp, connected)
  PROVE  /\ StoreFits([tp EXCEPT !.sf = sf], connected)
         /\ StoreFits([tp EXCEPT !.subscribed = FALSE], connected)
  BY DEF Topic, StoreFits

(* A message stored where it can be stored at all fits. *)
LEMMA StoredFits ==
  ASSUME NEW tp \in Topic, NEW n \in Msgs, StoreFits(tp, FALSE),
         tp.block # "freed", tp.block = "null" => Full(tp)
  PROVE  StoreFits(store_tcp_msg_to_unconn_client(tp, n), FALSE)
<1>1. /\ tp.tcps \in Seq(Msgs) /\ Len(tp.tcps) \in Nat
      /\ tp.max_tcps \in Nat \ {0} /\ tp.cap \in Nat
      /\ tp.block \in {"null", "live", "freed"}
  BY TopicFields
<1>2. Len(Append(tp.tcps, n)) = Len(tp.tcps) + 1
  BY <1>1, AppendProperties
<1>3. CASE Full(tp)
  <2>. DEFINE new == store_tcp_msg_to_unconn_client(tp, n)
  <2>1. /\ new.tcps = Append(tp.tcps, n) /\ new.block = "live"
        /\ new.max_tcps = 2 * tp.max_tcps /\ new.cap = 2 * tp.max_tcps
    BY <1>3 DEF store_tcp_msg_to_unconn_client, Topic
  <2>2. Len(tp.tcps) + 1 <= 2 * tp.max_tcps
    BY <1>1, <1>3 DEF Full
  <2>. QED BY <1>2, <2>1, <2>2 DEF StoreFits
<1>4. CASE ~ Full(tp)
  <2>. DEFINE new == store_tcp_msg_to_unconn_client(tp, n)
  <2>1. tp.block = "live"
    BY <1>1, <1>4
  <2>2. /\ new.tcps = Append(tp.tcps, n) /\ new.block = "live"
        /\ new.max_tcps = tp.max_tcps /\ new.cap = tp.cap
    BY <1>4, <2>1 DEF store_tcp_msg_to_unconn_client, Topic
  <2>3. Len(tp.tcps) <= tp.cap /\ tp.cap = tp.max_tcps /\ Len(tp.tcps) # tp.max_tcps
    BY <1>4, <2>1 DEF StoreFits, Full
  <2>. QED BY <1>1, <1>2, <2>2, <2>3 DEF StoreFits
<1>. QED BY <1>3, <1>4

(* Records unchanged, and every topic as it was or still fitting. *)
LEMMA FitsSame ==
  ASSUME StoreBounds, TypeOK, UNCHANGED subscribers,
         \A i \in DOMAIN subscribers :
           /\ DOMAIN topics'[subscribers[i].id] = DOMAIN topics[subscribers[i].id]
           /\ \A j \in DOMAIN topics[subscribers[i].id] :
                StoreFits(topics'[subscribers[i].id][j], subscribers[i].connected)
  PROVE  StoreBounds'
  BY DEF StoreBounds, TopicsOfRecord

LEMMA DeliverFits ==
  ASSUME TypeOK, UniqueIds, StoreBounds, NEW t \in Topics, NEW n \in Msgs,
         NEW upto \in Nat, upto <= Len(subscribers), Deliver(t, n, upto),
         \A i \in 1 .. upto : StoreFaults(i, t) = {},
         UNCHANGED subscribers
  PROVE  StoreBounds'
<1>1. ASSUME NEW k \in DOMAIN subscribers, NEW j \in DOMAIN topics[subscribers[k].id]
      PROVE  StoreFits(topics'[subscribers[k].id][j], subscribers[k].connected)
  <2>. DEFINE id == subscribers[k].id
              tp == topics[id][j]
  <2>1. id \in Ids /\ subscribers[k].connected \in BOOLEAN
    BY RecordType
  <2>2. tp \in Topic
    BY <2>1, TopicType
  <2>3. StoreFits(tp, subscribers[k].connected)
    BY DEF StoreBounds, TopicsOfRecord
  <2>4. CASE topics'[id][j] = tp
    BY <2>3, <2>4
  <2>5. CASE /\ \E i \in 1 .. upto : subscribers[i].id = id /\ j \in StoreSlot(i, t)
             /\ topics'[id][j] = store_tcp_msg_to_unconn_client(tp, n)
    <3>1. PICK i \in 1 .. upto : subscribers[i].id = id /\ j \in StoreSlot(i, t)
      BY <2>5
    <3>2. i \in DOMAIN subscribers
      BY LenProperties DEF TypeOK
    <3>3. i = k
      BY <3>1, <3>2 DEF UniqueIds
    <3>4. ~ subscribers[k].connected
      BY <3>1, <3>3 DEF StoreSlot
    <3>5. tp.block # "freed" /\ (tp.block = "null" => Full(tp))
      <4>1. StoreFaults(k, t) = {} /\ j \in StoreSlot(k, t)
        BY <3>1, <3>3
      <4>2. ~ (\/ tp.block = "freed"
               \/ tp.block = "null" /\ ~ Full(tp))
        BY <4>1 DEF StoreFaults, TopicsOfRecord
      <4>. QED BY <4>2
    <3>6. subscribers[k].connected = FALSE
      BY <2>1, <3>4
    <3>. QED BY <2>2, <2>3, <2>5, <3>5, <3>6, StoredFits
  <2>. QED BY <2>1, <2>4, <2>5, DeliverTopics
<1>2. \A k \in DOMAIN subscribers :
        DOMAIN topics'[subscribers[k].id] = DOMAIN topics[subscribers[k].id]
  BY RecordType, DeliverTopics
<1>. QED BY <1>1, <1>2, FitsSame

LEMMA ReturningFits ==
  ASSUME SocketInv, StoreBounds, NEW id \in Ids, NEW s \in ClientFds,
         NEW alive \in BOOLEAN, AcceptReturning(id, s, alive)
  PROVE  StoreBounds'
<1>. TypeOK
  BY DEF SocketInv
<1>1. PICK i \in get_client_by_id(id) : reconnect_old_sub(id, i, s, alive)
  BY DEF AcceptReturning
<1>2. i \in DOMAIN subscribers /\ subscribers[i].id = id
  BY DEF get_client_by_id
<1>3. /\ DOMAIN subscribers' = DOMAIN subscribers
      /\ subscribers'[i].id = id
      /\ subscribers'[i].connected \in BOOLEAN
      /\ \A k \in DOMAIN subscribers : k # i => subscribers'[k] = subscribers[k]
  BY <1>1, <1>2, RecordType DEF reconnect_old_sub, Client
<1>4. /\ topics'[id] = [j \in DOMAIN topics[id] |-> Emptied(topics[id][j])]
      /\ \A c \in Ids : c # id => topics'[c] = topics[c]
  BY <1>1 DEF reconnect_old_sub, TypeOK
<1>5. ASSUME NEW k \in DOMAIN subscribers', NEW j \in DOMAIN topics'[subscribers'[k].id]
      PROVE  StoreFits(topics'[subscribers'[k].id][j], subscribers'[k].connected)
  <2>1. CASE k = i
    <3>1. j \in DOMAIN topics[id] /\ topics'[id][j] = Emptied(topics[id][j])
      BY <1>3, <1>4, <1>5, <2>1
    <3>. QED BY <1>3, <2>1, <3>1, TopicType, EmptiedFits
  <2>2. CASE k # i
    <3>1. /\ subscribers'[k] = subscribers[k] /\ k \in DOMAIN subscribers
          /\ subscribers[k].id # id /\ subscribers[k].id \in Ids
      BY <1>2, <1>3, <2>2, RecordType DEF UniqueIds, SocketInv
    <3>2. topics'[subscribers[k].id] = topics[subscribers[k].id]
      BY <1>4, <3>1
    <3>. QED BY <1>5, <3>1, <3>2 DEF StoreBounds, TopicsOfRecord
  <2>. QED BY <2>1, <2>2
<1>. QED BY <1>5 DEF StoreBounds, TopicsOfRecord

LEMMA EndOfFileFits ==
  ASSUME SocketInv, StoreBounds, NEW s \in ClientFds, EndOfFile(s)
  PROVE  StoreBounds'
<1>. TypeOK
  BY DEF SocketInv
<1>1. disconnect_client(s)
  BY DEF EndOfFile
<1>. DEFINE found == get_client_by_socket(s)
<1>2. /\ DOMAIN subscribers' = DOMAIN subscribers
      /\ \A k \in DOMAIN subscribers :
           /\ subscribers'[k].id = subscribers[k].id
           /\ subscribers'[k].connected = IF k \in found THEN FALSE ELSE subscribers[k].connected
  BY <1>1, RecordType DEF disconnect_client, Client
<1>3. ASSUME NEW k \in DOMAIN subscribers, NEW j \in DOMAIN topics[subscribers[k].id]
      PROVE  StoreFits(topics'[subscribers[k].id][j], subscribers'[k].connected)
  <2>. DEFINE id == subscribers[k].id
              tp == topics[id][j]
  <2>1. id \in Ids /\ subscribers[k].connected \in BOOLEAN
    BY RecordType
  <2>2. tp \in Topic
    BY <2>1, TopicType
  <2>3. StoreFits(tp, subscribers[k].connected) /\ StoreFits(tp, FALSE)
    BY <2>1, DisconnectedFits DEF StoreBounds, TopicsOfRecord
  <2>4. CASE topics'[id][j] = tp
    BY <1>2, <2>3, <2>4
  <2>5. CASE /\ topics'[id][j] = FreshArray(tp)
             /\ tp.sf = 1
             /\ \E i \in found : subscribers[i].id = id
    <3>1. k \in found
      BY <2>5 DEF UniqueIds, SocketInv, get_client_by_socket
    <3>. QED BY <1>2, <2>2, <2>5, <3>1, FreshArrayFits
  <2>. QED BY <1>1, <2>1, <2>4, <2>5, DisconnectTopics
<1>4. \A k \in DOMAIN subscribers :
        DOMAIN topics'[subscribers[k].id] = DOMAIN topics[subscribers[k].id]
  BY <1>1, RecordType, DisconnectTopics
<1>. QED BY <1>2, <1>3, <1>4 DEF StoreBounds, TopicsOfRecord

LEMMA SubscribeFits ==
  ASSUME SocketInv, StoreBounds, NEW s \in ClientFds, NEW t \in Topics,
         NEW sf \in SfInputs, Subscribe(s, t, sf)
  PROVE  StoreBounds'
<1>. TypeOK
  BY DEF SocketInv
<1>1. subscribe_to_topic(t, sf, s) /\ UNCHANGED subscribers
  BY DEF Subscribe
<1>2. ASSUME NEW k \in DOMAIN subscribers, NEW j \in DOMAIN topics'[subscribers[k].id]
      PROVE  StoreFits(topics'[subscribers[k].id][j], subscribers[k].connected)
  <2>. DEFINE id == subscribers[k].id
  <2>1. id \in Ids /\ subscribers[k].connected \in BOOLEAN
    BY RecordType
  <2>2. \A i \in DOMAIN topics[id] : StoreFits(topics[id][i], subscribers[k].connected)
    BY DEF StoreBounds, TopicsOfRecord
  <2>3. CASE /\ DOMAIN topics'[id] = DOMAIN topics[id]
             /\ \A i \in DOMAIN topics[id] :
                  \/ topics'[id][i] = topics[id][i]
                  \/ topics'[id][i] = [topics[id][i] EXCEPT !.sf = sf]
    <3>1. j \in DOMAIN topics[id] /\ topics[id][j] \in Topic
      BY <1>2, <2>1, <2>3, TopicType
    <3>2. StoreFits(topics[id][j], subscribers[k].connected)
      BY <2>2, <3>1
    <3>3. StoreFits([topics[id][j] EXCEPT !.sf = sf], subscribers[k].connected)
      BY <3>1, <3>2, FlagsFit
    <3>. QED BY <2>3, <3>1, <3>2, <3>3
  <2>4. CASE topics'[id] = Append(topics[id], NewTopic(t, sf)) /\ sf \in {0, 1}
    <3>1. /\ DOMAIN topics[id] = 1 .. Len(topics[id]) /\ Len(topics[id]) \in Nat
          /\ DOMAIN topics'[id] = 1 .. Len(topics[id]) + 1
          /\ \A i \in 1 .. Len(topics[id]) : topics'[id][i] = topics[id][i]
          /\ topics'[id][Len(topics[id]) + 1] = NewTopic(t, sf)
      BY <2>1, <2>4, TopicType, NewTopicType, AppendProperties, LenProperties
    <3>2. j \in DOMAIN topics[id] \/ j = Len(topics[id]) + 1
      BY <1>2, <3>1
    <3>3. CASE j \in DOMAIN topics[id]
      BY <2>2, <3>1, <3>3
    <3>4. CASE j = Len(topics[id]) + 1
      <4>1. topics'[id][j] = NewTopic(t, sf)
        BY <3>1, <3>4
      <4>2. StoreFits(NewTopic(t, sf), subscribers[k].connected)
        BY <2>1, NewTopicFits
      <4>. QED BY <4>1, <4>2
    <3>. QED BY <3>2, <3>3, <3>4
  <2>5. \/ /\ DOMAIN topics'[id] = DOMAIN topics[id]
           /\ \A i \in DOMAIN topics[id] :
                \/ topics'[id][i] = topics[id][i]
                \/ topics'[id][i] = [topics[id][i] EXCEPT !.sf = sf]
        \/ topics'[id] = Append(topics[id], NewTopic(t, sf)) /\ sf \in {0, 1}
    <3>. HIDE DEF id
    <3>. QED BY <1>1, <2>1, SubscribeTopics
  <2>. QED BY <2>3, <2>4, <2>5
<1>. QED BY <1>1, <1>2 DEF StoreBounds, TopicsOfRecord

LEMMA UnsubscribeFits ==
  ASSUME SocketInv, StoreBounds, NEW s \in ClientFds, NEW t \in Topics, Unsubscribe(s, t)
  PROVE  StoreBounds'
<1>. TypeOK
  BY DEF SocketInv
<1>1. unsubscribe_from_topic(t, s) /\ UNCHANGED subscribers
  BY DEF Unsubscribe
<1>2. ASSUME NEW k \in DOMAIN subscribers
      PROVE  /\ DOMAIN topics'[subscribers[k].id] = DOMAIN topics[subscribers[k].id]
             /\ \A j \in DOMAIN topics[subscribers[k].id] :
                  StoreFits(topics'[subscribers[k].id][j], subscribers[k].connected)
  <2>. DEFINE id == subscribers[k].id
  <2>1. id \in Ids
    BY RecordType
  <2>2. \A j \in DOMAIN topics[id] : topics[id][j] \in Topic
    BY <2>1, TopicType
  <2>3. \A j \in DOMAIN topics[id] : StoreFits(topics[id][j], subscribers[k].connected)
    BY DEF StoreBounds, TopicsOfRecord
  <2>4. \A j \in DOMAIN topics[id] :
          StoreFits([topics[id][j] EXCEPT !.subscribed = FALSE], subscribers[k].connected)
    BY <2>2, <2>3, FlagsFit
  <2>5. /\ DOMAIN topics'[id] = DOMAIN topics[id]
        /\ \A j \in DOMAIN topics[id] :
             \/ topics'[id][j] = topics[id][j]
             \/ topics'[id][j] = [topics[id][j] EXCEPT !.subscribed = FALSE]
    BY <1>1, <2>1, UnsubscribeTopics
  <2>. QED BY <2>3, <2>4, <2>5
<1>. QED BY <1>1, <1>2, FitsSame

LEMMA StoreStep == StoreInv /\ [Next]_vars => StoreInv'
<1>. SUFFICES ASSUME StoreInv, [Next]_vars PROVE StoreBounds'
  BY SocketStep DEF StoreInv
<1>. SocketInv /\ StoreBounds /\ TypeOK /\ UniqueIds
  BY DEF StoreInv, SocketInv
<1>0. CASE UNCHANGED <<topics, subscribers>>
  BY <1>0 DEF StoreBounds, TopicsOfRecord
<1>1. ASSUME NEW id \in Ids, NEW s \in ClientFds, NEW alive \in BOOLEAN,
             AcceptNew(id, s, alive)
      PROVE  StoreBounds'
  <2>. DEFINE new == [id |-> id, socket |-> s, connected |-> TRUE]
  <2>1. subscribers \in Seq(Client) /\ new \in Client
    BY DEF TypeOK, Client
  <2>2. /\ DOMAIN subscribers = 1 .. Len(subscribers) /\ Len(subscribers) \in Nat
        /\ DOMAIN subscribers' = 1 .. Len(subscribers) + 1
        /\ \A i \in 1 .. Len(subscribers) : subscribers'[i] = subscribers[i]
        /\ subscribers'[Len(subscribers) + 1].id = id
    BY <1>1, <2>1, AppendProperties, LenProperties DEF AcceptNew, add_new_client
  <2>3. DOMAIN topics'[id] = {} /\ \A c \in Ids : c # id => topics'[c] = topics[c]
    BY <1>1 DEF AcceptNew, add_new_client, TypeOK
  <2>4. ASSUME NEW k \in DOMAIN subscribers', NEW j \in DOMAIN topics'[subscribers'[k].id]
        PROVE  StoreFits(topics'[subscribers'[k].id][j], subscribers'[k].connected)
    <3>1. k # Len(subscribers) + 1
      BY <2>2, <2>3, <2>4
    <3>2. /\ k \in DOMAIN subscribers /\ subscribers'[k] = subscribers[k]
          /\ subscribers[k].id \in Ids
      BY <2>2, <3>1, RecordType
    <3>3. subscribers[k].id # id
      BY <2>3, <2>4, <3>2
    <3>. QED BY <2>3, <2>4, <3>2, <3>3 DEF StoreBounds, TopicsOfRecord
  <2>. QED BY <2>4 DEF StoreBounds, TopicsOfRecord
<1>2. ASSUME NEW t \in Topics, UdpMessage(t) \/ UdpMessageFails(t)
      PROVE  StoreBounds'
  <2>1. PICK upto \in Nat : /\ upto <= Len(subscribers)
                            /\ published + 1 \in Msgs
                            /\ Deliver(t, published + 1, upto)
                            /\ \A i \in 1 .. upto : StoreFaults(i, t) = {}
    BY <1>2, DeliverArguments
  <2>2. UNCHANGED subscribers
    BY <1>2 DEF UdpMessage, UdpMessageFails
  <2>. QED BY <2>1, <2>2, DeliverFits
<1>. QED BY <1>0, <1>1, <1>2, ReturningFits, EndOfFileFits, SubscribeFits, UnsubscribeFits
         DEF Next, ClientNext, AcceptNext, CommandNext, DatagramNext, vars, ClientCloses,
             AcceptDuplicate, ReplayFails, RecvFails, MalformedDatagram, UdpUnheard, CallFails,
             ExitCommand

(* Messages are kept only for disconnected clients, in an array that is    *)
(* allocated and large enough: the doubling in                             *)
(* store_tcp_msg_to_unconn_client comes in time, for every initial         *)
(* capacity.                                                               *)
THEOREM StoresFit == Spec => []StoreBounds
<1>1. Init => StoreInv
  BY SocketInit DEF Init, StoreInv, StoreBounds
<1>. QED BY <1>1, StoreStep, PTL DEF Spec, StoreInv

-----------------------------------------------------------------------------
(* The order in which messages reach a client.  StoredAreNewer and         *)
(* PerTopicOrder lean on each other: a replay keeps the order because what *)
(* is stored is newer, and what is stored is newer because nothing reaches *)
(* a client while messages are stored for it (OwnerConnected and           *)
(* StoreBounds).                                                           *)

(* Messages are stored in order, and none is newer than the last datagram. *)
InOrder(q, top) ==
  \A k, l \in DOMAIN q : q[k] <= top /\ (k <= l => q[k] <= q[l])

NewerThanReceived(id, m) ==
  \A t \in Topics : \A l \in DOMAIN received[id][t] : received[id][t][l] < m

OrderInv ==
  /\ \A id \in Ids, t \in Topics : InOrder(received[id][t], published)
  /\ \A id \in Ids : \A j \in DOMAIN topics[id] :
       /\ InOrder(topics[id][j].tcps, published)
       /\ \A k \in DOMAIN topics[id][j].tcps :
            NewerThanReceived(id, topics[id][j].tcps[k])

LEMMA OrderInvGivesOrder ==
  ASSUME OrderInv
  PROVE  StoredAreNewer /\ PerTopicOrder
<1>1. PerTopicOrder
  BY DEF OrderInv, InOrder, PerTopicOrder
<1>2. StoredAreNewer
  <2>. SUFFICES ASSUME NEW id \in Ids, NEW m \in StoredFor(id), NEW t \in Topics,
                       NEW k \in DOMAIN received[id][t]
                PROVE  received[id][t][k] < m
    BY DEF StoredAreNewer
  <2>1. PICK j \in DOMAIN topics[id] : m \in ToSet(topics[id][j].tcps)
    BY DEF StoredFor
  <2>2. PICK l \in DOMAIN topics[id][j].tcps : m = topics[id][j].tcps[l]
    BY <2>1 DEF ToSet
  <2>. QED BY <2>2 DEF OrderInv, NewerThanReceived
<1>. QED BY <1>1, <1>2

(* A step that delivers nothing, and stores nothing new. *)
LEMMA OrderKept ==
  ASSUME OrderInv, UNCHANGED <<received, published>>,
         \A id \in Ids : \A j \in DOMAIN topics'[id] :
           \/ topics'[id][j].tcps = <<>>
           \/ j \in DOMAIN topics[id] /\ topics'[id][j].tcps = topics[id][j].tcps
  PROVE  OrderInv'
  BY DEF OrderInv, InOrder, NewerThanReceived

(* Messages in order, followed by newer ones in order. *)
LEMMA ConcatInOrder ==
  ASSUME NEW q \in Seq(Msgs), NEW r \in Seq(Msgs), NEW top \in Nat, NEW last \in Nat,
         InOrder(q, top), top <= last, InOrder(r, last),
         \A k \in DOMAIN q, l \in DOMAIN r : q[k] <= r[l]
  PROVE  InOrder(q \o r, last)
<1>. DEFINE qr == q \o r
<1>1. /\ Len(q) \in Nat /\ DOMAIN q = 1 .. Len(q)
      /\ Len(r) \in Nat /\ DOMAIN r = 1 .. Len(r)
      /\ DOMAIN qr = 1 .. Len(q) + Len(r)
      /\ \A i \in DOMAIN qr : qr[i] = IF i <= Len(q) THEN q[i] ELSE r[i - Len(q)]
  BY ConcatProperties, LenProperties
<1>0. Msgs \subseteq Nat
  BY ServerAssumption DEF Msgs
<1>2. \A i \in DOMAIN q : q[i] \in Nat
  BY <1>0, LenProperties
<1>3. \A i \in DOMAIN r : r[i] \in Nat
  BY <1>0, LenProperties
<1>4. ASSUME NEW k \in DOMAIN qr PROVE qr[k] <= last
  <2>1. CASE k <= Len(q)
    BY <1>1, <1>2, <2>1 DEF InOrder
  <2>2. CASE k > Len(q)
    <3>1. k - Len(q) \in DOMAIN r
      BY <1>1, <2>2
    <3>. QED BY <1>1, <2>2, <3>1 DEF InOrder
  <2>. QED BY <1>1, <2>1, <2>2
<1>5. ASSUME NEW k \in DOMAIN qr, NEW l \in DOMAIN qr, k <= l PROVE qr[k] <= qr[l]
  <2>1. CASE l <= Len(q)
    BY <1>1, <1>5, <2>1 DEF InOrder
  <2>2. CASE k <= Len(q) /\ l > Len(q)
    <3>1. k \in DOMAIN q /\ l - Len(q) \in DOMAIN r
      BY <1>1, <2>2
    <3>. QED BY <1>1, <2>2, <3>1
  <2>3. CASE k > Len(q)
    <3>1. /\ k - Len(q) \in DOMAIN r /\ l - Len(q) \in DOMAIN r
          /\ k - Len(q) <= l - Len(q)
      BY <1>1, <1>5, <2>3
    <3>2. qr[k] = r[k - Len(q)] /\ qr[l] = r[l - Len(q)]
      BY <1>1, <1>5, <2>3
    <3>. QED BY <3>1, <3>2 DEF InOrder
  <2>. QED BY <1>1, <1>5, <2>1, <2>2, <2>3
<1>. QED BY <1>4, <1>5 DEF InOrder

LEMMA MsgsAreNat == Msgs \subseteq Nat
  BY ServerAssumption DEF Msgs

(* What is stored is sent after what was received, and is newer. *)
LEMMA ReturningOrder ==
  ASSUME SocketInv, OrderInv, NEW id \in Ids, NEW s \in ClientFds,
         NEW alive \in BOOLEAN, AcceptReturning(id, s, alive)
  PROVE  OrderInv'
<1>. TypeOK
  BY DEF SocketInv
<1>1. PICK i \in get_client_by_id(id) : reconnect_old_sub(id, i, s, alive)
  BY DEF AcceptReturning
<1>2. published' = published /\ published \in Nat
  BY ServerAssumption DEF AcceptReturning, TypeOK
<1>3. ASSUME NEW c \in Ids, NEW j \in DOMAIN topics'[c]
      PROVE  \/ topics'[c][j].tcps = <<>>
             \/ c # id /\ topics'[c] = topics[c]
  <2>1. topics' = [topics EXCEPT ![id] = [k \in DOMAIN @ |-> Emptied(@[k])]]
    BY <1>1 DEF reconnect_old_sub
  <2>2. CASE c = id
    <3>1. j \in DOMAIN topics[id] /\ topics'[c][j] = Emptied(topics[id][j])
      BY <1>3, <2>1, <2>2 DEF TypeOK
    <3>2. topics[id][j] \in Topic
      BY <3>1, TopicType
    <3>. QED BY <3>1, <3>2 DEF Emptied, Topic
  <2>3. CASE c # id
    BY <2>1, <2>3 DEF TypeOK
  <2>. QED BY <2>2, <2>3
<1>4. ASSUME NEW c \in Ids, NEW t \in Topics
      PROVE  \/ received'[c][t] = received[c][t]
             \/ c = id /\ received'[c][t] = received[c][t] \o Replayed(c, t)
  BY <1>1 DEF reconnect_old_sub, TypeOK
<1>5. ASSUME NEW c \in Ids, c # id, NEW t \in Topics
      PROVE  received'[c][t] = received[c][t]
  BY <1>4, <1>5
<1>6. ASSUME NEW t \in Topics
      PROVE  InOrder(received[id][t] \o Replayed(id, t), published)
  <2>1. CASE Keeping(id, t) = {}
    <3>1. Replayed(id, t) = <<>> /\ received[id][t] \in Seq(Msgs)
      BY <2>1 DEF Replayed, TypeOK
    <3>2. received[id][t] \o Replayed(id, t) = received[id][t]
      BY <3>1, ConcatEmptySeq
    <3>. QED BY <3>2 DEF OrderInv
  <2>2. CASE Keeping(id, t) # {}
    <3>1. PICK j \in DOMAIN topics[id] : Replayed(id, t) = topics[id][j].tcps
      BY <2>2 DEF Replayed, Keeping, TopicOf
    <3>2. topics[id][j].tcps \in Seq(Msgs) /\ received[id][t] \in Seq(Msgs)
      BY TopicType, TopicFields DEF TypeOK
    <3>3. /\ InOrder(received[id][t], published)
          /\ InOrder(topics[id][j].tcps, published)
      BY DEF OrderInv
    <3>4. \A k \in DOMAIN received[id][t], l \in DOMAIN topics[id][j].tcps :
            received[id][t][k] <= topics[id][j].tcps[l]
      <4>1. \A k \in DOMAIN received[id][t], l \in DOMAIN topics[id][j].tcps :
              /\ received[id][t][k] < topics[id][j].tcps[l]
              /\ received[id][t][k] \in Nat /\ topics[id][j].tcps[l] \in Nat
        BY <3>2, MsgsAreNat, LenProperties DEF OrderInv, NewerThanReceived
      <4>. QED BY <4>1
    <3>. QED BY <1>2, <3>1, <3>2, <3>3, <3>4, ConcatInOrder
  <2>. QED BY <2>1, <2>2
<1>7. ASSUME NEW c \in Ids, NEW t \in Topics
      PROVE  InOrder(received[c][t], published)'
  <2>1. CASE received'[c][t] = received[c][t]
    BY <1>2, <2>1 DEF OrderInv
  <2>2. CASE c = id /\ received'[c][t] = received[c][t] \o Replayed(c, t)
    BY <1>2, <1>6, <2>2
  <2>. QED BY <1>4, <2>1, <2>2
<1>8. ASSUME NEW c \in Ids, NEW j \in DOMAIN topics'[c], NEW k \in DOMAIN topics'[c][j].tcps
      PROVE  NewerThanReceived(c, topics[c][j].tcps[k])'
  <2>1. c # id /\ topics'[c] = topics[c]
    BY <1>3, <1>8
  <2>2. NewerThanReceived(c, topics[c][j].tcps[k])
    BY <1>8, <2>1 DEF OrderInv
  <2>. QED BY <1>5, <2>1, <2>2 DEF NewerThanReceived
<1>9. ASSUME NEW c \in Ids, NEW j \in DOMAIN topics'[c]
      PROVE  InOrder(topics[c][j].tcps, published)'
  <2>1. CASE topics'[c][j].tcps = <<>>
    BY <2>1 DEF InOrder
  <2>2. CASE topics'[c] = topics[c]
    BY <1>2, <1>9, <2>2 DEF OrderInv
  <2>. QED BY <1>3, <2>1, <2>2
<1>. QED BY <1>7, <1>8, <1>9 DEF OrderInv

(* What is in order stays so when its bound grows. *)
LEMMA InOrderLater ==
  ASSUME NEW q \in Seq(Msgs), NEW top \in Nat, NEW last \in Nat, top <= last,
         InOrder(q, top)
  PROVE  InOrder(q, last)
<1>1. ASSUME NEW k \in DOMAIN q PROVE q[k] \in Nat /\ q[k] <= top
  BY <1>1, MsgsAreNat, LenProperties DEF InOrder
<1>2. ASSUME NEW k \in DOMAIN q PROVE q[k] <= last
  BY <1>1, <1>2
<1>. QED BY <1>2 DEF InOrder

(* What is in order stays so when a newer message is appended. *)
LEMMA AppendInOrder ==
  ASSUME NEW q \in Seq(Msgs), NEW top \in Nat, NEW n \in Msgs, top < n,
         InOrder(q, top)
  PROVE  InOrder(Append(q, n), n)
<1>. DEFINE one == <<n>>
<1>1. one \in Seq(Msgs) /\ DOMAIN one = {1} /\ one[1] = n
  OBVIOUS
<1>2. n \in Nat
  BY MsgsAreNat
<1>3. InOrder(one, n)
  BY <1>1, <1>2 DEF InOrder
<1>4. \A k \in DOMAIN q : q[k] \in Nat /\ q[k] <= top
  BY MsgsAreNat, LenProperties DEF InOrder
<1>5. \A k \in DOMAIN q, l \in DOMAIN one : q[k] <= one[l]
  BY <1>1, <1>2, <1>4
<1>6. InOrder(q, n)
  BY <1>2, InOrderLater
<1>7. InOrder(q \o one, n)
  <2>. HIDE DEF one
  <2>. QED BY <1>1, <1>2, <1>3, <1>5, <1>6, ConcatInOrder
<1>8. q \o one = Append(q, n)
  BY AppendIsConcat
<1>. QED BY <1>7, <1>8

(* A client that is sent a copy has nothing stored: its record is the one  *)
(* of the process on its socket, and it is connected.                      *)
LEMMA ReceiverHasNoStore ==
  ASSUME SocketInv, StoreBounds, NEW id \in Ids, NEW t, NEW upto \in Nat,
         upto <= Len(subscribers), Copies(id, t, upto) # 0
  PROVE  \E k \in DOMAIN subscribers :
           /\ subscribers[k].id = id
           /\ subscribers[k].connected
           /\ \A j \in DOMAIN topics[id] : topics[id][j].tcps = <<>>
<1>. TypeOK
  BY DEF SocketInv
<1>1. PICK i \in 1 .. upto : /\ PeerOpen(subscribers[i].socket)
                             /\ peer[subscribers[i].socket] = id
  BY FS_EmptySet DEF Copies
<1>2. i \in DOMAIN subscribers
  BY LenProperties DEF TypeOK
<1>3. subscribers[i].socket \in ClientFds /\ IsOpen(subscribers[i].socket)
  BY <1>1, <1>2, RecordType DEF PeerOpen, IsOpen
<1>4. PICK k \in DOMAIN subscribers :
        subscribers[k] = [id |-> id, socket |-> subscribers[i].socket, connected |-> TRUE]
  BY <1>1, <1>3 DEF OwnerConnected, SocketInv
<1>5. \A j \in DOMAIN topics[id] : topics[id][j].tcps = <<>>
  BY <1>4 DEF StoreBounds, StoreFits, TopicsOfRecord
<1>. QED BY <1>4, <1>5

LEMMA DeliverOrder ==
  ASSUME SocketInv, StoreBounds, OrderInv, NEW t \in Topics, published + 1 \in Msgs,
         NEW upto \in Nat, upto <= Len(subscribers),
         Deliver(t, published + 1, upto), published' = published + 1
  PROVE  OrderInv'
<1>. DEFINE n == published + 1
<1>. TypeOK
  BY DEF SocketInv
<1>0. published \in Nat /\ n \in Nat /\ n \in Msgs /\ published' = n
  BY ServerAssumption DEF TypeOK
<1>1. ASSUME NEW c \in Ids, NEW u \in Topics
      PROVE  received'[c][u] = IF u = t
                               THEN received[c][u] \o [x \in 1 .. Copies(c, t, upto) |-> n]
                               ELSE received[c][u]
  BY DEF Deliver, TypeOK
<1>2. ASSUME NEW c \in Ids, NEW u \in Topics, NEW l \in DOMAIN received[c][u]
      PROVE  received[c][u][l] \in Nat /\ received[c][u][l] <= published
  <2>1. received[c][u] \in Seq(Msgs)
    BY DEF TypeOK
  <2>. QED BY <2>1, MsgsAreNat, LenProperties DEF OrderInv, InOrder
<1>3. ASSUME NEW c \in Ids, NEW j \in DOMAIN topics[c]
      PROVE  /\ topics[c][j] \in Topic
             /\ topics[c][j].tcps \in Seq(Msgs)
             /\ \A k \in DOMAIN topics[c][j].tcps :
                  topics[c][j].tcps[k] \in Nat /\ topics[c][j].tcps[k] <= published
  <2>1. topics[c][j] \in Topic
    BY TopicType
  <2>2. topics[c][j].tcps \in Seq(Msgs)
    BY <2>1, TopicFields
  <2>. QED BY <2>1, <2>2, MsgsAreNat, LenProperties DEF OrderInv, InOrder
<1>4. ASSUME NEW c \in Ids, NEW u \in Topics
      PROVE  InOrder(received[c][u], published)'
  <2>1. CASE u = t
    <3>. DEFINE new == [x \in 1 .. Copies(c, t, upto) |-> n]
    <3>1. new \in Seq(Msgs) /\ DOMAIN new = 1 .. Copies(c, t, upto)
      BY <1>0, CopiesType, SeqOfFunction
    <3>2. InOrder(new, n)
      BY <1>0 DEF InOrder
    <3>3. received[c][u] \in Seq(Msgs) /\ InOrder(received[c][u], published)
      BY DEF TypeOK, OrderInv
    <3>4. \A k \in DOMAIN received[c][u], l \in DOMAIN new : received[c][u][k] <= new[l]
      BY <1>0, <1>2
    <3>5. InOrder(received[c][u], n)
      BY <1>0, <3>3, InOrderLater
    <3>6. InOrder(received[c][u] \o new, n)
      <4>1. n <= n
        BY <1>0
      <4>. HIDE DEF new, n
      <4>. QED BY <1>0, <3>1, <3>2, <3>3, <3>4, <3>5, <4>1, ConcatInOrder
    <3>. QED BY <1>0, <1>1, <2>1, <3>6
  <2>2. CASE u # t
    <3>1. received[c][u] \in Seq(Msgs) /\ InOrder(received[c][u], published)
      BY DEF TypeOK, OrderInv
    <3>2. InOrder(received[c][u], n)
      BY <1>0, <3>1, InOrderLater
    <3>. QED BY <1>0, <1>1, <2>2, <3>2
  <2>. QED BY <2>1, <2>2
<1>5. ASSUME NEW c \in Ids, NEW j \in DOMAIN topics'[c]
      PROVE  /\ j \in DOMAIN topics[c]
             /\ \/ topics'[c][j].tcps = topics[c][j].tcps
                \/ /\ topics'[c][j].tcps = Append(topics[c][j].tcps, n)
                   /\ Copies(c, t, upto) = 0
  <2>1. j \in DOMAIN topics[c]
    BY <1>0, <1>5, DeliverTopics
  <2>2. CASE topics'[c][j] = topics[c][j]
    BY <2>1, <2>2
  <2>3. CASE /\ \E i \in 1 .. upto : subscribers[i].id = c /\ j \in StoreSlot(i, t)
             /\ topics'[c][j] = store_tcp_msg_to_unconn_client(topics[c][j], n)
    <3>1. topics'[c][j].tcps = Append(topics[c][j].tcps, n)
      BY <1>3, <2>1, <2>3 DEF store_tcp_msg_to_unconn_client, Topic
    <3>2. PICK i \in 1 .. upto : subscribers[i].id = c /\ j \in StoreSlot(i, t)
      BY <2>3
    <3>3. i \in DOMAIN subscribers /\ ~ subscribers[i].connected
      BY <3>2, LenProperties DEF TypeOK, StoreSlot
    <3>4. \A k \in DOMAIN subscribers : subscribers[k].id = c => k = i
      BY <3>2, <3>3 DEF UniqueIds, SocketInv
    <3>5. Copies(c, t, upto) = 0
      BY <3>3, <3>4, ReceiverHasNoStore
    <3>. QED BY <2>1, <3>1, <3>5
  <2>. QED BY <1>0, <2>1, <2>2, <2>3, DeliverTopics
<1>6. ASSUME NEW c \in Ids, NEW j \in DOMAIN topics'[c]
      PROVE  InOrder(topics[c][j].tcps, published)'
  <2>. DEFINE q == topics[c][j].tcps
  <2>1. /\ q \in Seq(Msgs) /\ InOrder(q, published)
        /\ DOMAIN q = 1 .. Len(q) /\ Len(q) \in Nat
        /\ \A k \in DOMAIN q : q[k] \in Nat /\ q[k] <= published
    BY <1>3, <1>5, <1>6, LenProperties DEF OrderInv
  <2>2. CASE topics'[c][j].tcps = q
    <3>1. InOrder(q, n)
      BY <1>0, <2>1, InOrderLater
    <3>. QED BY <1>0, <2>2, <3>1
  <2>3. CASE topics'[c][j].tcps = Append(q, n)
    <3>1. InOrder(Append(q, n), n)
      BY <1>0, <2>1, AppendInOrder
    <3>. QED BY <1>0, <2>3, <3>1
  <2>. QED BY <1>5, <1>6, <2>2, <2>3
<1>7. ASSUME NEW c \in Ids, NEW j \in DOMAIN topics'[c],
             NEW k \in DOMAIN topics'[c][j].tcps
      PROVE  NewerThanReceived(c, topics[c][j].tcps[k])'
  <2>. DEFINE q == topics[c][j].tcps
  <2>1. CASE Copies(c, t, upto) = 0
    <3>1. ASSUME NEW u \in Topics PROVE received'[c][u] = received[c][u]
      <4>1. received[c][u] \in Seq(Msgs)
        BY DEF TypeOK
      <4>2. [x \in 1 .. 0 |-> n] = <<>>
        OBVIOUS
      <4>3. received[c][u] \o <<>> = received[c][u]
        BY <4>1, ConcatEmptySeq
      <4>. QED BY <1>1, <2>1, <4>2, <4>3
    <3>2. \/ k \in DOMAIN q /\ topics'[c][j].tcps[k] = q[k]
          \/ topics'[c][j].tcps[k] = n
      <4>1. q \in Seq(Msgs) /\ DOMAIN q = 1 .. Len(q) /\ Len(q) \in Nat
        BY <1>3, <1>5, <1>7, LenProperties
      <4>2. CASE topics'[c][j].tcps = q
        BY <1>7, <4>2
      <4>3. CASE topics'[c][j].tcps = Append(q, n)
        <5>1. /\ DOMAIN Append(q, n) = 1 .. Len(q) + 1
              /\ \A l \in 1 .. Len(q) : Append(q, n)[l] = q[l]
              /\ Append(q, n)[Len(q) + 1] = n
          <6>1. n \in Msgs
            BY <1>0
          <6>. DEFINE longer == Append(q, n)
          <6>2. longer \in Seq(Msgs) /\ Len(longer) = Len(q) + 1
            BY ONLY <4>1, <6>1, AppendProperties
          <6>3. DOMAIN longer = 1 .. Len(longer)
            BY <6>2, LenProperties
          <6>4. (\A l \in 1 .. Len(q) : longer[l] = q[l]) /\ longer[Len(q) + 1] = n
            BY ONLY <4>1, <6>1, AppendProperties
          <6>. QED BY <6>2, <6>3, <6>4
        <5>. QED BY <1>7, <4>1, <4>3, <5>1
      <4>. QED BY <1>5, <1>7, <4>2, <4>3
    <3>3. ASSUME NEW u \in Topics, NEW l \in DOMAIN received[c][u]
          PROVE  received[c][u][l] < topics'[c][j].tcps[k]
      <4>1. CASE k \in DOMAIN q /\ topics'[c][j].tcps[k] = q[k]
        BY <1>5, <1>7, <3>3, <4>1 DEF OrderInv, NewerThanReceived
      <4>2. CASE topics'[c][j].tcps[k] = n
        BY <1>0, <1>2, <3>3, <4>2
      <4>. QED BY <3>2, <4>1, <4>2
    <3>. QED BY <3>1, <3>3 DEF NewerThanReceived
  <2>2. CASE Copies(c, t, upto) # 0
    <3>1. j \in DOMAIN topics[c] /\ topics[c][j].tcps = <<>>
      BY <1>5, <1>7, <2>2, ReceiverHasNoStore
    <3>2. topics'[c][j].tcps = <<>>
      BY <1>5, <1>7, <2>2, <3>1
    <3>. QED BY <1>7, <3>2
  <2>. QED BY <2>1, <2>2
<1>. QED BY <1>4, <1>6, <1>7 DEF OrderInv

OrderStrongInv == StoreInv /\ OrderInv

(* The handlers of a socket's commands and of its end keep every store, or *)
(* start it anew.                                                          *)
LEMMA CommandOrder ==
  ASSUME SocketInv, OrderInv, NEW s \in ClientFds,
         \/ EndOfFile(s)
         \/ \E t \in Topics : \/ \E sf \in SfInputs : Subscribe(s, t, sf)
                              \/ Unsubscribe(s, t)
  PROVE  OrderInv'
<1>. TypeOK
  BY DEF SocketInv
<1>1. CASE EndOfFile(s)
  <2>1. disconnect_client(s) /\ UNCHANGED <<received, published>>
    BY <1>1 DEF EndOfFile
  <2>2. ASSUME NEW id \in Ids, NEW j \in DOMAIN topics'[id]
        PROVE  \/ topics'[id][j].tcps = <<>>
               \/ j \in DOMAIN topics[id] /\ topics'[id][j].tcps = topics[id][j].tcps
    <3>1. j \in DOMAIN topics[id]
      BY <2>1, <2>2, DisconnectTopics
    <3>2. CASE topics'[id][j] = topics[id][j]
      BY <3>1, <3>2
    <3>3. CASE topics'[id][j] = FreshArray(topics[id][j]) /\ topics[id][j].sf = 1
      <4>1. topics[id][j] \in Topic
        BY <3>1, TopicType
      <4>. QED BY <3>3, <4>1 DEF FreshArray, Topic
    <3>. QED BY <2>1, <3>1, <3>2, <3>3, DisconnectTopics
  <2>. QED BY <2>1, <2>2, OrderKept
<1>2. ASSUME NEW t \in Topics, NEW sf \in SfInputs, Subscribe(s, t, sf)
      PROVE  OrderInv'
  <2>1. subscribe_to_topic(t, sf, s) /\ UNCHANGED <<received, published>>
    BY <1>2 DEF Subscribe
  <2>2. ASSUME NEW id \in Ids, NEW j \in DOMAIN topics'[id]
        PROVE  \/ topics'[id][j].tcps = <<>>
               \/ j \in DOMAIN topics[id] /\ topics'[id][j].tcps = topics[id][j].tcps
    <3>1. CASE DOMAIN topics'[id] = DOMAIN topics[id]
               /\ \A k \in DOMAIN topics[id] :
                    \/ topics'[id][k] = topics[id][k]
                    \/ topics'[id][k] = [topics[id][k] EXCEPT !.sf = sf]
      <4>1. j \in DOMAIN topics[id] /\ topics[id][j] \in Topic
        BY <2>2, <3>1, TopicType
      <4>2. [topics[id][j] EXCEPT !.sf = sf].tcps = topics[id][j].tcps
        BY <4>1 DEF Topic
      <4>. QED BY <3>1, <4>1, <4>2
    <3>2. CASE topics'[id] = Append(topics[id], NewTopic(t, sf))
      <4>1. /\ DOMAIN topics[id] = 1 .. Len(topics[id]) /\ Len(topics[id]) \in Nat
            /\ DOMAIN topics'[id] = 1 .. Len(topics[id]) + 1
            /\ \A k \in 1 .. Len(topics[id]) : topics'[id][k] = topics[id][k]
            /\ topics'[id][Len(topics[id]) + 1] = NewTopic(t, sf)
        <5>1. topics[id] \in Seq(Topic)
          BY DEF TypeOK
        <5>. HIDE DEF NewTopic
        <5>. QED BY <3>2, <5>1, AppendProperties, LenProperties
      <4>2. NewTopic(t, sf).tcps = <<>>
        BY DEF NewTopic
      <4>. QED BY <2>2, <4>1, <4>2
    <3>. QED BY <2>1, <3>1, <3>2, SubscribeTopics
  <2>. QED BY <2>1, <2>2, OrderKept
<1>3. ASSUME NEW t \in Topics, Unsubscribe(s, t)
      PROVE  OrderInv'
  <2>1. unsubscribe_from_topic(t, s) /\ UNCHANGED <<received, published>>
    BY <1>3 DEF Unsubscribe
  <2>2. ASSUME NEW id \in Ids, NEW j \in DOMAIN topics'[id]
        PROVE  j \in DOMAIN topics[id] /\ topics'[id][j].tcps = topics[id][j].tcps
    <3>1. j \in DOMAIN topics[id]
      BY <2>1, <2>2, UnsubscribeTopics
    <3>2. topics[id][j] \in Topic
      BY <3>1, TopicType
    <3>3. [topics[id][j] EXCEPT !.subscribed = FALSE].tcps = topics[id][j].tcps
      BY <3>2 DEF Topic
    <3>. QED BY <2>1, <3>1, <3>3, UnsubscribeTopics
  <2>. QED BY <2>1, <2>2, OrderKept
<1>. QED BY <1>1, <1>2, <1>3

LEMMA OrderStep == OrderStrongInv /\ [Next]_vars => OrderStrongInv'
<1>. SUFFICES ASSUME OrderStrongInv, [Next]_vars PROVE OrderInv'
  BY StoreStep DEF OrderStrongInv
<1>. SocketInv /\ StoreBounds /\ OrderInv /\ TypeOK
  BY DEF OrderStrongInv, StoreInv, SocketInv
<1>0. CASE UNCHANGED <<topics, received, published>>
  BY <1>0, OrderKept
<1>1. ASSUME NEW id \in Ids, NEW s \in ClientFds, NEW alive \in BOOLEAN,
             AcceptNew(id, s, alive)
      PROVE  OrderInv'
  <2>1. topics' = [topics EXCEPT ![id] = <<>>] /\ UNCHANGED <<received, published>>
    BY <1>1 DEF AcceptNew, add_new_client
  <2>2. \A c \in Ids : \A j \in DOMAIN topics'[c] :
          j \in DOMAIN topics[c] /\ topics'[c][j] = topics[c][j]
    BY <2>1 DEF TypeOK
  <2>. QED BY <2>1, <2>2, OrderKept
<1>2. ASSUME NEW t \in Topics, UdpMessage(t) \/ UdpMessageFails(t)
      PROVE  OrderInv'
  <2>1. PICK upto \in Nat : /\ upto <= Len(subscribers)
                            /\ published + 1 \in Msgs
                            /\ Deliver(t, published + 1, upto)
    BY <1>2, DeliverArguments
  <2>2. published' = published + 1
    BY <1>2 DEF UdpMessage, UdpMessageFails
  <2>. QED BY <2>1, <2>2, DeliverOrder
<1>3. ASSUME NEW t \in Topics, UdpUnheard(t) PROVE OrderInv'
  <2>1. published' = published + 1 /\ UNCHANGED <<topics, received>>
    BY <1>3 DEF UdpUnheard
  <2>2. published \in Nat /\ published' \in Nat /\ published <= published'
    BY <2>1, ServerAssumption DEF TypeOK
  <2>3. \A c \in Ids, u \in Topics : received[c][u] \in Seq(Msgs)
    BY DEF TypeOK
  <2>4. ASSUME NEW c \in Ids, NEW u \in Topics PROVE InOrder(received[c][u], published)'
    <3>1. InOrder(received[c][u], published')
      BY <2>2, <2>3, InOrderLater DEF OrderInv
    <3>. QED BY <2>1, <3>1
  <2>5. ASSUME NEW c \in Ids, NEW j \in DOMAIN topics[c]
        PROVE  InOrder(topics[c][j].tcps, published)'
    <3>1. topics[c][j].tcps \in Seq(Msgs)
      BY TopicType, TopicFields
    <3>2. InOrder(topics[c][j].tcps, published')
      BY <2>2, <3>1, InOrderLater DEF OrderInv
    <3>. QED BY <2>1, <3>2
  <2>6. ASSUME NEW c \in Ids, NEW j \in DOMAIN topics[c], NEW k \in DOMAIN topics[c][j].tcps
        PROVE  NewerThanReceived(c, topics[c][j].tcps[k])'
    BY <2>1 DEF OrderInv, NewerThanReceived
  <2>. QED BY <2>1, <2>4, <2>5, <2>6 DEF OrderInv
<1>. QED BY <1>0, <1>1, <1>2, <1>3, ReturningOrder, CommandOrder
         DEF Next, ClientNext, AcceptNext, CommandNext, DatagramNext, vars, ClientCloses,
             AcceptDuplicate, ReplayFails, RecvFails, MalformedDatagram, UdpUnheard, CallFails,
             ExitCommand

LEMMA OrderInit == Init => OrderStrongInv
<1>. SUFFICES ASSUME Init PROVE OrderInv
  BY SocketInit DEF Init, OrderStrongInv, StoreInv, StoreBounds
<1>. QED BY DEF Init, OrderInv, InOrder, NewerThanReceived

(* The replay of reconnect_old_sub never sends an old message again after  *)
(* a newer one, however often a client goes and comes back.                *)
THEOREM StoredIsNewer == Spec => []StoredAreNewer
<1>1. OrderStrongInv => StoredAreNewer
  BY OrderInvGivesOrder DEF OrderStrongInv
<1>. QED BY <1>1, OrderInit, OrderStep, PTL DEF Spec

(* A client gets the messages of a topic in the order they were published, *)
(* forwarded at once by send_tcp_msg or stored and sent later.             *)
THEOREM OrderIsKept == Spec => []PerTopicOrder
<1>1. OrderStrongInv => PerTopicOrder
  BY OrderInvGivesOrder DEF OrderStrongInv
<1>. QED BY <1>1, OrderInit, OrderStep, PTL DEF Spec

=============================================================================
