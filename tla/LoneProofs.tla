----------------------------- MODULE LoneProofs -----------------------------
(***************************************************************************)
(* Theorems about the broker while one identifier is in use, and their     *)
(* proofs: what is stored can be stored and stays until it is sent, which  *)
(* the reuse of descriptor numbers breaks with two, and the broker         *)
(* implements the mailbox of module Mailbox.  The numbers of topics,       *)
(* descriptors and messages stay arbitrary.                                *)
(***************************************************************************)
EXTENDS ServerMailbox, ServerProofs

OneIdentifier == \E a \in Ids : Ids = {a}

(* Topics are asked for by a client that has a record. *)
NothingBeforeRecord ==
  DOMAIN subscribers = {} => \A id \in Ids : DOMAIN topics[id] = {}

(***************************************************************************)
(* The inductive invariant.  An end-of-file finds the record of the only   *)
(* open socket, so that nothing is left below the bound it restores and no *)
(* other record keeps the number of the closed socket: ConnectedIsTrue and *)
(* FdmaxCovers need each other's view of what is open.                     *)
(***************************************************************************)
LoneInv ==
  /\ OneIdentifier
  /\ StoreInv
  /\ NoDuplicateTopic
  /\ ConnectedIsTrue
  /\ FdmaxCovers
  /\ StoreReady
  /\ NothingBeforeRecord

LEMMA TheOne ==
  ASSUME OneIdentifier
  PROVE  TheId \in Ids /\ \A id \in Ids : id = TheId
  BY DEF OneIdentifier, TheId

(* There is one record at most. *)
LEMMA OneRecord ==
  ASSUME LoneInv, NEW i \in DOMAIN subscribers
  PROVE  /\ i = 1 /\ DOMAIN subscribers = {1}
         /\ subscribers[1] \in Client
         /\ subscribers[1].id = TheId
         /\ get_client_by_id(TheId) = {1}
<1>. TypeOK /\ UniqueIds /\ OneIdentifier
  BY DEF LoneInv, StoreInv, SocketInv
<1>1. \A k \in DOMAIN subscribers : subscribers[k].id = TheId
  BY RecordType, TheOne
<1>2. \A k, l \in DOMAIN subscribers : k = l
  BY <1>1 DEF UniqueIds
<1>3. DOMAIN subscribers = 1 .. Len(subscribers) /\ Len(subscribers) \in Nat
  BY LenProperties DEF TypeOK
<1>4. i = 1 /\ DOMAIN subscribers = {1}
  <2>1. 1 \in DOMAIN subscribers
    BY <1>3
  <2>. QED BY <1>2, <2>1
<1>. QED BY <1>1, <1>4, IdFound, RecordType

(* An open socket is the one of that record. *)
LEMMA OpenRecord ==
  ASSUME LoneInv, NEW s \in ClientFds, IsOpen(s)
  PROVE  /\ DOMAIN subscribers = {1}
         /\ subscribers[1] = [id |-> TheId, socket |-> s, connected |-> TRUE]
         /\ get_client_by_socket(s) = {1}
<1>. TypeOK
  BY DEF LoneInv, StoreInv, SocketInv
<1>1. PICK i \in DOMAIN subscribers :
        subscribers[i] = [id |-> peer[s], socket |-> s, connected |-> TRUE]
  BY DEF LoneInv, StoreInv, SocketInv, OwnerConnected
<1>2. i = 1 /\ DOMAIN subscribers = {1} /\ subscribers[1].id = TheId
  BY OneRecord
<1>3. get_client_by_socket(s) = {1}
  BY <1>1, <1>2, SocketFound
<1>. QED BY <1>1, <1>2, <1>3

(* A command comes on an open socket. *)
LEMMA WatchedIsOpen ==
  ASSUME LoneInv, NEW s \in ClientFds, Watched(s)
  PROVE  IsOpen(s)
  BY DEF LoneInv, StoreInv, SocketInv, ReadSetMatchesOpen, Watched

(* No socket is open unless the record is connected. *)
LEMMA NothingOpen ==
  ASSUME LoneInv, \A i \in DOMAIN subscribers : ~ subscribers[i].connected
  PROVE  read_fds = {} /\ \A s \in ClientFds : ~ IsOpen(s)
<1>1. \A s \in ClientFds : ~ IsOpen(s)
  <2>. SUFFICES ASSUME NEW s \in ClientFds, IsOpen(s) PROVE FALSE
    OBVIOUS
  <2>1. /\ DOMAIN subscribers = {1}
        /\ subscribers[1] = [id |-> TheId, socket |-> s, connected |-> TRUE]
    BY OpenRecord
  <2>2. subscribers[1].connected = TRUE
    BY <2>1
  <2>. QED BY <2>1, <2>2
<1>. QED BY <1>1 DEF LoneInv, StoreInv, SocketInv, ReadSetMatchesOpen, TypeOK, FdTypeOK

(* An identifier without a record has no topic. *)
LEMMA NewcomerIsFirst ==
  ASSUME LoneInv, NEW id \in Ids, get_client_by_id(id) = {}
  PROVE  DOMAIN subscribers = {} /\ subscribers = <<>> /\ topics[id] = <<>> /\ id = TheId
<1>. TypeOK
  BY DEF LoneInv, StoreInv, SocketInv
<1>1. id = TheId
  BY TheOne DEF LoneInv
<1>2. DOMAIN subscribers = {}
  BY <1>1, OneRecord
<1>3. DOMAIN topics[id] = {}
  BY <1>2 DEF LoneInv, NothingBeforeRecord
<1>4. ASSUME NEW S, NEW q \in Seq(S), DOMAIN q = {} PROVE q = <<>>
  BY <1>4, EmptySeq, LenProperties
<1>. QED BY <1>1, <1>2, <1>3, <1>4, TopicType DEF TypeOK

-----------------------------------------------------------------------------
(* LoneInv is inductive. *)

LEMMA LoneAcceptNew ==
  ASSUME LoneInv, NEW id \in Ids, NEW s \in ClientFds, NEW alive \in BOOLEAN,
         AcceptNew(id, s, alive)
  PROVE  (ConnectedIsTrue /\ FdmaxCovers /\ StoreReady /\ NothingBeforeRecord)'
<1>. DEFINE new == [id |-> id, socket |-> s, connected |-> TRUE]
<1>. TypeOK
  BY DEF LoneInv, StoreInv, SocketInv
<1>1. subscribers = <<>> /\ read_fds = {}
  BY NewcomerIsFirst, NothingOpen DEF AcceptNew
<1>2. subscribers' = <<new>>
  BY <1>1 DEF AcceptNew, add_new_client
<1>3. DOMAIN subscribers' = {1} /\ subscribers'[1] = new
  BY <1>2
<1>4. IsOpen(s)' /\ peer'[s] = id
  BY DEF AcceptNew, Established, IsOpen, TypeOK, FdTypeOK
<1>5. ConnectedIsTrue'
  BY <1>3, <1>4 DEF ConnectedIsTrue
<1>6. FdmaxCovers'
  <2>1. s \in Int /\ fdmax \in Int
    BY FdAssumption DEF ClientFds, TypeOK, FdTypeOK
  <2>. QED BY <1>1, <2>1 DEF AcceptNew, Watch, MaxOf, FdmaxCovers
<1>7. StoreReady'
  BY <1>3 DEF StoreReady
<1>8. NothingBeforeRecord'
  BY <1>3 DEF NothingBeforeRecord
<1>. QED BY <1>5, <1>6, <1>7, <1>8

LEMMA LoneAcceptReturning ==
  ASSUME LoneInv, NEW id \in Ids, NEW s \in ClientFds, NEW alive \in BOOLEAN,
         AcceptReturning(id, s, alive)
  PROVE  (ConnectedIsTrue /\ FdmaxCovers /\ StoreReady /\ NothingBeforeRecord)'
<1>. TypeOK
  BY DEF LoneInv, StoreInv, SocketInv
<1>1. PICK i \in get_client_by_id(id) :
        ~ subscribers[i].connected /\ reconnect_old_sub(id, i, s, alive)
  BY DEF AcceptReturning
<1>2. /\ i \in DOMAIN subscribers /\ i = 1 /\ DOMAIN subscribers = {1}
      /\ subscribers[1] \in Client /\ subscribers[1].id = id
  BY OneRecord DEF get_client_by_id
<1>3. read_fds = {}
  BY <1>1, <1>2, NothingOpen
<1>4. DOMAIN subscribers' = {1} /\ subscribers'[1] = [id |-> id, socket |-> s, connected |-> TRUE]
  BY <1>1, <1>2 DEF reconnect_old_sub, Client
<1>5. IsOpen(s)' /\ peer'[s] = id
  BY DEF AcceptReturning, Established, IsOpen, TypeOK, FdTypeOK
<1>6. ConnectedIsTrue'
  BY <1>4, <1>5 DEF ConnectedIsTrue
<1>7. FdmaxCovers'
  <2>1. s \in Int /\ fdmax \in Int
    BY FdAssumption DEF ClientFds, TypeOK, FdTypeOK
  <2>. QED BY <1>3, <2>1 DEF AcceptReturning, Watch, MaxOf, FdmaxCovers
<1>8. StoreReady'
  BY <1>4 DEF StoreReady
<1>9. NothingBeforeRecord'
  BY <1>4 DEF NothingBeforeRecord
<1>. QED BY <1>6, <1>7, <1>8, <1>9

LEMMA LoneEndOfFile ==
  ASSUME LoneInv, NEW s \in ClientFds, EndOfFile(s)
  PROVE  (ConnectedIsTrue /\ FdmaxCovers /\ StoreReady /\ NothingBeforeRecord)'
<1>. TypeOK
  BY DEF LoneInv, StoreInv, SocketInv
<1>1. /\ IsOpen(s) /\ DOMAIN subscribers = {1}
      /\ subscribers[1] = [id |-> TheId, socket |-> s, connected |-> TRUE]
      /\ get_client_by_socket(s) = {1}
  BY WatchedIsOpen, OpenRecord DEF EndOfFile
<1>2. /\ DOMAIN subscribers' = {1}
      /\ ~ subscribers'[1].connected
      /\ subscribers'[1].id = TheId
  BY <1>1, OneRecord DEF EndOfFile, disconnect_client, Client
<1>3. ConnectedIsTrue' /\ NothingBeforeRecord'
  BY <1>2 DEF ConnectedIsTrue, NothingBeforeRecord
<1>4. FdmaxCovers'
  <2>1. \A r \in ClientFds : IsOpen(r) => r = s
    <3>. SUFFICES ASSUME NEW r \in ClientFds, IsOpen(r) PROVE r = s
      OBVIOUS
    <3>1. subscribers[1] = [id |-> TheId, socket |-> r, connected |-> TRUE]
      BY OpenRecord
    <3>. QED BY <1>1, <3>1
  <2>2. read_fds \ {s} = {}
    BY <2>1 DEF LoneInv, StoreInv, SocketInv, ReadSetMatchesOpen, TypeOK, FdTypeOK
  <2>. QED BY <2>2 DEF EndOfFile, Unwatch, FdmaxCovers
<1>5. StoreReady'
  <2>1. TheId \in Ids
    BY TheOne DEF LoneInv
  <2>2. disconnect_client(s)
    BY DEF EndOfFile
  <2>3. ASSUME NEW j \in DOMAIN topics'[TheId], topics'[TheId][j].sf = 1
        PROVE  topics'[TheId][j].block = "live"
    <3>1. j \in DOMAIN topics[TheId] /\ topics[TheId][j] \in Topic
      BY <2>1, <2>2, <2>3, DisconnectTopics, TopicType
    <3>2. topics'[TheId][j] = FreshArray(topics[TheId][j])
      BY <1>1, <2>1, <2>2, <3>1 DEF disconnect_client
    <3>. QED BY <2>3, <3>1, <3>2 DEF FreshArray, Topic
  <2>. QED BY <1>2, <2>3 DEF StoreReady, TopicsOfRecord
<1>. QED BY <1>3, <1>4, <1>5

(* A step that leaves the records, the owners and the sets of descriptors. *)
LEMMA LoneSame ==
  ASSUME LoneInv, UNCHANGED <<subscribers, peer, read_fds, fdmax>>,
         \A s \in ClientFds : IsOpen(s)' <=> IsOpen(s)
  PROVE  (ConnectedIsTrue /\ FdmaxCovers)'
  BY RecordType DEF LoneInv, StoreInv, SocketInv, ConnectedIsTrue, FdmaxCovers

(* A command is handled for a client that is connected.                    *)
LEMMA CommandKeepsReady ==
  ASSUME LoneInv, NEW s \in ClientFds, Watched(s), UNCHANGED subscribers
  PROVE  (StoreReady /\ NothingBeforeRecord)'
<1>1. /\ DOMAIN subscribers = {1}
      /\ subscribers[1] = [id |-> TheId, socket |-> s, connected |-> TRUE]
  BY WatchedIsOpen, OpenRecord
<1>. QED BY <1>1 DEF StoreReady, NothingBeforeRecord

LEMMA DeliverKeepsReady ==
  ASSUME LoneInv, NEW t \in Topics, NEW n \in Msgs, NEW upto \in Nat,
         Deliver(t, n, upto), UNCHANGED subscribers
  PROVE  (StoreReady /\ NothingBeforeRecord)'
<1>. TypeOK
  BY DEF LoneInv, StoreInv, SocketInv
<1>1. ASSUME NEW i \in DOMAIN subscribers, NEW j \in DOMAIN topics'[subscribers[i].id],
             ~ subscribers[i].connected, topics'[subscribers[i].id][j].sf = 1
      PROVE  topics'[subscribers[i].id][j].block = "live"
  <2>. DEFINE id == subscribers[i].id
              tp == topics[id][j]
  <2>1. id \in Ids
    BY RecordType
  <2>2. j \in DOMAIN topics[id] /\ tp \in Topic
    <3>. HIDE DEF id
    <3>. QED BY <1>1, <2>1, DeliverTopics, TopicType DEF id
  <2>3. \/ topics'[id][j] = tp
        \/ topics'[id][j] = store_tcp_msg_to_unconn_client(tp, n)
    BY <2>1, <2>2, DeliverTopics
  <2>4. store_tcp_msg_to_unconn_client(tp, n).sf = tp.sf
    BY <2>2 DEF store_tcp_msg_to_unconn_client, Topic
  <2>5. tp.sf = 1
    BY <1>1, <2>3, <2>4
  <2>6. tp.block = "live"
    BY <1>1, <2>2, <2>5 DEF LoneInv, StoreReady, TopicsOfRecord
  <2>7. store_tcp_msg_to_unconn_client(tp, n).block = "live"
    BY <2>2, <2>6 DEF store_tcp_msg_to_unconn_client, Topic
  <2>. QED BY <2>3, <2>6, <2>7
<1>2. StoreReady'
  BY <1>1 DEF StoreReady, TopicsOfRecord
<1>3. NothingBeforeRecord'
  <2>1. \A id \in Ids : DOMAIN topics'[id] = DOMAIN topics[id]
    BY DeliverTopics
  <2>. QED BY <2>1 DEF LoneInv, NothingBeforeRecord
<1>. QED BY <1>2, <1>3

LEMMA LoneStep == LoneInv /\ [Next]_vars => LoneInv'
<1>. SUFFICES ASSUME LoneInv, [Next]_vars PROVE LoneInv'
  OBVIOUS
<1>. SUFFICES (ConnectedIsTrue /\ FdmaxCovers /\ StoreReady /\ NothingBeforeRecord)'
  <2>1. StoreInv'
    BY StoreStep DEF LoneInv
  <2>2. NoDuplicateTopic'
    BY TopicStep DEF LoneInv, StoreInv, TopicInv
  <2>3. OneIdentifier'
    BY DEF LoneInv, OneIdentifier
  <2>. QED BY <2>1, <2>2, <2>3 DEF LoneInv
<1>. TypeOK
  BY DEF LoneInv, StoreInv, SocketInv
<1>1. CASE /\ UNCHANGED <<subscribers, topics, peer, read_fds, fdmax>>
           /\ \A s \in ClientFds : IsOpen(s)' <=> IsOpen(s)
  <2>1. (StoreReady /\ NothingBeforeRecord)'
    BY <1>1 DEF LoneInv, StoreReady, NothingBeforeRecord, TopicsOfRecord
  <2>. QED BY <1>1, <2>1, LoneSame
<1>2. ASSUME NEW s \in ClientFds, ClientCloses(s)
      PROVE  \A r \in ClientFds : IsOpen(r)' <=> IsOpen(r)
  BY <1>2 DEF ClientCloses, PeerOpen, IsOpen, TypeOK, FdTypeOK
<1>3. ASSUME NEW id \in Ids, NEW s \in ClientFds, NEW alive \in BOOLEAN,
             AcceptDuplicate(id, s, alive)
      PROVE  UNCHANGED <<subscribers, topics, peer, read_fds, fdmax, link>>
  <2>1. read_fds' = read_fds
    BY <1>3 DEF AcceptDuplicate, WatchAndDrop, LowestFree, LoneInv, StoreInv, SocketInv,
       ReadSetMatchesOpen
  <2>. QED BY <1>3, <2>1 DEF AcceptDuplicate, WatchAndDrop, SendToGone
<1>4. ASSUME NEW s \in ClientFds, NEW t \in Topics,
             (\E sf \in SfInputs : Subscribe(s, t, sf)) \/ Unsubscribe(s, t)
      PROVE  (ConnectedIsTrue /\ FdmaxCovers /\ StoreReady /\ NothingBeforeRecord)'
  <2>1. Reply(s) \/ UNCHANGED link
    BY <1>4 DEF Subscribe, subscribe_to_topic, Unsubscribe, unsubscribe_from_topic
  <2>2. \A r \in ClientFds : IsOpen(r)' <=> IsOpen(r)
    BY <2>1, ReplyKeepsOpen DEF IsOpen
  <2>3. UNCHANGED <<subscribers, peer, read_fds, fdmax>> /\ Watched(s)
    BY <1>4 DEF Subscribe, Unsubscribe
  <2>. QED BY <2>2, <2>3, LoneSame, CommandKeepsReady
<1>5. ASSUME NEW t \in Topics, UdpMessage(t) \/ UdpMessageFails(t)
      PROVE  (ConnectedIsTrue /\ FdmaxCovers /\ StoreReady /\ NothingBeforeRecord)'
  <2>1. PICK upto \in Nat : /\ published + 1 \in Msgs
                            /\ Deliver(t, published + 1, upto)
    BY <1>5, DeliverArguments
  <2>2. UNCHANGED <<subscribers, peer, read_fds, fdmax>>
    BY <1>5 DEF UdpMessage, UdpMessageFails
  <2>. QED BY <2>1, <2>2, DeliverKeepsOpen, DeliverKeepsReady, LoneSame
<1>. QED BY <1>1, <1>2, <1>3, <1>4, <1>5, LoneAcceptNew, LoneAcceptReturning, LoneEndOfFile
         DEF Next, ClientNext, AcceptNext, CommandNext, DatagramNext, vars, fdVars, IsOpen,
             ClientCloses, ReplayFails, RecvFails, MalformedDatagram, UdpUnheard, CallFails,
             ExitCommand

LEMMA LoneInit == OneIdentifier /\ Init => LoneInv
<1>. SUFFICES ASSUME OneIdentifier, Init PROVE LoneInv
  OBVIOUS
<1>1. SocketInv
  BY SocketInit
<1>2. /\ DOMAIN subscribers = {} /\ read_fds = {}
      /\ \A id \in Ids : DOMAIN topics[id] = {}
  BY DEF Init, FdInit
<1>. QED BY <1>1, <1>2
         DEF LoneInv, StoreInv, StoreBounds, NoDuplicateTopic, ConnectedIsTrue, FdmaxCovers,
             StoreReady, NothingBeforeRecord

LEMMA LoneInvariant == OneIdentifier => (Spec => []LoneInv)
  BY LoneInit, LoneStep, PTL DEF Spec

(* While one identifier is in use, send_tcp_msg never stores through NULL  *)
(* or into an array that was freed (utils.c:128-138 against 436).          *)
THEOREM LoneStoreReady == OneIdentifier => (Spec => []StoreReady)
  BY LoneInvariant, PTL DEF LoneInv

-----------------------------------------------------------------------------
(* What is stored stays stored until it is sent.                           *)

LEMMA StoreGrows ==
  ASSUME NEW id \in Ids,
         \A j \in DOMAIN topics[id] :
           /\ j \in DOMAIN topics'[id]
           /\ ToSet(topics[id][j].tcps) \subseteq ToSet(topics'[id][j].tcps)
  PROVE  StoredFor(id) \subseteq StoredFor(id)'
  BY DEF StoredFor

(* Storing appends, and the other changes of a record keep its messages.   *)
LEMMA TcpsKept ==
  ASSUME NEW tp \in Topic, NEW n \in Msgs, NEW sf
  PROVE  /\ store_tcp_msg_to_unconn_client(tp, n).tcps = Append(tp.tcps, n)
         /\ ToSet(tp.tcps) \subseteq ToSet(Append(tp.tcps, n))
         /\ [tp EXCEPT !.sf = sf].tcps = tp.tcps
         /\ [tp EXCEPT !.subscribed = FALSE].tcps = tp.tcps
         /\ Emptied(tp).tcps = <<>>
         /\ FreshArray(tp).tcps = IF tp.sf = 1 THEN <<>> ELSE tp.tcps
<1>1. ToSet(tp.tcps) \subseteq ToSet(Append(tp.tcps, n))
  <2>1. tp.tcps \in Seq(Msgs)
    BY TopicFields
  <2>2. /\ DOMAIN tp.tcps = 1 .. Len(tp.tcps) /\ Len(tp.tcps) \in Nat
        /\ DOMAIN Append(tp.tcps, n) = 1 .. Len(tp.tcps) + 1
        /\ \A k \in 1 .. Len(tp.tcps) : Append(tp.tcps, n)[k] = tp.tcps[k]
    BY <2>1, AppendProperties, LenProperties
  <2>. QED BY <2>2 DEF ToSet
<1>2. /\ store_tcp_msg_to_unconn_client(tp, n).tcps = Append(tp.tcps, n)
      /\ [tp EXCEPT !.sf = sf].tcps = tp.tcps
      /\ [tp EXCEPT !.subscribed = FALSE].tcps = tp.tcps
      /\ Emptied(tp).tcps = <<>>
      /\ FreshArray(tp).tcps = IF tp.sf = 1 THEN <<>> ELSE tp.tcps
  BY DEF store_tcp_msg_to_unconn_client, Emptied, FreshArray, Topic
<1>. QED BY <1>1, <1>2

(* A command leaves what is stored.                                        *)
LEMMA CommandKeepsStore ==
  ASSUME LoneInv, NEW s \in ClientFds, NEW t \in Topics, NEW id \in Ids,
         (\E sf \in SfInputs : Subscribe(s, t, sf)) \/ Unsubscribe(s, t)
  PROVE  StoredFor(id) \subseteq StoredFor(id)'
<1>. TypeOK
  BY DEF LoneInv, StoreInv, SocketInv
<1>0. ASSUME NEW j \in DOMAIN topics[id]
      PROVE  topics[id][j] \in Topic
  BY TopicType
<1>1. CASE Unsubscribe(s, t)
  <2>1. unsubscribe_from_topic(t, s)
    BY <1>1 DEF Unsubscribe
  <2>2. DOMAIN topics'[id] = DOMAIN topics[id]
    BY <2>1, UnsubscribeTopics
  <2>3. ASSUME NEW j \in DOMAIN topics[id]
        PROVE  topics'[id][j].tcps = topics[id][j].tcps
    <3>1. \/ topics'[id][j] = topics[id][j]
          \/ topics'[id][j] = [topics[id][j] EXCEPT !.subscribed = FALSE]
      BY <2>1, UnsubscribeTopics
    <3>. QED BY <1>0, <3>1 DEF Topic
  <2>. QED BY <2>2, <2>3, StoreGrows
<1>2. ASSUME NEW sf \in SfInputs, Subscribe(s, t, sf)
      PROVE  StoredFor(id) \subseteq StoredFor(id)'
  <2>1. subscribe_to_topic(t, sf, s)
    BY <1>2 DEF Subscribe
  <2>2. CASE /\ DOMAIN topics'[id] = DOMAIN topics[id]
             /\ \A j \in DOMAIN topics[id] :
                  \/ topics'[id][j] = topics[id][j]
                  \/ topics'[id][j] = [topics[id][j] EXCEPT !.sf = sf]
    <3>1. ASSUME NEW j \in DOMAIN topics[id]
          PROVE  topics'[id][j].tcps = topics[id][j].tcps
      BY <1>0, <2>2 DEF Topic
    <3>. QED BY <2>2, <3>1, StoreGrows
  <2>3. CASE topics'[id] = Append(topics[id], NewTopic(t, sf))
    <3>1. /\ DOMAIN topics[id] = 1 .. Len(topics[id]) /\ Len(topics[id]) \in Nat
          /\ DOMAIN topics'[id] = 1 .. Len(topics[id]) + 1
          /\ \A k \in 1 .. Len(topics[id]) : topics'[id][k] = topics[id][k]
      <4>1. topics[id] \in Seq(Topic)
        BY DEF TypeOK
      <4>. QED BY <2>3, <4>1, AppendProperties, LenProperties
    <3>. QED BY <3>1, StoreGrows
  <2>. QED BY <2>1, <2>2, <2>3, SubscribeTopics
<1>. QED BY <1>1, <1>2

LEMMA KeptStep ==
  LoneInv /\ [Next]_vars =>
    [\A id \in Ids : StoredFor(id) \subseteq StoredFor(id)' \union freed']_vars
<1>. SUFFICES ASSUME LoneInv, [Next]_vars, NEW id \in Ids
              PROVE  StoredFor(id) \subseteq StoredFor(id)' \union freed'
  OBVIOUS
<1>. TypeOK
  BY DEF LoneInv, StoreInv, SocketInv
<1>0. ASSUME NEW j \in DOMAIN topics[id]
      PROVE  topics[id][j] \in Topic
  BY TopicType
<1>1. CASE UNCHANGED topics
  BY <1>1 DEF StoredFor
<1>2. ASSUME NEW c \in Ids, NEW s \in ClientFds, NEW alive \in BOOLEAN,
             AcceptNew(c, s, alive)
      PROVE  StoredFor(id) = {}
  <2>1. topics[id] = <<>>
    BY <1>2, NewcomerIsFirst, TheOne DEF AcceptNew, LoneInv
  <2>. QED BY <2>1 DEF StoredFor
<1>3. ASSUME NEW c \in Ids, NEW s \in ClientFds, NEW alive \in BOOLEAN,
             AcceptReturning(c, s, alive)
      PROVE  StoredFor(id) \subseteq freed'
  <2>1. c = id
    BY TheOne DEF LoneInv
  <2>. QED BY <1>3, <2>1 DEF AcceptReturning, reconnect_old_sub
<1>4. ASSUME NEW s \in ClientFds, EndOfFile(s)
      PROVE  StoredFor(id) = {}
  <2>1. /\ DOMAIN subscribers = {1}
        /\ subscribers[1] = [id |-> TheId, socket |-> s, connected |-> TRUE]
    BY <1>4, WatchedIsOpen, OpenRecord DEF EndOfFile
  <2>2. id = TheId
    BY TheOne DEF LoneInv
  <2>3. \A j \in DOMAIN topics[id] : topics[id][j].tcps = <<>>
    BY <2>1, <2>2 DEF LoneInv, StoreInv, StoreBounds, StoreFits, TopicsOfRecord
  <2>. QED BY <2>3 DEF StoredFor, ToSet
<1>5. ASSUME NEW t \in Topics, UdpMessage(t) \/ UdpMessageFails(t)
      PROVE  StoredFor(id) \subseteq StoredFor(id)'
  <2>1. PICK upto \in Nat : /\ published + 1 \in Msgs
                            /\ Deliver(t, published + 1, upto)
    BY <1>5, DeliverArguments
  <2>2. DOMAIN topics'[id] = DOMAIN topics[id]
    BY <2>1, DeliverTopics
  <2>3. ASSUME NEW j \in DOMAIN topics[id]
        PROVE  ToSet(topics[id][j].tcps) \subseteq ToSet(topics'[id][j].tcps)
    <3>1. \/ topics'[id][j] = topics[id][j]
          \/ topics'[id][j] = store_tcp_msg_to_unconn_client(topics[id][j], published + 1)
      BY <2>1, DeliverTopics
    <3>2. ToSet(topics[id][j].tcps) \subseteq
            ToSet(store_tcp_msg_to_unconn_client(topics[id][j], published + 1).tcps)
      BY <1>0, <2>1, TcpsKept
    <3>. QED BY <3>1, <3>2
  <2>. QED BY <2>2, <2>3, StoreGrows
<1>. QED BY <1>1, <1>2, <1>3, <1>4, <1>5, CommandKeepsStore
         DEF Next, ClientNext, AcceptNext, CommandNext, DatagramNext, vars, ClientCloses,
             AcceptDuplicate, ReplayFails, RecvFails, MalformedDatagram, UdpUnheard, CallFails,
             ExitCommand

(* While one identifier is in use, no step of the server loses a message   *)
(* that is stored: not the end of a connection, whose handler allocates    *)
(* the arrays anew, nor a command or a datagram.  It leaves the store when *)
(* reconnect_old_sub sends and frees it (utils.c:89-117).                  *)
THEOREM LoneKeptUntilSent == OneIdentifier => (Spec => KeptUntilSent)
  BY LoneInvariant, KeptStep, PTL DEF Spec, KeptUntilSent

-----------------------------------------------------------------------------
(* The broker is the mailbox of module Mailbox.  First the abstract state, *)
(* read off the record and its topics.                                     *)

Seen ==
  /\ LineOfId \in {"away", "listening", "ended"}
  /\ (\A i \in DOMAIN subscribers : ~ subscribers[i].connected) => LineOfId = "away"
  /\ \A i \in DOMAIN subscribers : subscribers[i].connected =>
       LineOfId = IF PeerOpen(subscribers[i].socket) THEN "listening" ELSE "ended"
  /\ \A t \in RoomyNames :
       /\ OptionOf(t) \in {"none", "plain", "kept"}
       /\ TopicOf(TheId, t) = {} => OptionOf(t) = "none" /\ Replayed(TheId, t) = <<>>
       /\ \A j \in TopicOf(TheId, t) :
            /\ TopicOf(TheId, t) = {j}
            /\ OptionOf(t) = IF topics[TheId][j].sf = 1 THEN "kept" ELSE "plain"
            /\ Replayed(TheId, t) = topics[TheId][j].tcps

(* The names the mailbox knows are found by equality.                      *)
LEMMA RoomyFound ==
  ASSUME NEW t \in RoomyNames
  PROVE  /\ t \in Topics /\ t \notin FullNames
         /\ \A id, sf : Found(id, t, sf) = TopicOf(id, t)
  BY DEF RoomyNames, Found

LEMMA LoneSeen == LoneInv => Seen
<1>. SUFFICES ASSUME LoneInv PROVE Seen
  OBVIOUS
<1>. TheId \in Ids
  BY TheOne DEF LoneInv
<1>1. LineOfId \in {"away", "listening", "ended"}
  BY DEF LineOfId
<1>2. (\A i \in DOMAIN subscribers : ~ subscribers[i].connected) => LineOfId = "away"
  BY DEF LineOfId, ConnectedRecord, get_client_by_id
<1>3. ASSUME NEW i \in DOMAIN subscribers, subscribers[i].connected
      PROVE  LineOfId = IF PeerOpen(subscribers[i].socket) THEN "listening" ELSE "ended"
  <2>1. i = 1 /\ get_client_by_id(TheId) = {1}
    BY OneRecord
  <2>2. ConnectedRecord = {i}
    BY <1>3, <2>1 DEF ConnectedRecord
  <2>. QED BY <2>2 DEF LineOfId
<1>4. ASSUME NEW t \in RoomyNames, NEW j \in TopicOf(TheId, t)
      PROVE  /\ TopicOf(TheId, t) = {j}
             /\ OptionOf(t) = IF topics[TheId][j].sf = 1 THEN "kept" ELSE "plain"
             /\ Replayed(TheId, t) = topics[TheId][j].tcps
  <2>1. TopicOf(TheId, t) = {j}
    BY RoomyFound DEF LoneInv, NoDuplicateTopic, TopicOf
  <2>2. Replayed(TheId, t) = topics[TheId][j].tcps
    <3>1. CASE topics[TheId][j].tcps = <<>>
      BY <2>1, <3>1 DEF Replayed, Keeping
    <3>2. CASE topics[TheId][j].tcps # <<>>
      <4>1. Keeping(TheId, t) = {j}
        BY <2>1, <3>2 DEF Keeping
      <4>. QED BY <4>1 DEF Replayed
    <3>. QED BY <3>1, <3>2
  <2>. QED BY <2>1, <2>2 DEF OptionOf
<1>5. ASSUME NEW t \in RoomyNames
      PROVE  /\ OptionOf(t) \in {"none", "plain", "kept"}
             /\ TopicOf(TheId, t) = {} => OptionOf(t) = "none" /\ Replayed(TheId, t) = <<>>
  BY DEF OptionOf, Replayed, Keeping
<1>. QED BY <1>1, <1>2, <1>3, <1>4, <1>5 DEF Seen

LEMMA LoneSeenNext == LoneInv' => Seen'
  BY LoneSeen, PTL

(* The records and the peers' ends say what the line is.                   *)
LEMMA LineSame ==
  ASSUME LoneInv, LoneInv', UNCHANGED subscribers,
         \A s \in ClientFds : PeerOpen(s)' <=> PeerOpen(s)
  PROVE  LineOfId' = LineOfId
<1>. Seen /\ Seen'
  BY LoneSeen, LoneSeenNext
<1>1. CASE \E i \in DOMAIN subscribers : subscribers[i].connected
  <2>1. PICK i \in DOMAIN subscribers : subscribers[i].connected
    BY <1>1
  <2>2. subscribers[i].socket \in ClientFds
    BY RecordType DEF LoneInv, StoreInv, SocketInv
  <2>3. LineOfId = IF PeerOpen(subscribers[i].socket) THEN "listening" ELSE "ended"
    BY <2>1 DEF Seen
  <2>4. LineOfId' = IF PeerOpen(subscribers[i].socket)' THEN "listening" ELSE "ended"
    BY <2>1 DEF Seen
  <2>5. PeerOpen(subscribers[i].socket)' <=> PeerOpen(subscribers[i].socket)
    BY <2>2 DEF PeerOpen
  <2>. QED BY <2>3, <2>4, <2>5
<1>2. CASE \A i \in DOMAIN subscribers : ~ subscribers[i].connected
  <2>1. LineOfId = "away" /\ LineOfId' = "away"
    BY <1>2 DEF Seen
  <2>. QED BY <2>1
<1>. QED BY <1>1, <1>2

(* A list that keeps its names, and what it keeps of one topic.            *)
LEMMA TopicOfSame ==
  ASSUME DOMAIN topics'[TheId] = DOMAIN topics[TheId],
         \A j \in DOMAIN topics[TheId] : topics'[TheId][j].name = topics[TheId][j].name,
         NEW t \in Topics
  PROVE  TopicOf(TheId, t)' = TopicOf(TheId, t)
  BY DEF TopicOf

LEMMA OptionSame ==
  ASSUME LoneInv, LoneInv', NEW t \in RoomyNames,
         TopicOf(TheId, t)' = TopicOf(TheId, t),
         \A j \in TopicOf(TheId, t) : topics'[TheId][j].sf = topics[TheId][j].sf
  PROVE  OptionOf(t)' = OptionOf(t)
<1>. Seen /\ Seen'
  BY LoneSeen, LoneSeenNext
<1>. QED BY DEF Seen

LEMMA ReplayedSame ==
  ASSUME LoneInv, LoneInv', NEW t \in RoomyNames,
         TopicOf(TheId, t)' = TopicOf(TheId, t),
         \A j \in TopicOf(TheId, t) : topics'[TheId][j].tcps = topics[TheId][j].tcps
  PROVE  Replayed(TheId, t)' = Replayed(TheId, t)
<1>. Seen /\ Seen'
  BY LoneSeen, LoneSeenNext
<1>. QED BY DEF Seen

(* What the mailbox does not see: a record marked as unsubscribed, a full  *)
(* name, memory.                                                           *)
LEMMA UnseenStutters ==
  ASSUME LoneInv, LoneInv', UNCHANGED <<subscribers, received, published>>,
         \A t \in RoomyNames :
           /\ TopicOf(TheId, t)' = TopicOf(TheId, t)
           /\ \A j \in TopicOf(TheId, t) :
                /\ topics'[TheId][j].sf = topics[TheId][j].sf
                /\ topics'[TheId][j].tcps = topics[TheId][j].tcps,
         \A s \in ClientFds : PeerOpen(s)' <=> PeerOpen(s)
  PROVE  UNCHANGED Box!vars
<1>1. LineOfId' = LineOfId
  BY LineSame
<1>2. ASSUME NEW t \in RoomyNames
      PROVE  OptionOf(t)' = OptionOf(t) /\ Replayed(TheId, t)' = Replayed(TheId, t)
  BY OptionSame, ReplayedSame
<1>. QED BY <1>1, <1>2 DEF Box!vars

LEMMA BoxStutters ==
  ASSUME LoneInv, LoneInv', UNCHANGED <<subscribers, received, published>>,
         DOMAIN topics'[TheId] = DOMAIN topics[TheId],
         \A j \in DOMAIN topics[TheId] :
           /\ topics'[TheId][j].name = topics[TheId][j].name
           /\ topics'[TheId][j].sf = topics[TheId][j].sf
           /\ topics'[TheId][j].tcps = topics[TheId][j].tcps,
         \A s \in ClientFds : PeerOpen(s)' <=> PeerOpen(s)
  PROVE  UNCHANGED Box!vars
<1>1. ASSUME NEW t \in RoomyNames
      PROVE  /\ TopicOf(TheId, t)' = TopicOf(TheId, t)
             /\ TopicOf(TheId, t) \subseteq DOMAIN topics[TheId]
  BY RoomyFound, TopicOfSame DEF TopicOf
<1>. QED BY <1>1, UnseenStutters

LEMMA ClosesIsEnd ==
  ASSUME LoneInv, LoneInv', NEW s \in ClientFds, ClientCloses(s)
  PROVE  Box!End
<1>. Seen /\ Seen'
  BY LoneSeen, LoneSeenNext
<1>1. PeerOpen(s) /\ UNCHANGED <<subscribers, topics, received, published>>
  BY DEF ClientCloses
<1>2. /\ DOMAIN subscribers = {1}
      /\ subscribers[1] = [id |-> TheId, socket |-> s, connected |-> TRUE]
  BY <1>1, OpenRecord DEF PeerOpen, IsOpen
<1>3. subscribers[1].connected
  <2>1. subscribers[1].connected = TRUE
    BY <1>2
  <2>. QED BY <2>1
<1>4. LineOfId = "listening"
  BY <1>1, <1>2, <1>3 DEF Seen
<1>5. ~ PeerOpen(s)'
  BY DEF ClientCloses, PeerOpen, LoneInv, StoreInv, SocketInv, TypeOK, FdTypeOK
<1>6. LineOfId' = "ended"
  BY <1>1, <1>2, <1>3, <1>5 DEF Seen
<1>7. ASSUME NEW t \in RoomyNames
      PROVE  OptionOf(t)' = OptionOf(t) /\ Replayed(TheId, t)' = Replayed(TheId, t)
  <2>1. TopicOf(TheId, t)' = TopicOf(TheId, t)
    BY <1>1 DEF TopicOf
  <2>. QED BY <1>1, <2>1, OptionSame, ReplayedSame
<1>. QED BY <1>1, <1>4, <1>6, <1>7 DEF Box!End

(* The line after a connection is accepted. *)
LEMMA AcceptedLine ==
  ASSUME LoneInv, LoneInv', NEW s \in ClientFds, NEW alive \in BOOLEAN, NEW state,
         state = "closed" \/ state \in {"up", "fed"}, alive <=> state \in {"up", "fed"},
         link' = [link EXCEPT ![s] = state],
         1 \in DOMAIN subscribers', subscribers'[1].socket = s, subscribers'[1].connected
  PROVE  LineOfId' = IF alive THEN "listening" ELSE "ended"
<1>. Seen'
  BY LoneSeenNext
<1>1. link'[s] = state
  BY DEF LoneInv, StoreInv, SocketInv, TypeOK, FdTypeOK
<1>2. PeerOpen(subscribers[1].socket)' <=> alive
  BY <1>1 DEF PeerOpen
<1>. QED BY <1>2 DEF Seen

LEMMA AcceptNewIsCome ==
  ASSUME LoneInv, LoneInv', NEW id \in Ids, NEW s \in ClientFds, NEW alive \in BOOLEAN,
         AcceptNew(id, s, alive)
  PROVE  Box!Come
<1>. Seen /\ Seen' /\ TypeOK
  BY LoneSeen, LoneSeenNext DEF LoneInv, StoreInv, SocketInv
<1>1. subscribers = <<>> /\ topics[TheId] = <<>> /\ id = TheId
  BY NewcomerIsFirst DEF AcceptNew
<1>2. LineOfId = "away"
  BY <1>1 DEF Seen
<1>3. LineOfId' = IF alive THEN "listening" ELSE "ended"
  <2>. DEFINE new == [id |-> id, socket |-> s, connected |-> TRUE]
              state == IF alive THEN "up" ELSE "closed"
  <2>1. subscribers' = <<new>>
    BY <1>1 DEF AcceptNew, add_new_client
  <2>2. new.connected = TRUE /\ new.socket = s
    OBVIOUS
  <2>3. 1 \in DOMAIN subscribers' /\ subscribers'[1] = new
    <3>. HIDE DEF new
    <3>. QED BY <2>1
  <2>4. 1 \in DOMAIN subscribers' /\ subscribers'[1].socket = s /\ subscribers'[1].connected
    <3>. HIDE DEF new
    <3>. QED BY <2>2, <2>3
  <2>5. /\ link' = [link EXCEPT ![s] = state]
        /\ state = "closed" \/ state \in {"up", "fed"}
        /\ alive <=> state \in {"up", "fed"}
    BY DEF AcceptNew, Established
  <2>. QED BY <2>4, <2>5, AcceptedLine
<1>4. topics' = topics /\ UNCHANGED <<received, published>>
  BY <1>1 DEF AcceptNew, add_new_client, TypeOK
<1>5. ASSUME NEW t \in RoomyNames
      PROVE  /\ OptionOf(t)' = OptionOf(t)
             /\ Replayed(TheId, t) = <<>> /\ Replayed(TheId, t)' = <<>>
  <2>1. TopicOf(TheId, t) = {} /\ TopicOf(TheId, t)' = {}
    BY <1>1, <1>4 DEF TopicOf
  <2>. QED BY <2>1 DEF Seen
<1>6. ASSUME NEW t \in RoomyNames
      PROVE  received[TheId][t] \o Replayed(TheId, t) = received[TheId][t]
  <2>1. received[TheId][t] \in Seq(Msgs)
    BY TheOne, RoomyFound DEF TypeOK, LoneInv
  <2>. QED BY <1>5, <2>1, ConcatEmptySeq
<1>7. LineOfId' \in {"listening", "ended"}
  BY <1>3
<1>8. ASSUME NEW t \in RoomyNames
      PROVE  received'[TheId][t] = IF LineOfId' = "listening"
                                   THEN received[TheId][t] \o Replayed(TheId, t)
                                   ELSE received[TheId][t]
  BY <1>4, <1>6
<1>. QED BY <1>2, <1>4, <1>5, <1>7, <1>8 DEF Box!Come

LEMMA AcceptReturningIsCome ==
  ASSUME LoneInv, LoneInv', NEW id \in Ids, NEW s \in ClientFds, NEW alive \in BOOLEAN,
         AcceptReturning(id, s, alive)
  PROVE  Box!Come
<1>. Seen /\ Seen' /\ TypeOK
  BY LoneSeen, LoneSeenNext DEF LoneInv, StoreInv, SocketInv
<1>1. PICK i \in get_client_by_id(id) :
        ~ subscribers[i].connected /\ reconnect_old_sub(id, i, s, alive)
  BY DEF AcceptReturning
<1>2. /\ i = 1 /\ DOMAIN subscribers = {1} /\ i \in DOMAIN subscribers
      /\ subscribers[1] \in Client /\ subscribers[1].id = id /\ id = TheId /\ id \in Ids
  BY OneRecord DEF get_client_by_id
<1>3. LineOfId = "away"
  BY <1>1, <1>2 DEF Seen
<1>4. LineOfId' = IF alive THEN "listening" ELSE "ended"
  <2>. DEFINE state == CASE ~alive -> "closed"
                         [] alive /\ StoredFor(id) = {} -> "up"
                         [] OTHER -> "fed"
  <2>1. /\ link' = [link EXCEPT ![s] = state]
        /\ state = "closed" \/ state \in {"up", "fed"}
        /\ alive <=> state \in {"up", "fed"}
    BY DEF AcceptReturning, Established
  <2>2. 1 \in DOMAIN subscribers' /\ subscribers'[1].socket = s /\ subscribers'[1].connected
    BY <1>1, <1>2 DEF reconnect_old_sub, Client
  <2>. HIDE DEF state
  <2>. QED BY <2>1, <2>2, AcceptedLine
<1>5. /\ DOMAIN topics'[TheId] = DOMAIN topics[TheId]
      /\ \A j \in DOMAIN topics[TheId] : topics'[TheId][j] = Emptied(topics[TheId][j])
  BY <1>1, <1>2 DEF reconnect_old_sub, TypeOK
<1>6. ASSUME NEW j \in DOMAIN topics[TheId]
      PROVE  /\ topics'[TheId][j].name = topics[TheId][j].name
             /\ topics'[TheId][j].sf = topics[TheId][j].sf
             /\ topics'[TheId][j].tcps = <<>>
  <2>1. topics[TheId][j] \in Topic /\ topics'[TheId][j] = Emptied(topics[TheId][j])
    BY <1>2, <1>5, TopicType
  <2>. QED BY <2>1 DEF Emptied, Topic
<1>7. ASSUME NEW t \in RoomyNames
      PROVE  OptionOf(t)' = OptionOf(t) /\ Replayed(TheId, t)' = <<>>
  <2>1. TopicOf(TheId, t)' = TopicOf(TheId, t)
    BY <1>5, <1>6, RoomyFound, TopicOfSame
  <2>2. TopicOf(TheId, t) \subseteq DOMAIN topics[TheId]
    BY DEF TopicOf
  <2>3. OptionOf(t)' = OptionOf(t)
    BY <1>6, <2>1, <2>2, OptionSame
  <2>4. Replayed(TheId, t)' = <<>>
    BY <1>6, <2>1, <2>2 DEF Seen
  <2>. QED BY <2>3, <2>4
<1>8. LineOfId' \in {"listening", "ended"}
  BY <1>4
<1>9. ASSUME NEW t \in RoomyNames
      PROVE  received'[TheId][t] = IF LineOfId' = "listening"
                                   THEN received[TheId][t] \o Replayed(TheId, t)
                                   ELSE received[TheId][t]
  BY <1>1, <1>2, <1>4, RoomyFound DEF reconnect_old_sub, TypeOK
<1>10. published' = published
  BY DEF AcceptReturning
<1>. QED BY <1>3, <1>7, <1>8, <1>9, <1>10 DEF Box!Come

LEMMA EndOfFileIsLeave ==
  ASSUME LoneInv, LoneInv', NEW s \in ClientFds, EndOfFile(s)
  PROVE  Box!Leave
<1>. Seen /\ Seen' /\ TypeOK /\ TheId \in Ids
  BY LoneSeen, LoneSeenNext, TheOne DEF LoneInv, StoreInv, SocketInv
<1>1. /\ DOMAIN subscribers = {1}
      /\ subscribers[1] = [id |-> TheId, socket |-> s, connected |-> TRUE]
      /\ get_client_by_socket(s) = {1}
  BY WatchedIsOpen, OpenRecord DEF EndOfFile
<1>2. subscribers[1].connected
  <2>1. subscribers[1].connected = TRUE
    BY <1>1
  <2>. QED BY <2>1
<1>3. LineOfId = "ended"
  <2>1. ~ PeerOpen(s)
    BY DEF EndOfFile, PeerOpen
  <2>. QED BY <1>1, <1>2, <2>1 DEF Seen
<1>4. LineOfId' = "away"
  <2>1. DOMAIN subscribers' = {1} /\ ~ subscribers'[1].connected
    BY <1>1, OneRecord DEF EndOfFile, disconnect_client, Client
  <2>. QED BY <2>1 DEF Seen
<1>5. DOMAIN topics'[TheId] = DOMAIN topics[TheId]
  BY DisconnectTopics DEF EndOfFile
<1>6. ASSUME NEW j \in DOMAIN topics[TheId]
      PROVE  /\ topics'[TheId][j].name = topics[TheId][j].name
             /\ topics'[TheId][j].sf = topics[TheId][j].sf
             /\ topics'[TheId][j].tcps = topics[TheId][j].tcps
  <2>1. topics[TheId][j] \in Topic
    BY TopicType
  <2>2. topics[TheId][j].tcps = <<>>
    BY <1>1, <1>2 DEF LoneInv, StoreInv, StoreBounds, StoreFits, TopicsOfRecord
  <2>3. topics'[TheId][j] \in {topics[TheId][j], FreshArray(topics[TheId][j])}
    BY DisconnectTopics DEF EndOfFile
  <2>. QED BY <2>1, <2>2, <2>3 DEF FreshArray, Topic
<1>7. ASSUME NEW t \in RoomyNames
      PROVE  OptionOf(t)' = OptionOf(t) /\ Replayed(TheId, t)' = Replayed(TheId, t)
  <2>1. TopicOf(TheId, t)' = TopicOf(TheId, t) /\ TopicOf(TheId, t) \subseteq DOMAIN topics[TheId]
    BY <1>5, <1>6, RoomyFound, TopicOfSame DEF TopicOf
  <2>. QED BY <1>6, <2>1, OptionSame, ReplayedSame
<1>8. UNCHANGED <<received, published>>
  BY DEF EndOfFile
<1>. QED BY <1>3, <1>4, <1>7, <1>8 DEF Box!Leave

LEMMA ReplyKeepsLine ==
  ASSUME LoneInv, NEW s \in ClientFds, Reply(s) \/ UNCHANGED link
  PROVE  \A r \in ClientFds : PeerOpen(r)' <=> PeerOpen(r)
  BY DEF Reply, SendToGone, PeerOpen, LoneInv, StoreInv, SocketInv, TypeOK, FdTypeOK

(* The line while a command of the client is handled.                      *)
LEMMA CommandLine ==
  ASSUME LoneInv, NEW s \in ClientFds, Watched(s)
  PROVE  /\ LineOfId # "away" /\ TheId \in Ids
         /\ get_client_by_socket(s) = {1} /\ subscribers[1].id = TheId
<1>. Seen
  BY LoneSeen
<1>1. /\ DOMAIN subscribers = {1}
      /\ subscribers[1] = [id |-> TheId, socket |-> s, connected |-> TRUE]
      /\ get_client_by_socket(s) = {1}
  BY WatchedIsOpen, OpenRecord
<1>2. subscribers[1].connected = TRUE /\ subscribers[1].id = TheId
  BY <1>1
<1>3. LineOfId # "away"
  BY <1>1, <1>2 DEF Seen
<1>. QED BY <1>1, <1>2, <1>3, TheOne DEF LoneInv

LEMMA ChangeIsChoose ==
  ASSUME LoneInv, LoneInv', UNCHANGED <<subscribers, received, published>>,
         \A s \in ClientFds : PeerOpen(s)' <=> PeerOpen(s),
         LineOfId # "away", NEW t \in RoomyNames, OptionOf(t)' # "none",
         \A u \in RoomyNames : /\ Replayed(TheId, u)' = Replayed(TheId, u)
                               /\ u # t => OptionOf(u)' = OptionOf(u)
  PROVE  Box!Choose(t)
<1>1. LineOfId' = LineOfId
  BY LineSame
<1>2. \A u \in RoomyNames : OptionOf(u)' \in {"none", "plain", "kept"}
  BY LoneSeenNext DEF Seen
<1>. QED BY <1>1, <1>2 DEF Box!Choose

LEMMA SubscribeIsChoose ==
  ASSUME LoneInv, LoneInv', NEW s \in ClientFds, NEW t \in Topics, NEW sf \in SfInputs,
         Subscribe(s, t, sf)
  PROVE  (t \in RoomyNames /\ Box!Choose(t)) \/ UNCHANGED Box!vars
<1>. Seen /\ Seen' /\ TypeOK
  BY LoneSeen, LoneSeenNext DEF LoneInv, StoreInv, SocketInv
<1>1. /\ LineOfId # "away" /\ TheId \in Ids
      /\ get_client_by_socket(s) = {1} /\ subscribers[1].id = TheId
  BY CommandLine DEF Subscribe
<1>2. UNCHANGED <<subscribers, received, published>>
  BY DEF Subscribe
<1>3. \A r \in ClientFds : PeerOpen(r)' <=> PeerOpen(r)
  <2>1. Reply(s) \/ UNCHANGED link
    BY DEF Subscribe, subscribe_to_topic
  <2>. QED BY <2>1, ReplyKeepsLine
<1>4. \/ \E j \in KnownTopic(TheId, t, sf) : ChangeSf(TheId, j, sf)
      \/ /\ KnownTopic(TheId, t, sf) = {}
         /\ sf \in {0, 1}
         /\ topics' = [topics EXCEPT ![TheId] = Append(@, NewTopic(t, sf))]
      \/ UNCHANGED topics
  BY <1>1 DEF Subscribe, subscribe_to_topic
<1>5. CASE UNCHANGED topics
  BY <1>2, <1>3, <1>5, BoxStutters
<1>6. ASSUME t \in RoomyNames, NEW j \in KnownTopic(TheId, t, sf),
             topics' = [topics EXCEPT ![TheId][j].sf = sf]
      PROVE  Box!Choose(t)
  <2>1. j \in TopicOf(TheId, t) /\ j \in DOMAIN topics[TheId]
    BY DEF KnownTopic, Found, TopicOf
  <2>2. topics'[TheId] = [topics[TheId] EXCEPT ![j] = [topics[TheId][j] EXCEPT !.sf = sf]]
    BY <1>1, <1>6 DEF TypeOK
  <2>3. DOMAIN topics'[TheId] = DOMAIN topics[TheId]
    BY <2>2
  <2>4. ASSUME NEW k \in DOMAIN topics[TheId]
        PROVE  /\ topics'[TheId][k].name = topics[TheId][k].name
               /\ topics'[TheId][k].tcps = topics[TheId][k].tcps
               /\ k # j => topics'[TheId][k].sf = topics[TheId][k].sf
    <3>1. topics[TheId][k] \in Topic
      BY <1>1, TopicType
    <3>2. topics'[TheId][k] = IF k = j THEN [topics[TheId][k] EXCEPT !.sf = sf]
                              ELSE topics[TheId][k]
      BY <2>2
    <3>. QED BY <3>1, <3>2 DEF Topic
  <2>5. ASSUME NEW u \in RoomyNames
        PROVE  /\ TopicOf(TheId, u)' = TopicOf(TheId, u)
               /\ TopicOf(TheId, u) \subseteq DOMAIN topics[TheId]
               /\ u # t => j \notin TopicOf(TheId, u)
    BY <2>1, <2>3, <2>4, RoomyFound, TopicOfSame DEF TopicOf
  <2>6. ASSUME NEW u \in RoomyNames
        PROVE  /\ Replayed(TheId, u)' = Replayed(TheId, u)
               /\ u # t => OptionOf(u)' = OptionOf(u)
    <3>1. Replayed(TheId, u)' = Replayed(TheId, u)
      BY <2>4, <2>5, ReplayedSame
    <3>2. u # t => OptionOf(u)' = OptionOf(u)
      BY <2>4, <2>5, OptionSame
    <3>. QED BY <3>1, <3>2
  <2>7. OptionOf(t)' # "none"
    BY <1>6, <2>1, <2>5 DEF Seen
  <2>. QED BY <1>1, <1>2, <1>3, <1>6, <2>6, <2>7, ChangeIsChoose
<1>7. ASSUME t \in RoomyNames, KnownTopic(TheId, t, sf) = {},
             topics' = [topics EXCEPT ![TheId] = Append(@, NewTopic(t, sf))],
             sf \in {0, 1}
      PROVE  Box!Choose(t)
  <2>. DEFINE n == Len(topics[TheId])
  <2>1. topics[TheId] \in Seq(Topic)
    BY <1>1 DEF TypeOK
  <2>2. topics'[TheId] = Append(topics[TheId], NewTopic(t, sf))
    BY <1>1, <1>7 DEF TypeOK
  <2>3. /\ n \in Nat /\ DOMAIN topics[TheId] = 1 .. n
        /\ DOMAIN topics'[TheId] = 1 .. n + 1
        /\ \A k \in 1 .. n : topics'[TheId][k] = topics[TheId][k]
        /\ topics'[TheId][n + 1] = NewTopic(t, sf)
    <3>. HIDE DEF NewTopic
    <3>. QED BY <2>1, <2>2, AppendProperties, LenProperties
  <2>4. NewTopic(t, sf).name = t /\ NewTopic(t, sf).tcps = <<>>
    BY DEF NewTopic
  <2>5. \A j \in DOMAIN topics[TheId] : topics[TheId][j].name # t
    <3>1. Found(TheId, t, sf) = {}
      BY <1>1, <1>7, FirstIsKnown
    <3>2. TopicOf(TheId, t) = {}
      BY <1>7, <3>1, RoomyFound
    <3>. QED BY <3>2 DEF TopicOf
  <2>6. TopicOf(TheId, t) = {} /\ n + 1 \in TopicOf(TheId, t)'
    BY <2>3, <2>4, <2>5 DEF TopicOf
  <2>7. ASSUME NEW u \in RoomyNames, u # t
        PROVE  TopicOf(TheId, u)' = TopicOf(TheId, u) /\ TopicOf(TheId, u) \subseteq 1 .. n
    <3>1. \A k \in 1 .. n + 1 : k \in 1 .. n \/ k = n + 1
      BY <2>3
    <3>2. \A k \in 1 .. n : k \in 1 .. n + 1 /\ k # n + 1
      BY <2>3
    <3>. HIDE DEF n
    <3>. QED BY <2>3, <2>4, <2>7, <3>1, <3>2 DEF TopicOf
  <2>8. Replayed(TheId, t)' = Replayed(TheId, t) /\ OptionOf(t)' # "none"
    BY <1>7, <2>3, <2>4, <2>6 DEF Seen
  <2>9. ASSUME NEW u \in RoomyNames, u # t
        PROVE  Replayed(TheId, u)' = Replayed(TheId, u) /\ OptionOf(u)' = OptionOf(u)
    <3>1. \A k \in TopicOf(TheId, u) : topics'[TheId][k] = topics[TheId][k]
      BY <2>3, <2>7, <2>9
    <3>. QED BY <2>7, <2>9, <3>1, OptionSame, ReplayedSame
  <2>. QED BY <1>1, <1>2, <1>3, <1>7, <2>8, <2>9, ChangeIsChoose
<1>8. CASE t \notin RoomyNames
  <2>1. ASSUME NEW u \in RoomyNames
        PROVE  /\ TopicOf(TheId, u)' = TopicOf(TheId, u)
               /\ \A j \in TopicOf(TheId, u) : topics'[TheId][j] = topics[TheId][j]
    <3>1. u # t
      BY <1>8
    <3>2. ASSUME NEW j \in KnownTopic(TheId, t, sf),
                 topics' = [topics EXCEPT ![TheId][j].sf = sf]
          PROVE  /\ TopicOf(TheId, u)' = TopicOf(TheId, u)
                 /\ \A k \in TopicOf(TheId, u) : topics'[TheId][k] = topics[TheId][k]
      <4>1. j \in DOMAIN topics[TheId] /\ topics[TheId][j].name = t
        BY DEF KnownTopic, Found, TopicOf
      <4>2. topics'[TheId] = [topics[TheId] EXCEPT ![j] = [topics[TheId][j] EXCEPT !.sf = sf]]
        BY <1>1, <3>2 DEF TypeOK
      <4>3. DOMAIN topics'[TheId] = DOMAIN topics[TheId]
        BY <4>2
      <4>4. topics'[TheId][j].name = t
        <5>1. topics[TheId][j] \in Topic
          BY <1>1, <4>1, TopicType
        <5>2. topics'[TheId][j] = [topics[TheId][j] EXCEPT !.sf = sf]
          BY <4>1, <4>2
        <5>. QED BY <4>1, <5>1, <5>2 DEF Topic
      <4>5. \A k \in DOMAIN topics[TheId] : k # j => topics'[TheId][k] = topics[TheId][k]
        BY <4>2
      <4>. QED BY <3>1, <4>1, <4>3, <4>4, <4>5 DEF TopicOf
    <3>3. ASSUME topics' = [topics EXCEPT ![TheId] = Append(@, NewTopic(t, sf))], sf \in {0, 1}
          PROVE  /\ TopicOf(TheId, u)' = TopicOf(TheId, u)
                 /\ \A k \in TopicOf(TheId, u) : topics'[TheId][k] = topics[TheId][k]
      <4>. DEFINE n == Len(topics[TheId])
      <4>1. topics[TheId] \in Seq(Topic)
        BY <1>1 DEF TypeOK
      <4>2. topics'[TheId] = Append(topics[TheId], NewTopic(t, sf))
        BY <1>1, <3>3 DEF TypeOK
      <4>3. /\ n \in Nat /\ DOMAIN topics[TheId] = 1 .. n
            /\ DOMAIN topics'[TheId] = 1 .. n + 1
            /\ \A k \in 1 .. n : topics'[TheId][k] = topics[TheId][k]
            /\ topics'[TheId][n + 1] = NewTopic(t, sf)
        <5>. HIDE DEF NewTopic
        <5>. QED BY <4>1, <4>2, AppendProperties, LenProperties
      <4>4. topics'[TheId][n + 1].name # u
        BY <3>1, <4>3 DEF NewTopic
      <4>5. \A k \in 1 .. n + 1 : k \in 1 .. n \/ k = n + 1
        BY <4>3
      <4>6. \A k \in 1 .. n : k \in 1 .. n + 1
        BY <4>3
      <4>. HIDE DEF n
      <4>. QED BY <4>3, <4>4, <4>5, <4>6 DEF TopicOf
    <3>4. CASE UNCHANGED topics
      BY <3>4 DEF TopicOf
    <3>. QED BY <1>4, <3>2, <3>3, <3>4 DEF ChangeSf
  <2>. QED BY <1>2, <1>3, <2>1, UnseenStutters
<1>. QED BY <1>4, <1>5, <1>6, <1>7, <1>8 DEF ChangeSf

(* A topic that is unsubscribed is sent and stored as before, and the      *)
(* mailbox sees nothing (utils.c:251).                                    *)
LEMMA UnsubscribeStutters ==
  ASSUME LoneInv, LoneInv', NEW s \in ClientFds, NEW t \in Topics, Unsubscribe(s, t)
  PROVE  UNCHANGED Box!vars
<1>. TypeOK /\ TheId \in Ids
  BY TheOne DEF LoneInv, StoreInv, SocketInv
<1>1. unsubscribe_from_topic(t, s) /\ UNCHANGED <<subscribers, received, published>>
  BY DEF Unsubscribe
<1>2. Reply(s) \/ UNCHANGED link
  BY DEF Unsubscribe, unsubscribe_from_topic
<1>3. DOMAIN topics'[TheId] = DOMAIN topics[TheId]
  BY <1>1, UnsubscribeTopics
<1>4. ASSUME NEW j \in DOMAIN topics[TheId]
      PROVE  /\ topics'[TheId][j].name = topics[TheId][j].name
             /\ topics'[TheId][j].sf = topics[TheId][j].sf
             /\ topics'[TheId][j].tcps = topics[TheId][j].tcps
  <2>1. topics[TheId][j] \in Topic
    BY TopicType
  <2>2. topics'[TheId][j] \in {topics[TheId][j], [topics[TheId][j] EXCEPT !.subscribed = FALSE]}
    BY <1>1, UnsubscribeTopics
  <2>. QED BY <2>1, <2>2 DEF Topic
<1>. QED BY <1>1, <1>2, <1>3, <1>4, ReplyKeepsLine, BoxStutters

(* How many copies of a message reach the client, and where it is stored,  *)
(* when the first `upto` records are served.                               *)
LEMMA LoneCopies ==
  ASSUME LoneInv, NEW t \in RoomyNames, NEW upto \in {0, Len(subscribers)}
  PROVE  Copies(TheId, t, upto) =
           IF upto # 0 /\ LineOfId = "listening" /\ TopicOf(TheId, t) # {} THEN 1 ELSE 0
<1>. Seen /\ TypeOK
  BY LoneSeen DEF LoneInv, StoreInv, SocketInv
<1>. DEFINE reached == {i \in 1 .. upto : /\ Sends(i, t)
                                          /\ PeerOpen(subscribers[i].socket)
                                          /\ peer[subscribers[i].socket] = TheId}
<1>1. DOMAIN subscribers = 1 .. Len(subscribers) /\ Len(subscribers) \in Nat
  BY LenProperties DEF TypeOK
<1>2. reached \subseteq DOMAIN subscribers
  <2>1. 1 .. upto \subseteq DOMAIN subscribers
    BY LenProperties DEF TypeOK
  <2>. QED BY <2>1
<1>3. Copies(TheId, t, upto) = Cardinality(reached)
  BY DEF Copies
<1>4. CASE upto # 0 /\ LineOfId = "listening" /\ TopicOf(TheId, t) # {}
  <2>1. PICK i \in DOMAIN subscribers : subscribers[i].connected
    BY <1>4 DEF Seen
  <2>2. i = 1 /\ DOMAIN subscribers = {1} /\ subscribers[1].id = TheId
    BY OneRecord
  <2>3. PeerOpen(subscribers[1].socket)
    BY <1>4, <2>1, <2>2 DEF Seen
  <2>4. peer[subscribers[1].socket] = TheId
    BY <2>1, <2>2 DEF LoneInv, ConnectedIsTrue
  <2>5. Sends(1, t)
    BY <1>4, <2>1, <2>2, RoomyFound DEF Sends
  <2>6. 1 .. upto = {1}
    BY <1>1, <1>4, <2>2
  <2>7. reached = {1}
    BY <2>3, <2>4, <2>5, <2>6
  <2>8. Cardinality({1}) = 1
    BY FS_Singleton
  <2>. HIDE DEF reached
  <2>. QED BY <1>3, <1>4, <2>7, <2>8
<1>5. CASE ~ (upto # 0 /\ LineOfId = "listening" /\ TopicOf(TheId, t) # {})
  <2>1. reached = {}
    <3>. SUFFICES ASSUME NEW i \in reached PROVE FALSE
      OBVIOUS
    <3>1. i \in DOMAIN subscribers /\ i \in 1 .. upto
      BY <1>2
    <3>2. subscribers[i].id = TheId
      BY <3>1, OneRecord
    <3>3. subscribers[i].connected /\ TopicOf(TheId, t) # {}
      BY <3>2, RoomyFound DEF Sends
    <3>4. LineOfId = "listening"
      BY <3>1, <3>3 DEF Seen
    <3>5. upto # 0
      BY <3>1
    <3>. QED BY <1>5, <3>3, <3>4, <3>5
  <2>2. Cardinality({}) = 0
    BY FS_EmptySet
  <2>. HIDE DEF reached
  <2>. QED BY <1>3, <1>5, <2>1, <2>2
<1>. QED BY <1>4, <1>5

LEMMA LoneSlot ==
  ASSUME LoneInv, NEW t \in RoomyNames, NEW i \in DOMAIN subscribers
  PROVE  StoreSlot(i, t) = IF LineOfId = "away" /\ OptionOf(t) = "kept"
                           THEN TopicOf(TheId, t) ELSE {}
<1>. Seen /\ TypeOK /\ TheId \in Ids
  BY LoneSeen, TheOne DEF LoneInv, StoreInv, SocketInv
<1>1. i = 1 /\ DOMAIN subscribers = {1} /\ subscribers[1].id = TheId
  BY OneRecord
<1>2. subscribers[i].connected <=> LineOfId # "away"
  BY <1>1 DEF Seen
<1>3. CASE TopicOf(TheId, t) = {}
  BY <1>1, <1>3, RoomyFound DEF StoreSlot
<1>4. ASSUME NEW j \in TopicOf(TheId, t)
      PROVE  StoreSlot(i, t) = IF LineOfId = "away" /\ OptionOf(t) = "kept"
                               THEN TopicOf(TheId, t) ELSE {}
  <2>1. /\ TopicOf(TheId, t) = {j}
        /\ OptionOf(t) = IF topics[TheId][j].sf = 1 THEN "kept" ELSE "plain"
    BY <1>4 DEF Seen
  <2>2. j >= j
    BY <1>4, TopicType DEF TopicOf
  <2>3. Found(TheId, t, 0) = {j}
    BY <2>1, RoomyFound
  <2>. QED BY <1>1, <1>2, <2>1, <2>2, <2>3 DEF StoreSlot, TopicsOfRecord
<1>. QED BY <1>3, <1>4

(* Storing can do no harm. *)
LEMMA LoneNoStoreFault ==
  ASSUME LoneInv, NEW t \in Topics, NEW i \in DOMAIN subscribers
  PROVE  StoreFaults(i, t) = {}
<1>. SUFFICES ASSUME NEW j \in StoreSlot(i, t)
              PROVE  TopicsOfRecord(i)[j].block = "live"
  BY DEF StoreFaults
<1>1. ~ subscribers[i].connected /\ TopicsOfRecord(i)[j].sf = 1 /\ j \in DOMAIN TopicsOfRecord(i)
  BY DEF StoreSlot, Found, TopicOf, TopicsOfRecord
<1>. QED BY <1>1 DEF LoneInv, StoreReady

(* A Deliver to all records or to none is what the mailbox does, once the  *)
(* line is known not to be one that would have had its part.               *)
LEMMA DeliverIsPublish ==
  ASSUME LoneInv, LoneInv', NEW t \in RoomyNames, NEW upto \in {0, Len(subscribers)},
         published < MaxMsgs, published + 1 \in Msgs, published' = published + 1,
         Deliver(t, published + 1, upto), UNCHANGED subscribers,
         upto = 0 /\ DOMAIN subscribers # {} => LineOfId = "ended"
  PROVE  Box!Publish(t)
<1>. Seen /\ Seen' /\ TypeOK /\ TheId \in Ids
  BY LoneSeen, LoneSeenNext, TheOne DEF LoneInv, StoreInv, SocketInv
<1>. t \in Topics
  BY RoomyFound
<1>. DEFINE n == published + 1
<1>0. /\ DOMAIN subscribers = 1 .. Len(subscribers) /\ Len(subscribers) \in Nat
      /\ upto \in Nat /\ 1 .. upto \subseteq DOMAIN subscribers
  BY LenProperties DEF TypeOK
<1>1. \A s \in ClientFds : PeerOpen(s)' <=> PeerOpen(s)
  BY DEF Deliver, PeerOpen, TypeOK, FdTypeOK
<1>2. LineOfId' = LineOfId
  BY <1>1, LineSame
<1>3. LineOfId = "listening" => DOMAIN subscribers # {}
  BY DEF Seen
<1>4. Copies(TheId, t, upto) =
        IF LineOfId = "listening" /\ OptionOf(t) # "none" THEN 1 ELSE 0
  <2>1. TopicOf(TheId, t) # {} <=> OptionOf(t) # "none"
    BY DEF Seen
  <2>2. LineOfId = "listening" => upto # 0
    BY <1>3
  <2>. QED BY <2>1, <2>2, LoneCopies
<1>5. received'[TheId] = IF LineOfId = "listening" /\ OptionOf(t) # "none"
                         THEN [received[TheId] EXCEPT ![t] = Append(@, n)]
                         ELSE received[TheId]
  <2>1. received[TheId] \in [Topics -> Seq(Msgs)] /\ received[TheId][t] \in Seq(Msgs)
    BY DEF TypeOK
  <2>2. received'[TheId] = [received[TheId] EXCEPT
          ![t] = @ \o [c \in 1 .. Copies(TheId, t, upto) |-> n]]
    BY DEF Deliver
  <2>3. CASE LineOfId = "listening" /\ OptionOf(t) # "none"
    <3>1. [c \in 1 .. 1 |-> n] = <<n>>
      OBVIOUS
    <3>2. received[TheId][t] \o <<n>> = Append(received[TheId][t], n)
      BY <2>1, AppendIsConcat
    <3>. QED BY <1>4, <2>2, <2>3, <3>1, <3>2
  <2>4. CASE ~ (LineOfId = "listening" /\ OptionOf(t) # "none")
    <3>1. [c \in 1 .. 0 |-> n] = <<>>
      OBVIOUS
    <3>2. received[TheId][t] \o <<>> = received[TheId][t]
      BY <2>1, ConcatEmptySeq
    <3>. QED BY <1>4, <2>1, <2>2, <2>4, <3>1, <3>2
  <2>. QED BY <2>3, <2>4
<1>6. DOMAIN topics'[TheId] = DOMAIN topics[TheId]
  BY DEF Deliver
<1>7. ASSUME NEW j \in DOMAIN topics[TheId]
      PROVE  topics'[TheId][j] =
               IF /\ LineOfId = "away" /\ OptionOf(t) = "kept"
                  /\ j \in TopicOf(TheId, t)
               THEN store_tcp_msg_to_unconn_client(topics[TheId][j], n)
               ELSE topics[TheId][j]
  <2>1. topics'[TheId][j] =
          IF \E i \in 1 .. upto : subscribers[i].id = TheId /\ j \in StoreSlot(i, t)
          THEN store_tcp_msg_to_unconn_client(topics[TheId][j], n)
          ELSE topics[TheId][j]
    BY DEF Deliver
  <2>2. DOMAIN subscribers # {}
    BY DEF LoneInv, NothingBeforeRecord
  <2>3. DOMAIN subscribers = {1} /\ subscribers[1].id = TheId
    BY <2>2, OneRecord
  <2>4. LineOfId = "away" => 1 \in 1 .. upto
    BY <1>0, <2>2, <2>3
  <2>. QED BY <1>0, <2>1, <2>3, <2>4, LoneSlot
<1>8. ASSUME NEW j \in DOMAIN topics[TheId]
      PROVE  /\ topics'[TheId][j].name = topics[TheId][j].name
             /\ topics'[TheId][j].sf = topics[TheId][j].sf
             /\ topics'[TheId][j].tcps =
                  IF /\ LineOfId = "away" /\ OptionOf(t) = "kept"
                     /\ j \in TopicOf(TheId, t)
                  THEN Append(topics[TheId][j].tcps, n)
                  ELSE topics[TheId][j].tcps
  <2>1. topics[TheId][j] \in Topic
    BY TopicType
  <2>2. /\ store_tcp_msg_to_unconn_client(topics[TheId][j], n).name = topics[TheId][j].name
        /\ store_tcp_msg_to_unconn_client(topics[TheId][j], n).sf = topics[TheId][j].sf
        /\ store_tcp_msg_to_unconn_client(topics[TheId][j], n).tcps =
             Append(topics[TheId][j].tcps, n)
    BY <2>1 DEF store_tcp_msg_to_unconn_client, Topic
  <2>. QED BY <1>7, <2>2
<1>9. ASSUME NEW u \in RoomyNames
      PROVE  /\ TopicOf(TheId, u)' = TopicOf(TheId, u)
             /\ TopicOf(TheId, u) \subseteq DOMAIN topics[TheId]
             /\ OptionOf(u)' = OptionOf(u)
  <2>1. TopicOf(TheId, u)' = TopicOf(TheId, u)
    BY <1>6, <1>8, RoomyFound, TopicOfSame
  <2>2. TopicOf(TheId, u) \subseteq DOMAIN topics[TheId]
    BY DEF TopicOf
  <2>. QED BY <1>8, <2>1, <2>2, OptionSame
<1>10. ASSUME NEW u \in RoomyNames
       PROVE  Replayed(TheId, u)' =
                IF LineOfId = "away" /\ OptionOf(t) = "kept" /\ u = t
                THEN Append(Replayed(TheId, u), n) ELSE Replayed(TheId, u)
  <2>1. CASE LineOfId = "away" /\ OptionOf(t) = "kept" /\ u = t
    <3>1. PICK j \in TopicOf(TheId, t) : TRUE
      BY <2>1 DEF Seen
    <3>2. Replayed(TheId, t) = topics[TheId][j].tcps
      BY DEF Seen
    <3>3. Replayed(TheId, t)' = topics'[TheId][j].tcps
      BY <1>9 DEF Seen
    <3>4. topics'[TheId][j].tcps = Append(topics[TheId][j].tcps, n)
      BY <1>8, <1>9, <2>1
    <3>. QED BY <2>1, <3>2, <3>3, <3>4
  <2>2. CASE ~ (LineOfId = "away" /\ OptionOf(t) = "kept" /\ u = t)
    <3>1. ASSUME NEW j \in TopicOf(TheId, u)
          PROVE  topics'[TheId][j].tcps = topics[TheId][j].tcps
      <4>1. u # t => j \notin TopicOf(TheId, t)
        BY <3>1 DEF TopicOf
      <4>. QED BY <1>8, <1>9, <2>2, <4>1
    <3>. QED BY <1>9, <2>2, <3>1, ReplayedSame
  <2>. QED BY <2>1, <2>2
<1>11. ASSUME NEW u \in RoomyNames
       PROVE  received'[TheId][u] =
                IF LineOfId = "listening" /\ OptionOf(t) # "none" /\ u = t
                THEN Append(received[TheId][u], n) ELSE received[TheId][u]
  BY <1>5, RoomyFound DEF TypeOK
<1>. QED BY <1>2, <1>9, <1>10, <1>11 DEF Box!Publish

(* The mailbox does not see a message of a full name, which is stored      *)
(* nowhere: only what has SF 0 is found, and only what has SF 1 stores.    *)
LEMMA DeliverElsewhere ==
  ASSUME LoneInv, LoneInv', NEW t \in Topics, t \notin RoomyNames, NEW upto \in Nat,
         published < MaxMsgs, published' = published + 1,
         Deliver(t, published + 1, upto), UNCHANGED subscribers
  PROVE  Box!PublishElsewhere
<1>. TypeOK /\ TheId \in Ids
  BY TheOne DEF LoneInv, StoreInv, SocketInv
<1>1. \A s \in ClientFds : PeerOpen(s)' <=> PeerOpen(s)
  BY DEF Deliver, PeerOpen, TypeOK, FdTypeOK
<1>2. LineOfId' = LineOfId
  BY <1>1, LineSame
<1>3. \A i : StoreSlot(i, t) = {}
  BY DEF StoreSlot, Found, RoomyNames, TopicsOfRecord
<1>4. /\ DOMAIN topics'[TheId] = DOMAIN topics[TheId]
      /\ \A j \in DOMAIN topics[TheId] : topics'[TheId][j] = topics[TheId][j]
  BY <1>3 DEF Deliver
<1>5. ASSUME NEW u \in RoomyNames
      PROVE  /\ OptionOf(u)' = OptionOf(u)
             /\ Replayed(TheId, u)' = Replayed(TheId, u)
             /\ received'[TheId][u] = received[TheId][u]
  <2>1. /\ TopicOf(TheId, u)' = TopicOf(TheId, u)
        /\ TopicOf(TheId, u) \subseteq DOMAIN topics[TheId]
    BY <1>4, RoomyFound, TopicOfSame DEF TopicOf
  <2>2. OptionOf(u)' = OptionOf(u) /\ Replayed(TheId, u)' = Replayed(TheId, u)
    BY <1>4, <2>1, OptionSame, ReplayedSame
  <2>3. u # t /\ u \in Topics
    BY RoomyFound
  <2>4. received'[TheId][u] = received[TheId][u]
    BY <2>3 DEF Deliver, TypeOK
  <2>. QED BY <2>2, <2>4
<1>. QED BY <1>2, <1>5 DEF Box!PublishElsewhere

LEMMA DatagramIsPublish ==
  ASSUME LoneInv, LoneInv', NEW t \in Topics, UdpMessage(t) \/ UdpMessageFails(t)
  PROVE  (t \in RoomyNames /\ Box!Publish(t)) \/ Box!PublishElsewhere
<1>. Seen /\ TypeOK
  BY LoneSeen DEF LoneInv, StoreInv, SocketInv
<1>1. /\ published < MaxMsgs /\ published + 1 \in Msgs /\ published' = published + 1
      /\ UNCHANGED subscribers
  BY DeliverArguments DEF UdpMessage, UdpMessageFails
<1>2. CASE UdpMessage(t)
  <2>1. Len(subscribers) = 0 => DOMAIN subscribers = {}
    BY LenProperties DEF TypeOK
  <2>2. Deliver(t, published + 1, Len(subscribers))
    BY <1>2 DEF UdpMessage
  <2>3. Len(subscribers) \in Nat
    BY LenProperties DEF TypeOK
  <2>. QED BY <1>1, <2>1, <2>2, <2>3, DeliverIsPublish, DeliverElsewhere
<1>3. CASE UdpMessageFails(t)
  <2>1. PICK k \in DOMAIN subscribers :
          /\ status' \in SendFaults(k, t) \union StoreFaults(k, t)
          /\ Deliver(t, published + 1, k - 1)
    BY <1>3 DEF UdpMessageFails
  <2>2. SendFaults(k, t) # {}
    BY <2>1, LoneNoStoreFault
  <2>3. k = 1 /\ k - 1 = 0
    BY OneRecord
  <2>4. subscribers[k].connected /\ ~ PeerOpen(subscribers[k].socket)
    BY <2>2 DEF SendFaults, Sends, PeerOpen
  <2>5. LineOfId = "ended"
    BY <2>4 DEF Seen
  <2>. QED BY <1>1, <2>1, <2>3, <2>5, DeliverIsPublish, DeliverElsewhere
<1>. QED BY <1>2, <1>3

LEMMA UnheardIsPublish ==
  ASSUME LoneInv, LoneInv', NEW t \in Topics, UdpUnheard(t)
  PROVE  Box!PublishElsewhere
<1>1. /\ published < MaxMsgs /\ published' = published + 1
      /\ UNCHANGED <<subscribers, topics, received, link>>
  BY DEF UdpUnheard, fdVars
<1>2. LineOfId' = LineOfId
  BY <1>1, LineSame DEF PeerOpen
<1>3. ASSUME NEW u \in RoomyNames
      PROVE  OptionOf(u)' = OptionOf(u) /\ Replayed(TheId, u)' = Replayed(TheId, u)
  <2>1. TopicOf(TheId, u)' = TopicOf(TheId, u)
    BY <1>1 DEF TopicOf
  <2>. QED BY <1>1, <2>1, OptionSame, ReplayedSame
<1>. QED BY <1>1, <1>2, <1>3 DEF Box!PublishElsewhere

-----------------------------------------------------------------------------
(* Every step of the broker is a step of the mailbox, or one it does not   *)
(* see.                                                                    *)
LEMMA BoxStep == LoneInv /\ LoneInv' /\ [Next]_vars => [Box!Next]_(Box!vars)
<1>. SUFFICES ASSUME LoneInv, LoneInv', [Next]_vars
              PROVE  Box!Next \/ UNCHANGED Box!vars
  OBVIOUS
<1>1. CASE UNCHANGED <<subscribers, topics, received, published, link>>
  BY <1>1, BoxStutters DEF PeerOpen
<1>2. ASSUME NEW s \in ClientFds, ClientCloses(s) PROVE Box!Next
  BY <1>2, ClosesIsEnd DEF Box!Next
<1>3. ASSUME NEW id \in Ids, NEW s \in ClientFds, NEW alive \in BOOLEAN,
             AcceptNew(id, s, alive) \/ AcceptReturning(id, s, alive)
      PROVE  Box!Next
  BY <1>3, AcceptNewIsCome, AcceptReturningIsCome DEF Box!Next
<1>4. ASSUME NEW s \in ClientFds, EndOfFile(s) PROVE Box!Next
  BY <1>4, EndOfFileIsLeave DEF Box!Next
<1>5. ASSUME NEW s \in ClientFds, NEW t \in Topics, NEW sf \in SfInputs,
             Subscribe(s, t, sf)
      PROVE  Box!Next \/ UNCHANGED Box!vars
  BY <1>5, SubscribeIsChoose DEF Box!Next
<1>6. ASSUME NEW t \in Topics, UdpMessage(t) \/ UdpMessageFails(t)
      PROVE  Box!Next
  BY <1>6, DatagramIsPublish DEF Box!Next
<1>8. ASSUME NEW t \in Topics, UdpUnheard(t) PROVE Box!Next
  BY <1>8, UnheardIsPublish DEF Box!Next
<1>7. ASSUME NEW id \in Ids, NEW s \in ClientFds, NEW alive \in BOOLEAN,
             AcceptDuplicate(id, s, alive)
      PROVE  UNCHANGED <<subscribers, topics, received, published, link>>
  BY <1>7 DEF AcceptDuplicate, SendToGone
<1>. QED BY <1>1, <1>2, <1>3, <1>4, <1>5, <1>6, <1>7, <1>8, UnsubscribeStutters
         DEF Next, ClientNext, AcceptNext, CommandNext, DatagramNext, vars, fdVars,
             ReplayFails, RecvFails, MalformedDatagram, CallFails, ExitCommand

LEMMA BoxInit == OneIdentifier /\ Init => Box!Init
<1>. SUFFICES ASSUME OneIdentifier, Init PROVE Box!Init
  OBVIOUS
<1>. TheId \in Ids
  BY TheOne
<1>1. /\ DOMAIN subscribers = {} /\ topics[TheId] = <<>> /\ published = 0
      /\ received[TheId] = [t \in Topics |-> <<>>]
  BY DEF Init
<1>2. LineOfId = "away"
  BY <1>1 DEF LineOfId, ConnectedRecord, get_client_by_id
<1>3. ASSUME NEW t \in RoomyNames
      PROVE  OptionOf(t) = "none" /\ Replayed(TheId, t) = <<>>
  <2>1. TopicOf(TheId, t) = {}
    BY <1>1 DEF TopicOf
  <2>. QED BY <2>1 DEF OptionOf, Replayed, Keeping
<1>. QED BY <1>1, <1>2, <1>3, RoomyFound DEF Box!Init

(***************************************************************************)
(* While one identifier is in use, the broker implements the mailbox: a    *)
(* message is delivered at once, or kept and delivered before anything     *)
(* newer, and what is lost is lost between the end of the process and the  *)
(* end-of-file (send_tcp_msg, reconnect_old_sub, disconnect_client).       *)
(***************************************************************************)
THEOREM LoneImplementsMailbox == OneIdentifier => (Spec => ImplementsMailbox)
  BY LoneInvariant, BoxInit, BoxStep, PTL DEF Spec, ImplementsMailbox, Box!Spec

=============================================================================
