------------------------------- MODULE Server -------------------------------
(***************************************************************************)
(* The message broker: `main` of server.c and the handlers of utils.c that *)
(* it runs.  One process, one thread; select() decides which descriptor is *)
(* served next and every handler runs to its end before the next one, so a *)
(* handler is one action.  The order in which one call of select() serves  *)
(* the descriptors it found ready is left open: any ready descriptor in    *)
(* 0 .. fdmax may be next.                                                 *)
(*                                                                         *)
(* The environment is the subscribers' processes (they connect, send       *)
(* commands, leave) and the publishers (they send datagrams).              *)
(*                                                                         *)
(* The program uses C memory by hand.  The model follows what the          *)
(* properties depend on: which stored messages have been freed, and        *)
(* whether the array a topic keeps them in is NULL, allocated or freed.    *)
(* An access that C leaves undefined ends the behaviour with status        *)
(* "undefined": nothing is claimed about what follows it.                  *)
(***************************************************************************)
EXTENDS FdTable, Sequences, FiniteSets, SequencesExt

CONSTANTS
  Ids,                 \* identifiers the subscribers announce
  NoId,                \* the far end of a descriptor that is not open
  Topics,              \* topic names
  FullNames,           \* those of 50 characters, which fill their field
  verbose,             \* the server's optional argument
  INITIAL_MAX_TCPS,
  INITIAL_MAX_TOPICS,
  MaxMsgs,             \* bound: datagrams the publishers send
  MaxTopics            \* bound: Topic records of one client

ASSUME ServerAssumption ==
  /\ NoId \notin Ids
  /\ FullNames \subseteq Topics
  /\ verbose \in BOOLEAN
  /\ INITIAL_MAX_TCPS \in Nat \ {0}
  /\ INITIAL_MAX_TOPICS \in Nat \ {0}
  /\ MaxMsgs \in Nat
  /\ MaxTopics \in Nat

VARIABLES
  subscribers,  \* the list of Client records, in order of first connection
  topics,       \* per client, its list of Topic records
  freed,        \* messages whose memory has been returned to the allocator
  published,    \* how many well-formed datagrams have arrived
  peer,         \* the identifier announced by the process behind each socket
  received,     \* per identifier and topic, the messages that have reached it
  status        \* how the server process is

vars == <<fdVars, subscribers, topics, freed, published, peer, received, status>>

(* A message is known by the number of its datagram. *)
Msgs == 1 .. MaxMsgs

Client == [id : Ids, socket : ClientFds, connected : BOOLEAN]

(***************************************************************************)
(* num_of_tcps is Len(tcps); block says what the pointer `tcps` refers to  *)
(* and cap how many slots were allocated there.                            *)
(***************************************************************************)
Topic == [name : Topics, sf : {0, 1}, subscribed : BOOLEAN,
          tcps : Seq(Msgs), max_tcps : Nat \ {0},
          block : {"null", "live", "freed"}, cap : Nat]

(***************************************************************************)
(* "exited": returned from main; "died": stopped by DIE; "killed": by      *)
(* SIGPIPE or SIGSEGV; "undefined": has used memory it had freed.          *)
(***************************************************************************)
Statuses == {"running", "exited", "died", "killed", "undefined"}

(* The values of an SF argument that the code tells apart: 2 is any other. *)
SfInputs == 0 .. 2

TypeOK ==
  /\ FdTypeOK
  /\ subscribers \in Seq(Client)
  /\ topics \in [Ids -> Seq(Topic)]
  /\ freed \subseteq Msgs
  /\ published \in 0 .. MaxMsgs
  /\ peer \in [ClientFds -> Ids \union {NoId}]
  /\ received \in [Ids -> [Topics -> Seq(Msgs)]]
  /\ status \in Statuses

Init ==
  /\ FdInit
  /\ subscribers = <<>>
  /\ topics = [id \in Ids |-> <<>>]
  /\ freed = {}
  /\ published = 0
  /\ peer = [s \in ClientFds |-> NoId]
  /\ received = [id \in Ids |-> [t \in Topics |-> <<>>]]
  /\ status = "running"

-----------------------------------------------------------------------------
(* Lookups.  Each returns the position of the first match, or the empty    *)
(* set for NULL.                                                           *)

(* A faulty form: a search that ends one record early. *)
ById_SkipsLast(id) ==
  {i \in 1 .. Len(subscribers) - 1 :
     /\ subscribers[i].id = id
     /\ \A k \in 1 .. i - 1 : subscribers[k].id # id}

get_client_by_id(id) ==
  {i \in DOMAIN subscribers :
     /\ subscribers[i].id = id
     /\ \A k \in 1 .. i - 1 : subscribers[k].id # id}

(* A faulty form: the first connected record, on whatever socket. *)
BySocket_AnyConnected(sock) ==
  {i \in DOMAIN subscribers :
     /\ subscribers[i].connected
     /\ \A k \in 1 .. i - 1 : ~subscribers[k].connected}

get_client_by_socket(sock) ==
  {i \in DOMAIN subscribers :
     /\ subscribers[i].socket = sock
     /\ \A k \in 1 .. i - 1 : subscribers[k].socket # sock}

(* The positions at which client id has a topic named t. *)
TopicOf(id, t) == {j \in DOMAIN topics[id] : topics[id][j].name = t}

(***************************************************************************)
(* Where strcmp() finds t among the names of client id.  Behind a full     *)
(* name it goes on: in the record with sf and subscribed, in what it is    *)
(* compared with by the byte given here as sf.  A byte of 0 ends both      *)
(* strings, any other ends neither, and nothing follows it in an Action.   *)
(***************************************************************************)
Found(id, t, sf) ==
  {j \in TopicOf(id, t) : t \in FullNames =>
     topics[id][j].sf = sf /\ (sf = 0 \/ ~topics[id][j].subscribed)}

StoredFor(id) == UNION {ToSet(topics[id][j].tcps) : j \in DOMAIN topics[id]}

(* The far end of socket s answers the first send() with a reset: the      *)
(* second one raises SIGPIPE unless the reset is still on its way.         *)
SendToGone(s) == status' \in {"running", "killed"} /\ UNCHANGED link

(* respose_with_err_msg, which is called when `verbose` is set. *)
Reply(s) ==
  \/ /\ verbose
     /\ IF PeerOpen(s)
        THEN link' = [link EXCEPT ![s] = "fed"] /\ UNCHANGED status
        ELSE SendToGone(s)
  \/ /\ ~verbose
     /\ UNCHANGED <<link, status>>

Running == status = "running"

-----------------------------------------------------------------------------
(* Subscribers' processes. *)

(***************************************************************************)
(* The process behind socket s ends or closes its socket.  If the server   *)
(* has sent it something, some of it may be unread.                        *)
(***************************************************************************)
ClientCloses(s) ==
  /\ Running
  /\ PeerOpen(s)
  /\ \/ link' = [link EXCEPT ![s] = "closed"]
     \/ /\ link[s] = "fed"
        /\ link' = [link EXCEPT ![s] = "reset"]
  /\ UNCHANGED <<read_fds, fdmax, prev_fdmax, subscribers, topics, freed,
                 published, peer, received, status>>

-----------------------------------------------------------------------------
(* The listening socket is ready: accept(), then the first recv() on the   *)
(* new socket s, which gives the identifier.  `alive` is FALSE when the    *)
(* process has connected, sent its identifier and ended already.           *)

Established(id, s, state) ==
  /\ link' = [link EXCEPT ![s] = state]
  /\ peer' = [peer EXCEPT ![s] = id]

add_new_client(id, s) ==
  /\ subscribers' = Append(subscribers, [id |-> id, socket |-> s, connected |-> TRUE])
  /\ topics' = [topics EXCEPT ![id] = <<>>]

AcceptNew(id, s, alive) ==
  /\ Running
  /\ LowestFree(s)
  /\ get_client_by_id(id) = {}
  /\ add_new_client(id, s)
  /\ Watch(s)
  /\ Established(id, s, IF alive THEN "up" ELSE "closed")
  /\ UNCHANGED <<freed, published, received, status>>

(* The identifier belongs to a client marked as connected: the socket is   *)
(* closed again.                                                           *)
AcceptDuplicate(id, s, alive) ==
  /\ Running
  /\ LowestFree(s)
  /\ \E i \in get_client_by_id(id) : subscribers[i].connected
  /\ WatchAndDrop(s)
  /\ IF verbose /\ ~alive THEN SendToGone(s) ELSE UNCHANGED <<link, status>>
  /\ UNCHANGED <<subscribers, topics, freed, published, peer, received>>

(* A faulty form: the count is left as it was. *)
Emptied_KeepsCount(tp) ==
  [tp EXCEPT !.max_tcps = INITIAL_MAX_TOPICS,
             !.block = IF @ = "null" THEN "null" ELSE "freed"]

(* A topic once its stored messages have been sent and its array freed. *)
Emptied(tp) ==
  [tp EXCEPT !.tcps = <<>>,
             !.max_tcps = INITIAL_MAX_TOPICS,
             !.block = IF @ = "null" THEN "null" ELSE "freed"]

(***************************************************************************)
(* Sending a stored message that is freed, freeing it again, or freeing an *)
(* array again, is an access C leaves undefined.                           *)
(***************************************************************************)
ReplayIsDefined(id) ==
  /\ StoredFor(id) \intersect freed = {}
  /\ \A j \in DOMAIN topics[id] : topics[id][j].block # "freed"

(* The records of topic t that have messages to send. *)
Keeping(id, t) == {j \in TopicOf(id, t) : topics[id][j].tcps # <<>>}

(* A faulty form: the newest message is sent first. *)
Replayed_NewestFirst(id, t) ==
  IF Keeping(id, t) = {} THEN <<>>
  ELSE Reverse(topics[id][CHOOSE j \in Keeping(id, t) : TRUE].tcps)

(* A faulty form: the loop stops before the last message. *)
Replayed_SkipsLast(id, t) ==
  IF Keeping(id, t) = {} THEN <<>>
  ELSE LET tcps == topics[id][CHOOSE j \in Keeping(id, t) : TRUE].tcps
       IN SubSeq(tcps, 1, Len(tcps) - 1)

(* What is sent of topic t when client id comes back.  One record of a     *)
(* name has messages at most: there is only one, or the name is full and   *)
(* none has any (StoreSlot).                                               *)
Replayed(id, t) ==
  IF Keeping(id, t) = {} THEN <<>>
  ELSE topics[id][CHOOSE j \in Keeping(id, t) : TRUE].tcps

(* Every stored message of every topic goes to the new socket. *)
reconnect_old_sub(id, i, s, alive) ==
  /\ subscribers' = [subscribers EXCEPT ![i].socket = s, ![i].connected = TRUE]
  /\ received' =
       IF alive
       THEN [received EXCEPT ![id] =
               [t \in Topics |-> @[t] \o Replayed(id, t)]]
       ELSE received
  /\ freed' = freed \union StoredFor(id)
  /\ topics' = [topics EXCEPT ![id] = [j \in DOMAIN @ |-> Emptied(@[j])]]

AcceptReturning(id, s, alive) ==
  /\ Running
  /\ LowestFree(s)
  /\ ReplayIsDefined(id)
  /\ \E i \in get_client_by_id(id) :
       /\ ~subscribers[i].connected
       /\ reconnect_old_sub(id, i, s, alive)
  /\ Watch(s)
  /\ Established(id, s, CASE ~alive -> "closed"
                         [] alive /\ StoredFor(id) = {} -> "up"
                         [] OTHER -> "fed")
  /\ UNCHANGED <<published, status>>

(* The replay does not run to its end: it touches freed memory, or writes  *)
(* to a process that is gone.                                              *)
ReplayFails(id, s, alive) ==
  /\ Running
  /\ LowestFree(s)
  /\ \E i \in get_client_by_id(id) : ~subscribers[i].connected
  /\ \/ /\ ~ReplayIsDefined(id)
        /\ status' = "undefined"
     \/ /\ ~alive
        /\ StoredFor(id) # {}
        /\ status' = "killed"
  /\ UNCHANGED <<fdVars, subscribers, topics, freed, published, peer, received>>

-----------------------------------------------------------------------------
(* A client socket is ready and recv() returns 0 (end-of-file) or -1.      *)

(* A faulty form: topics that were unsubscribed are passed over. *)
FreshArray_OnlySubscribed(tp) ==
  IF tp.sf = 1 /\ tp.subscribed
  THEN [tp EXCEPT !.tcps = <<>>, !.max_tcps = INITIAL_MAX_TCPS,
                  !.block = "live", !.cap = INITIAL_MAX_TCPS]
  ELSE tp

(* disconnect_client allocates an array for every topic with SF.           *)
FreshArray(tp) ==
  IF tp.sf = 1
  THEN [tp EXCEPT !.tcps = <<>>, !.max_tcps = INITIAL_MAX_TCPS,
                  !.block = "live", !.cap = INITIAL_MAX_TCPS]
  ELSE tp

(* A faulty form: the record stays marked as connected. *)
disconnect_KeepsConnected(sock) ==
  LET found == get_client_by_socket(sock) IN
  /\ topics' = [id \in Ids |->
       IF \E i \in found : subscribers[i].id = id
       THEN [j \in DOMAIN topics[id] |-> FreshArray(topics[id][j])]
       ELSE topics[id]]
  /\ link' = [link EXCEPT ![sock] = IF found = {} THEN @ ELSE "free"]
  /\ peer' = [peer EXCEPT ![sock] = IF found = {} THEN @ ELSE NoId]
  /\ UNCHANGED subscribers

disconnect_client(sock) ==
  LET found == get_client_by_socket(sock) IN
  /\ subscribers' = [i \in DOMAIN subscribers |->
       IF i \in found THEN [subscribers[i] EXCEPT !.connected = FALSE]
       ELSE subscribers[i]]
  /\ topics' = [id \in Ids |->
       IF \E i \in found : subscribers[i].id = id
       THEN [j \in DOMAIN topics[id] |-> FreshArray(topics[id][j])]
       ELSE topics[id]]
  /\ link' = [link EXCEPT ![sock] = IF found = {} THEN @ ELSE "free"]
  /\ peer' = [peer EXCEPT ![sock] = IF found = {} THEN @ ELSE NoId]

EndOfFile(s) ==
  /\ Running
  /\ Watched(s)
  /\ link[s] = "closed"
  /\ disconnect_client(s)
  /\ Unwatch(s)
  /\ UNCHANGED <<freed, published, received, status>>

(* recv() fails on a connection that was reset, and DIE ends the server. *)
RecvFails(s) ==
  /\ Running
  /\ Watched(s)
  /\ link[s] = "reset"
  /\ status' = "died"
  /\ UNCHANGED <<fdVars, subscribers, topics, freed, published, peer, received>>

-----------------------------------------------------------------------------
(* A client socket is ready and recv() returns an Action.  The process     *)
(* behind it may have ended since it sent the Action.                      *)

NewTopic(t, sf) ==
  [name |-> t, sf |-> sf, subscribed |-> TRUE, tcps |-> <<>>,
   max_tcps |-> INITIAL_MAX_TCPS, block |-> "null", cap |-> 0]

(* A faulty form: the new value is not looked at. *)
ChangeSf_AnyValue(id, j, sf) ==
  topics' = IF topics[id][j].subscribed
            THEN [topics EXCEPT ![id][j].sf = sf]
            ELSE topics

(* check_already_sub_topic: the topic at position j is known already; the  *)
(* SF changes if it is subscribed and the new value is valid.              *)
ChangeSf(id, j, sf) ==
  topics' = IF topics[id][j].subscribed /\ sf \in {0, 1}
            THEN [topics EXCEPT ![id][j].sf = sf]
            ELSE topics

(* A faulty form: a topic that was unsubscribed is taken for a new one. *)
KnownTopic_OnlySubscribed(id, t, sf) ==
  {j \in Found(id, t, sf) :
     /\ topics[id][j].subscribed
     /\ \A k \in Found(id, t, sf) : k >= j}

(* The first topic of client id that compares equal to the one asked for.  *)
KnownTopic(id, t, sf) == {j \in Found(id, t, sf) : \A k \in Found(id, t, sf) : k >= j}

(* The reply, when there is one, goes to the socket of the record found.   *)
subscribe_to_topic(t, sf, s) ==
  \E i \in get_client_by_socket(s) :
    LET id == subscribers[i].id IN
    \/ \E j \in KnownTopic(id, t, sf) :
         /\ ChangeSf(id, j, sf)
         /\ Reply(s)
    \/ /\ KnownTopic(id, t, sf) = {}
       /\ sf \in {0, 1}
       /\ Len(topics[id]) < MaxTopics
       /\ topics' = [topics EXCEPT ![id] = Append(@, NewTopic(t, sf))]
       /\ UNCHANGED <<link, status>>
    \/ /\ KnownTopic(id, t, sf) = {}
       /\ sf \notin {0, 1}
       /\ Reply(s)
       /\ UNCHANGED topics

Subscribe(s, t, sf) ==
  /\ Running
  /\ Watched(s)
  /\ subscribe_to_topic(t, sf, s)
  /\ UNCHANGED <<read_fds, fdmax, prev_fdmax, subscribers, freed, published,
                 peer, received>>

(* The first topic of that name that is still subscribed.  The end of a    *)
(* full name was written to the SF of the Action (subscriber.c:151).       *)
SubscribedTopic(id, t) ==
  {j \in Found(id, t, 0) :
     /\ topics[id][j].subscribed
     /\ \A k \in Found(id, t, 0) : topics[id][k].subscribed => k >= j}

unsubscribe_from_topic(t, s) ==
  \E i \in get_client_by_socket(s) :
    LET id == subscribers[i].id IN
    \/ \E j \in SubscribedTopic(id, t) :
         /\ topics' = [topics EXCEPT ![id][j].subscribed = FALSE]
         /\ UNCHANGED <<link, status>>
    \/ /\ SubscribedTopic(id, t) = {}
       /\ Reply(s)
       /\ UNCHANGED topics

Unsubscribe(s, t) ==
  /\ Running
  /\ Watched(s)
  /\ unsubscribe_from_topic(t, s)
  /\ UNCHANGED <<read_fds, fdmax, prev_fdmax, subscribers, freed, published,
                 peer, received>>

-----------------------------------------------------------------------------
(* The UDP socket is ready.                                                *)

(* UDP_to_TCP returns NULL for a type above 3 or a sign byte above 1.      *)
MalformedDatagram ==
  /\ Running
  /\ status' = "died"
  /\ UNCHANGED <<fdVars, subscribers, topics, freed, published, peer, received>>

TopicsOfRecord(i) == topics[subscribers[i].id]

(* send_tcp_msg sends to record i: what it asks of the topic is its name.  *)
(* Behind a full name comes the type of the message, 0 for an INT; with    *)
(* any other type a full name is found nowhere: see UdpUnheard.            *)
Sends(i, t) == subscribers[i].connected /\ Found(subscribers[i].id, t, 0) # {}

(* send_tcp_msg stores for record i in its topic at this position. *)
StoreSlot(i, t) ==
  IF subscribers[i].connected THEN {}
  ELSE {j \in Found(subscribers[i].id, t, 0) :
          /\ TopicsOfRecord(i)[j].sf = 1
          /\ \A k \in Found(subscribers[i].id, t, 0) :
               TopicsOfRecord(i)[k].sf = 1 => k >= j}

Full(tp) == Len(tp.tcps) = tp.max_tcps

(* A faulty form: the full array is replaced by a new, empty one. *)
store_LosesFull(tp, n) ==
  IF Full(tp)
  THEN [tp EXCEPT !.tcps = <<n>>, !.max_tcps = 2 * @, !.block = "live",
                  !.cap = 2 * tp.max_tcps]
  ELSE [tp EXCEPT !.tcps = Append(@, n)]

(* A faulty form: one slot too few before the array is doubled. *)
store_OffByOne(tp, n) ==
  IF Len(tp.tcps) > tp.max_tcps
  THEN [tp EXCEPT !.tcps = Append(@, n), !.max_tcps = 2 * @, !.block = "live",
                  !.cap = 2 * tp.max_tcps]
  ELSE [tp EXCEPT !.tcps = Append(@, n)]

(* A full array is doubled, then the message goes to the next slot. *)
store_tcp_msg_to_unconn_client(tp, n) ==
  IF Full(tp)
  THEN [tp EXCEPT !.tcps = Append(@, n), !.max_tcps = 2 * @, !.block = "live",
                  !.cap = 2 * tp.max_tcps]
  ELSE [tp EXCEPT !.tcps = Append(@, n)]

(* What goes wrong for certain when the message is stored for record i: a  *)
(* write through NULL, or a use of the array that was freed.               *)
StoreFaults(i, t) ==
  {IF TopicsOfRecord(i)[j].block = "freed" THEN "undefined" ELSE "killed" :
     j \in {k \in StoreSlot(i, t) :
              \/ TopicsOfRecord(i)[k].block = "freed"
              \/ TopicsOfRecord(i)[k].block = "null" /\ ~Full(TopicsOfRecord(i)[k])}}

(* What may go wrong when the message is sent to record i: the process on  *)
(* its socket is gone, and the second send() raises SIGPIPE if the reset   *)
(* that answers the first one has arrived by then.                         *)
SendFaults(i, t) ==
  IF Sends(i, t) /\ link[subscribers[i].socket] \in {"closed", "reset"}
  THEN {"killed"} ELSE {}

(* How many copies reach the process that announced id, out of the first   *)
(* `upto` records: it is the socket of a record that says who reads.       *)
Copies(id, t, upto) ==
  Cardinality({i \in 1 .. upto :
                 /\ Sends(i, t)
                 /\ PeerOpen(subscribers[i].socket)
                 /\ peer[subscribers[i].socket] = id})

(* Message n of topic t is handled for the first `upto` records. *)
Deliver(t, n, upto) ==
  /\ received' = [id \in Ids |-> [received[id] EXCEPT
       ![t] = @ \o [c \in 1 .. Copies(id, t, upto) |-> n]]]
  /\ link' = [s \in ClientFds |->
       IF /\ PeerOpen(s)
          /\ \E i \in 1 .. upto : Sends(i, t) /\ subscribers[i].socket = s
       THEN "fed" ELSE link[s]]
  /\ topics' = [id \in Ids |-> [j \in DOMAIN topics[id] |->
       IF \E i \in 1 .. upto : subscribers[i].id = id /\ j \in StoreSlot(i, t)
       THEN store_tcp_msg_to_unconn_client(topics[id][j], n)
       ELSE topics[id][j]]]

(* A datagram of topic t arrives and is handled for every record. *)
UdpMessage(t) ==
  /\ Running
  /\ published < MaxMsgs
  /\ \A i \in DOMAIN subscribers : StoreFaults(i, t) = {}
  /\ published' = published + 1
  /\ Deliver(t, published + 1, Len(subscribers))
  /\ UNCHANGED <<read_fds, fdmax, prev_fdmax, subscribers, freed, peer, status>>

(* The handling stops at record k, because of k. *)
UdpMessageFails(t) ==
  /\ Running
  /\ published < MaxMsgs
  /\ \E k \in DOMAIN subscribers :
       /\ \A i \in 1 .. k - 1 : StoreFaults(i, t) = {}
       /\ status' \in SendFaults(k, t) \union StoreFaults(k, t)
       /\ Deliver(t, published + 1, k - 1)
  /\ published' = published + 1
  /\ UNCHANGED <<read_fds, fdmax, prev_fdmax, subscribers, freed, peer>>

(* A datagram of a full name and another type than INT: its name goes on   *)
(* with that type and the text of the payload, and matches nobody's topic. *)
UdpUnheard(t) ==
  /\ Running
  /\ t \in FullNames
  /\ published < MaxMsgs
  /\ published' = published + 1
  /\ UNCHANGED <<fdVars, subscribers, topics, freed, peer, received, status>>

-----------------------------------------------------------------------------
(* A system call of main fails, and DIE ends the server: select(),         *)
(* recvfrom(), accept(), setsockopt() or the recv() of an identifier.      *)
CallFails ==
  /\ Running
  /\ status' = "died"
  /\ UNCHANGED <<fdVars, subscribers, topics, freed, published, peer, received>>

(* STDIN is ready with the word `exit`. *)

(***************************************************************************)
(* dealloc_memory frees every stored message and every array once.  It is  *)
(* defined when none of them has been freed and no message is stored       *)
(* twice.                                                                  *)
(***************************************************************************)
dealloc_IsDefined ==
  /\ \A id \in Ids :
       /\ StoredFor(id) \intersect freed = {}
       /\ \A j \in DOMAIN topics[id] : topics[id][j].block # "freed"
  /\ \A a, b \in Ids : a # b => StoredFor(a) \intersect StoredFor(b) = {}

(* The kernel closes what close_sockets leaves open; no state is used      *)
(* after the end of the process.                                           *)
ExitCommand ==
  /\ Running
  /\ status' = IF dealloc_IsDefined THEN "exited" ELSE "undefined"
  /\ UNCHANGED <<fdVars, subscribers, topics, freed, published, peer, received>>

-----------------------------------------------------------------------------
ClientNext == \E s \in ClientFds : ClientCloses(s)

AcceptNext ==
  \E id \in Ids, s \in ClientFds, alive \in BOOLEAN :
    \/ AcceptNew(id, s, alive)
    \/ AcceptDuplicate(id, s, alive)
    \/ AcceptReturning(id, s, alive)
    \/ ReplayFails(id, s, alive)

CommandNext ==
  \E s \in ClientFds :
    \/ EndOfFile(s)
    \/ RecvFails(s)
    \/ \E t \in Topics :
         \/ \E sf \in SfInputs : Subscribe(s, t, sf)
         \/ Unsubscribe(s, t)

DatagramNext ==
  \/ MalformedDatagram
  \/ \E t \in Topics : UdpMessage(t) \/ UdpMessageFails(t) \/ UdpUnheard(t)

Next ==
  \/ ClientNext
  \/ AcceptNext
  \/ CommandNext
  \/ DatagramNext
  \/ CallFails
  \/ ExitCommand

Spec == Init /\ [][Next]_vars

-----------------------------------------------------------------------------
(* Invariants. *)

(* One record per identifier, although records are never removed and every *)
(* connection looks for its own: main, server.c:176-182.                   *)
UniqueIds ==
  \A i, k \in DOMAIN subscribers :
    subscribers[i].id = subscribers[k].id => i = k

(***************************************************************************)
(* Every open socket belongs to a record that says so: the identifier its  *)
(* process announced has a record, marked as connected, with that socket.  *)
(* Hence a lookup by the socket of a ready connection never returns NULL   *)
(* (utils.c:150 says it should not; unsubscribe_from_topic relies on it)   *)
(* and no identifier has two open connections.                             *)
(***************************************************************************)
OwnerConnected ==
  \A s \in ClientFds : IsOpen(s) =>
    \E i \in DOMAIN subscribers :
      subscribers[i] = [id |-> peer[s], socket |-> s, connected |-> TRUE]

(* The server never leaves a descriptor it has closed in the set it gives  *)
(* to select(), which would fail, nor an open one out of it: FD_SET and    *)
(* FD_CLR of main against close() in disconnect_client.                    *)
ReadSetMatchesOpen == \A s \in ClientFds : s \in read_fds <=> IsOpen(s)

(* However often fdmax is set back, the listening socket stays in reach of *)
(* select(), so that new clients can still connect: server.c:168-230.      *)
ListenerWatched == tcp_socket <= fdmax /\ tcp_socket <= prev_fdmax

(***************************************************************************)
(* No client has two records of one topic whose name leaves room for its   *)
(* terminator, although the search for it and the insertion look up the    *)
(* client separately (utils.c:152 and 219-222) and the record may have     *)
(* been unsubscribed or its SF changed in between.  Of a full name there   *)
(* is never more than one record with SF 0; with SF 1 it gets a new one    *)
(* each time, which strcmp() does not find again.                          *)
(***************************************************************************)
NoDuplicateTopic ==
  \A id \in Ids : \A j, k \in DOMAIN topics[id] :
    topics[id][j].name = topics[id][k].name =>
      \/ j = k
      \/ /\ topics[id][j].name \in FullNames
         /\ topics[id][j].sf = 1 \/ topics[id][k].sf = 1

StoreFits(tp, connected) ==
  /\ connected => tp.tcps = <<>> /\ tp.block # "live"
  /\ tp.tcps # <<>> => tp.block = "live"
  /\ tp.block = "live" => Len(tp.tcps) <= tp.cap /\ tp.cap = tp.max_tcps

(***************************************************************************)
(* The store of a topic: only a disconnected client has messages in it or  *)
(* an array allocated for them, there are messages only in an array that   *)
(* is allocated, and they fit the slots that were allocated, which are     *)
(* those max_tcps counts.                                                  *)
(***************************************************************************)
StoreBounds ==
  \A i \in DOMAIN subscribers : \A j \in DOMAIN TopicsOfRecord(i) :
    StoreFits(TopicsOfRecord(i)[j], subscribers[i].connected)

(* A stored message is newer than everything its client has received, on   *)
(* any topic: the replay of reconnect_old_sub never sends an old message   *)
(* again after a newer one.                                                *)
StoredAreNewer ==
  \A id \in Ids : \A m \in StoredFor(id) : \A t \in Topics :
    \A k \in DOMAIN received[id][t] : received[id][t][k] < m

(* Whatever is forwarded at once and whatever is stored and sent later, a  *)
(* client gets the messages of a topic in the order they were published.   *)
PerTopicOrder ==
  \A id \in Ids, t \in Topics :
    \A k, l \in DOMAIN received[id][t] :
      k <= l => received[id][t][k] <= received[id][t][l]

(***************************************************************************)
(* Statements that hold while one identifier is in use, and that the       *)
(* reuse of descriptor numbers breaks as soon as there are two.            *)
(***************************************************************************)

(* Every socket that is open is one that select() is asked about: README   *)
(* calls fdmax the maximum value of opened fd sockets.                     *)
FdmaxCovers == \A s \in read_fds : s <= fdmax

(* A record marked as connected has a connection that is open: the comment *)
(* on the field `connected`, utils.h:101.                                  *)
ConnectedIsTrue ==
  \A i \in DOMAIN subscribers : subscribers[i].connected =>
    /\ IsOpen(subscribers[i].socket)
    /\ peer[subscribers[i].socket] = subscribers[i].id

(* Every topic that send_tcp_msg may store messages in has its array: the  *)
(* one disconnect_client allocates is there, whatever was subscribed,      *)
(* unsubscribed or changed before the client left (utils.c:128-138 against *)
(* utils.c:436).                                                           *)
StoreReady ==
  \A i \in DOMAIN subscribers : \A j \in DOMAIN TopicsOfRecord(i) :
    ~subscribers[i].connected /\ TopicsOfRecord(i)[j].sf = 1
      => TopicsOfRecord(i)[j].block = "live"

(* A message stored for a client stays stored until it has been sent to    *)
(* the client: the SF option.                                              *)
KeptUntilSent ==
  [][\A id \in Ids : StoredFor(id) \subseteq StoredFor(id)' \union freed']_vars

-----------------------------------------------------------------------------
(* What the documents say and the code does not do. *)

(* A message reaches a client only if it is subscribed to the topic        *)
(* (README.md:111-112).                                                    *)
OnlySubscribersReceive ==
  [][\A id \in Ids, t \in Topics : received'[id][t] # received[id][t] =>
       \E j \in TopicOf(id, t) : topics[id][j].subscribed]_vars

(* A client that comes back is sent messages that still exist              *)
(* (utils.c:89-90).                                                        *)
ReplaySendsStored ==
  [][\A id \in Ids, s \in ClientFds :
       ReplayFails(id, s, TRUE) => StoredFor(id) \intersect freed = {}]_vars

(* A client that leaves is disconnected and the server goes on             *)
(* (server.c:223-230): recv() on its socket does not end the server.       *)
LeavingIsNoticed == [][\A s \in ClientFds : ~RecvFails(s)]_vars

=============================================================================
