# A verification project for the publish/subscribe broker

The repository holds a message broker (`server.c`, `utils.c`), its TCP
subscriber (`subscriber.c`) and a UDP test publisher
(`pcom_hw2_udp_client/udp_client.py`). This directory models the broker, the
subscriber, the two streams between them and the format of what they carry in
TLA+, checks the models with TLC on small instances, and proves with TLAPS that most
of the safety properties hold for every instance (section 5 says which).

## 1. The system

| Part | State | Operations | Interacts with |
|---|---|---|---|
| Descriptor bookkeeping (`server.c` `main`) | `read_fds`, `fdmax`, `prev_fdmax` | `FD_SET`/`FD_CLR` and the bound at accept, refusal, end-of-file | the kernel, which numbers descriptors and reuses the numbers |
| Connections (`server.c:153-231`, `utils.c:33-145`) | `subscribers`: id, socket, `connected` | `add_new_client`, `reconnect_old_sub`, `disconnect_client`, lookups by id and by socket | subscribers (connect, leave) |
| Subscriptions (`utils.c:148-262`) | per client its `topics`: name, `sf`, `subscribed` | `subscribe_to_topic`, `check_already_sub_topic`, `unsubscribe_from_topic` | subscribers (commands), replies when `verbose` |
| Delivery and store-and-forward (`utils.c:393-444`, `83-112`, `447-465`) | per topic `tcps`, `num_of_tcps`, `max_tcps`; the heap | `send_tcp_msg`, storing, replay, freeing | publishers (datagrams), subscribers (messages) |
| Conversion (`utils.c:265-390`) | none | `UDP_to_TCP`, `convert_*` | delivery |
| Main loop (`server.c:118-244`) | `temp_fds`, the place of the scan, the buffer of stdio | `select()`, one handler per descriptor | all of the above |
| Subscriber (`subscriber.c`) | its buffers, the position in the stream | command line, receive loop | broker, over one TCP connection |
| Publisher (`udp_client.py`) | none | sends datagrams | broker |

The broker has one thread. What makes it hard is not parallelism but what goes on
around it: descriptor numbers are reused while records keep the old ones; clients
vanish between two calls of `select()`; a peer that has gone turns a `send()`
into SIGPIPE and a `recv()` into an error that ends the process; records and
topics are never removed; memory is shared between the stores of several clients
and freed by hand; TCP gives back a stream of bytes cut in any way.

What makes each part correct:

* bookkeeping: `select()` is asked about exactly the sockets that are open, and the bound covers them;
* connections: one record per identifier, and every open socket belongs to a record that says so;
* subscriptions: one record per topic, whatever was subscribed, left or changed before;
* delivery: a store fits its array, nothing stored is lost before it is sent, every client gets the messages of a topic in order;
* main loop: no handler waits for what is not there, and everybody is served in the end;
* conversion: a number is shown as the publisher meant it, and nothing else passes;
* subscriber: sends what is typed, and prints what was sent, once, in order.

`PROJECT.json` lists the components with their status and every hazard at its line.

## 2. Modules

### FdTable.tla

`read_fds`, `fdmax` and `prev_fdmax` of `main`, and `link`, the kernel's state of
each client socket ("up", "fed" once the server has sent something, "closed" by
the peer, "reset" by a peer that left data unread, "free"). `Watch` is
`server.c:164-169`, `WatchAndDrop` the refusal (`:164-206`), `Unwatch` the end of
a connection (`:226-230`). `LowestFree` is the kernel's rule for `accept()`.
STDIN, the UDP socket and the listening socket are always in the set and are
left out of it; client sockets are numbered from `tcp_socket + 1`.

### Server.tla

The whole broker. One action is one handler, since a handler runs to its end
before the next `select()`.

| Action | Code |
|---|---|
| `ClientCloses` | the subscriber ends (environment) |
| `AcceptNew`, `AcceptDuplicate`, `AcceptReturning` | the three outcomes of `server.c:153-215` |
| `ReplayFails` | `reconnect_old_sub` stopped by SIGPIPE, or touching freed memory |
| `EndOfFile`, `RecvFails` | `recv()` gives 0 or -1, `server.c:219-231` |
| `Subscribe`, `Unsubscribe` | `server.c:232-241` and the functions of `utils.c` |
| `UdpMessage`, `UdpMessageFails` | `send_tcp_msg` run for all records, or stopped at one of them |
| `UdpUnheard` | a datagram of a full name that `strcmp()` finds nowhere |
| `MalformedDatagram` | `UDP_to_TCP` returns NULL and `DIE` ends the server |
| `CallFails` | `select()`, `recvfrom()`, `accept()`, `setsockopt()` or the first `recv()` fails, and `DIE` ends the server |
| `ExitCommand` | `exit` on STDIN, `dealloc_memory` |

State: `subscribers` and `topics` are the C lists; a Topic record has, beside the
fields of the struct, `block` (is `tcps` NULL, allocated or freed) and `cap` (the
slots allocated). `freed` is the set of messages given back to the allocator.
`published`, `peer` and `received` are history or environment: how many
well-formed datagrams have come, which identifier the process behind a socket
announced, and what has reached it.

Abstractions. A message is its number: the properties tell apart which one it is
and not what it says. Names and identifiers are model values. `FullNames` are the names
of 50 characters, which leave no room for a terminator in a Topic or an Action: `Found`
says where `strcmp()` finds a name, given the byte that follows it in the other string
(the SF of a command, 0 for an unsubscribe, the type of a message). The growth of `subscribers`
and `topics` by doubling is `Append`; the growth of a store is modelled, because
its capacity is assigned in four places. Memory leaks are not modelled (nothing
depends on them). An access C leaves undefined, when freed memory is read,
written or freed again, ends the behaviour with status "undefined". `SendFaults`
is permissive: a `send()` to a peer that has gone may or may not kill the
process, since it depends on when the reset arrives. One `recv()` returns one
identifier or one Action here; what it may return otherwise is the subject of
`Uplink`. A payload is well-formed or not; which ones are is the subject of
`WireFormat`.

`max_tcps` is set to `INITIAL_MAX_TOPICS` by a replay (`utils.c:110`) and to
`INITIAL_MAX_TCPS` elsewhere; the two constants stay apart in the model.

### Downlink.tla

The stream from the broker to one subscriber and the loop of
`subscriber.c:160-201`, one action per `recv()`. Text is grouped in cells known
by their position: a frame is `HeaderLen` cells of size (`DigitCells` of digits,
then zeros) and `BodyLen` cells of message, which begin with the size again,
since it is the first field of `TCP_msg`. `SizeRead` gives what `atoi` may return
at any position of the stream. `cuts`, chosen at the start, says what the network may
cut: nothing that one `send()` wrote, messages but never their sizes, or anything. Most
properties hold in the first case, `IntactOnce` in all three, and the middle one is what
the run `split` is about. `stdin` says whether `select()` reports STDIN, which the loop
serves before the socket (`SocketsTurn`): a line is read and STDIN is quiet again, an
end-of-file stays there.

A reset ends the stream before all of it has arrived. It comes from a broker that ends
with commands of this subscriber unread (`ServerCloses`), or from the side of a broker
that has ended, in answer to a command (`ReadCommand`: the `send()` that provokes it
succeeds, a later one may end the program by `DIE` or by SIGPIPE). `RecvFails` is the
`recv()` that meets it.

### Mailbox.tla, ServerMailbox.tla

`Mailbox` is the abstract specification of store-and-forward, for the user of one
identifier: a `line` that is "away", "listening" or "ended" (the process is gone and
the broker has not noticed), an `option` per topic, a `store`, and what the user has
`got`. It says when a message is delivered, kept or lost, with no socket, record or
array. `ServerMailbox` gives the refinement mapping: the line is the state of the
record marked as connected and of the peer of its socket; the store is what a replay
would send. The mailbox knows the names that leave room for their terminator
(`RoomyNames`); a message of a full name is `PublishElsewhere` to it.

### SelectLoop.tla

The loop of `main` in its own steps, with the variables of `FdTable`: `Select`, then
one action for each descriptor in `temp_fds`, in ascending order (`Turn`), under an
`fdmax` that `Accept`, `ReceiveId` and `ServeClient` change on the way. The handler of
the listening socket is two actions, since it waits for the identifier between them;
the handler of STDIN waits in `fscanf()` after a blank line. `typed` is what the kernel holds of STDIN,
`buffered` what stdio has read ahead, which `select()` does not report. STDIN is a
terminal, which gives one line to a `read()`; of a pipe stdio would take every line
at once, as `Uplink` has it for the subscriber. What handlers
do to records is left to `Server`, with the ways in which they may end the process.
Nothing else is bounded: peers come, speak and go for ever.

### Uplink.tla

From the keyboard to the broker, the counterpart of `Downlink`: lines typed into a
terminal or a pipe (`piped`: one `read()` takes all that is there), the Actions sent
for them, and the broker's first `recv()`, of as much as the buffer holds, against
the later ones, of one Action each. A cell is known by its position in the stream, and
the broker acts on what stands at the beginning of its buffer, wherever in an Action the
`recv()` has begun: `SaysSubscribe` and `SaysUnsubscribe` are the two `strcmp()`. An
Action says "subscribe" at its beginning, or behind the prefix of its "unsubscribe", when
a cut has left that prefix to the `recv()` before. `NameIn` is the name the broker then
reads, up to a terminator or to the end of a short read; `SfIsText` says that what stands
in the place of the SF is a character of the next Action, which the broker refuses. The
number of lines and the size of the first buffer are not related by any assumption: the
code's holds 15 Actions behind an identifier, and a longer burst is cut at its end,
whatever the network does.

### WireFormat.tla

The data the other modules abstract: the four conversions of a payload and their
refusals, names in fields that a full name leaves without a terminator, their
comparison by `strcmp()`, and SF in a byte. Values of a byte, widths of fields and the
bytes tried are constants. Text is kept as far as something compares it; a printed
number is its sign, its digits as a natural number, and its scale.

### MCServer.tla and the modules of proofs

`MCServer` adds the symmetries for TLC: of identifiers, and of the names that leave room
for their terminator. The theorems about a module stand
in one of their own: `ServerProofs`, `SelectLoopProofs`, `UplinkProofs`,
`DownlinkProofs`, `WireFormatProofs`; `LoneProofs` extends `ServerProofs` and
`ServerMailbox` with what holds while one identifier is in use. `StreamLemmas` has the
facts about division and multiples that both streams need.

The definitions whose comment begins "A faulty form" are plausible mistakes in the
code. No specification uses them; putting one in the place of the definition next to it
breaks the property it is listed with in `PROJECT.json`.

## 3. Runs

| Run | What it shows |
|---|---|
| `delivery` | 2 identifiers, 1 topic, 2 datagrams, 2 sockets: `UniqueIds`, `OwnerConnected`, `ReadSetMatchesOpen`, `ListenerWatched`, `StoreBounds`, `StoredAreNewer`, `PerTopicOrder` hold |
| `lone` | 1 identifier, 3 topics of which one is a full name, 3 datagrams: `FdmaxCovers`, `ConnectedIsTrue`, `StoreReady`, `NoDuplicateTopic`, `KeptUntilSent` hold, and `Server` implements `Mailbox` (`ImplementsMailbox`) |
| `select` | 3 clients, any number of connections, commands and datagrams: `RecvNeverBlocks`, `EverybodyServed`, `ExitIsObeyed` hold |
| `uplink` | 2 lines, a terminal or a pipe, a network that cuts or not: `HandledIsSent`, `NeverMixed`, `CommandsObeyed` hold |
| `convert` | payloads and names at their edges: `ShownIsMeant`, `MalformedIsRefused`, `MatchIsMeant` hold |
| `stream` | 3 messages to a subscriber, of which the network cuts nothing, messages, or anything: `ShownIsSent`, `NothingLostAtEnd`, `IntactOnce`, `EverythingShown` hold |

Bounds. In `delivery` the initial capacity of a store is 1, so that the second
message doubles it; a topic can be subscribed with both values of SF, changed and
left; each identifier goes and comes back any number of times, and two
descriptors are enough for one to be left by one client and taken by the other.
The theorems say the same for any number of them. In `lone` the store
doubles twice, and a client has two Topic records at most (`MaxTopics`): two of
different names, or two of the full one. `delivery` has one topic and leaves full names
to `lone`, which is where `NoDuplicateTopic` is checked. `verbose` is TRUE where two identifiers are used, because replies
only add behaviour; the runs where they do not matter use FALSE. The code's 10
for the initial capacities, 1 and 2 here, only moves the point of
doubling; the theorems hold for any value.

In `select` three descriptors let one be closed below and above a newcomer that takes
its number in the same round, and the bound drop between; one unread line is enough
for each of the three kinds (blank, the command, the command behind a word), since
the next one can be typed as soon as it is read. In `uplink` the first
buffer holds the identifier and one Action and a half, so that a command can be swallowed
and the next one cut at its end; two Actions are enough for one to be cut and the other
to meet the rest of it; a word, a prefix, a name each have cells enough to be cut inside
or to be left whole. In `convert` a
number has two bytes, since the products of four exceed TLC's integers; sign bytes
on both sides of `CHAR_MAX`, bytes 0, 1 and 255, exponents on both sides of the six
printed decimals and past the number's digits, names of one character and of the
full width of two. In `stream`, three messages
let one be cut, the next be swallowed in part and the third meet the loop out of
step; `MaxFrames` bounds them, and `SizeRead` bounds what the middle of a message
may look like to the real size. TLC's deadlock check is off where the program may
end: the server may exit or be killed, the subscriber may leave, and one datagram and
one subscription are all that `convert` looks at.

`lone` is about one identifier because these statements are what the code
achieves only as long as no descriptor number passes from one client to another;
the first two runs below show that.

Some properties name the exceptions that the code makes:

* `ImplementsMailbox`: what is published between the end of a process and the
  end-of-file the broker reads is lost, and so is what was kept for a user that has
  gone again when the replay is sent. It says that nothing else is.
* `EverybodyServed` leaves out a client whose socket is above `fdmax` (run `fdmax`) and
  a server left waiting for a word after a blank line. It rests on the newcomer's
  identifier: a peer that connects and says nothing stops the server for everybody.
* `ExitIsObeyed` is about an `exit` that stands first in its line: in "other exit" the
  second word stays in the buffer of stdio until something else is typed.
* `NoDuplicateTopic`: a full name that is subscribed with SF 1 is not found again
  (`strcmp()` reads on into `sf` and `subscribed`), and the next such command makes
  another record of it. With SF 0 there is one record.
* `HandledIsSent`: commands that arrive together with the identifier are swallowed, and
  one that the first `recv()` cuts at the end of its buffer puts the rest out of step.
* `CommandsObeyed`: the same, and lines of a pipe wait for its end.
* `NeverMixed`: when the network cuts an Action, the parts are handled as they come,
  with a shortened or empty topic or an SF of 0 for what is missing; and an "unsubscribe"
  that is cut behind its prefix is handled as a "subscribe".
* `EverythingShown`: nothing is promised to a user who types on or closes STDIN, nor
  after a reset, which a command sent to a broker that has ended brings about.
* `MalformedIsRefused`: an INT with a sign byte above `CHAR_MAX` passes for a negative
  number, because `payload[0]` is a signed char (`utils.c:268`); a FLOAT does not.
* `MatchIsMeant`: a subscription to a name of 50 characters with SF 1 gets nothing at
  all, and with SF 0 only INT messages, because the comparison runs on into `sf`,
  `subscribed` and the type of the message. (An SF of 256 is stored as 0, in `SfByte`;
  no property is about it.)

What the code does otherwise than its documents say (each run ends in a
counterexample, quoted in `PROJECT.json`):

| Run | Shows |
|---|---|
| `fdmax` | two clients connect, on sockets 5 and 6; the first leaves, `fdmax` is set back to 5, and the second is not heard any more |
| `connected` | the record of a client that is away keeps its socket number; the next client with that number is taken for it, the wrong record is marked as disconnected, and the right one shuts its owner out for ever |
| `unsubscribed` | delivery does not look at `subscribed` |
| `replay` | a message stored for two clients is freed by the first and sent to the second |
| `leaving` | a client that leaves with unread data ends the server |
| `split` | a message that TCP delivers in two pieces, behind a size that came whole, is printed wrong |

Two more belong here, and are seen in the actions themselves: `Subscribe` leaves a topic
that was once unsubscribed as it is (`check_already_sub_topic` returns 1,
`utils.c:160-183`), so that it cannot be subscribed again, and `ExitCommand` frees the
array of a replayed store a second time (`dealloc_IsDefined`, `utils.c:108` and `:458`).

## 4. Fairness

`Server` states none: nothing in it is promised to happen, as publishers,
subscribers and the user do as they like, and its properties are safety
properties. `Downlink` assumes that TCP delivers in the end what was written
(`WF_vars(Arrive)`) and that the subscriber goes round its loop
(`WF_vars(Subscriber)`). `EverythingShown` is about a user who in the end stops typing
without closing STDIN, since the loop serves STDIN first; the broker may stop sending
or close, and the user may leave, at any time.

`SelectLoop` assumes that the process runs whenever it does not wait
(`WF_vars(ServerStep)`, one condition for the whole loop, since it is
sequential), and that a process which has connected sends its identifier
(`WF_vars(SendId)`), as `subscriber.c:81-83` does right after `connect()`. Peers and the
user need not do anything else. `Uplink` assumes that the network delivers, that the
subscriber goes round its loop, where STDIN comes first, and that the broker serves
what is ready (`WF_vars(Broker)`): this is `EverybodyServed` of `SelectLoop`, for a
socket that is watched.

## 5. Proofs

The safety properties that a passing run checks are also theorems, for all constants
that the assumptions of their modules allow (`FdAssumption`, `ServerAssumption`,
`SelectAssumption`, `UplinkAssumption`, `DownlinkAssumption`, `WireAssumption`), but for
two, `FdmaxCovers` and `ConnectedIsTrue`. These are true of one identifier only, and with
one identifier no more than one client socket is open and no number goes to anybody
else, so that little would be gained by stating them for every number of topics. They
are conjuncts of `LoneInv` (below), which the other theorems about one identifier rest on.

| Module | Theorem | Property |
|---|---|---|
| `ServerProofs` | `TypeCorrect` | `TypeOK` |
| | `IdsAreUnique`, `OwnersAreConnected`, `ReadSetIsOpenSet`, `ListenerIsWatched` | who owns a socket, and what `select()` is asked about |
| | `LookupNeverNull` | the lookup by a ready socket finds a record |
| | `TopicsAreUnique`, `StoresFit` | `NoDuplicateTopic`, `StoreBounds` |
| | `StoredIsNewer`, `OrderIsKept` | `StoredAreNewer`, `PerTopicOrder` |
| `LoneProofs` | `LoneStoreReady` | `StoreReady` |
| | `LoneKeptUntilSent` | `KeptUntilSent`, an action property |
| | `LoneImplementsMailbox` | `ImplementsMailbox`, the refinement of `Mailbox` |
| `SelectLoopProofs` | `LoopTypeCorrect`, `ReceiveNeverBlocks` | `TypeOK`, `RecvNeverBlocks` |
| `UplinkProofs` | `UplinkTypeCorrect`, `CommandsNeverMixed`, `HandledAsSent` | `TypeOK`, `NeverMixed`, `HandledIsSent` |
| `DownlinkProofs` | `DownlinkTypeCorrect`, `ShownOnlyOnce` | `TypeOK`, `IntactOnce` |
| | `ShownAsSent`, `NothingIsLost` | `ShownIsSent`, `NothingLostAtEnd` |
| `WireFormatProofs` | `FormatTypeCorrect`, `NumbersShownAsMeant`, `MalformedRefused` | `TypeOK`, `ShownIsMeant`, `MalformedIsRefused` |
| | `NamesMatchAsMeant` | `MatchIsMeant` |

### The broker

Each invariant with what it rests on:

1. `TypeOK` is inductive. The effort is in `Deliver` and in the nested `EXCEPT`s,
   one lemma per handler.
2. `SocketInv` is the four socket properties with `TypeOK`. They are proved
   together because each needs another: that a lookup by socket finds somebody
   (so that `disconnect_client` closes the socket, and the set stays equal to the
   open sockets) needs `OwnerConnected`; that `OwnerConnected` survives an
   end-of-file, when the record marked may be a stale one, needs `UniqueIds` and
   the fact that the socket itself is closed; `OwnerConnected` survives a
   reconnection because the record that is given a new socket was not connected
   and so owned none.
3. `NoDuplicateTopic` is inductive on top of these: the new topic is appended to
   the client in which it was searched for, and a name that is not found there either is
   new, or is full and one of the two records has SF 1 (`MayCoexist`). An SF does not
   change behind the back of a full name: a record with SF 1 is not found once more while
   it is subscribed, and one with SF 0 only by a command with SF 0.
4. `StoreInv` adds `StoreBounds`: a store is only written for a disconnected
   client, where a topic with stored messages has a live array with
   `cap = max_tcps`; a full one is doubled first. Delivery is stopped by
   `StoreFaults` otherwise. A full name never has anything stored: it is found by
   `send_tcp_msg` with SF 0 only.
5. `OrderInv`, the strengthening behind the last two theorems: what a client has
   received of a topic is in order and not newer than the last datagram; so is
   every store; and every stored message is newer than everything received. It
   is kept because a client that receives a copy has nothing stored
   (`ReceiverHasNoStore`, from `OwnerConnected`, `UniqueIds` and `StoreBounds`),
   even though the copy may be sent on the strength of another client's stale
   socket number.

### The broker with one identifier

The theorems of `LoneProofs` have the form `OneIdentifier => (Spec => ...)`, where
`OneIdentifier` says that `Ids` has one element, as in the run `lone`. The hypothesis
cannot go: with two identifiers the runs `fdmax`, `connected` and `replay` show that
the code does not do what is stated. Topics, descriptors, datagrams and the capacities
stay arbitrary.

`LoneInv` is `StoreInv` and `NoDuplicateTopic` with `FdmaxCovers`, `ConnectedIsTrue` and
`StoreReady`, and `NothingBeforeRecord` (topics belong to a client that has a record). They need each
other: an end-of-file puts `fdmax` back to what it was before the last accept, which
covers what is open only if nothing but the closed socket was, and that is
`ConnectedIsTrue` for the only record; `ConnectedIsTrue` survives because the record
found by the closed socket is the one that owned it. `KeptUntilSent` follows from
`LoneInv` step by step: a store can change where `send_tcp_msg` appends to it, or where
`reconnect_old_sub` frees it after having sent it.

`LoneImplementsMailbox` is a step simulation: `Seen` describes the line, the options
and the stores of the refinement mapping in terms of the only record, and there is one
lemma for each handler that says which action of `Mailbox` it is, or that it is none.
`StoreReady` and `StoreBounds` exclude the faults that would end `Deliver` before the
store; the fault that remains, a `send()` to a process that has gone, is the loss
`Mailbox` allows while the line has ended. What concerns a full name only is invisible
to the mapping, but for the number of the message.

### The main loop

`LoopInv` says of all of `temp_fds` what `RecvNeverBlocks` says of the descriptor in turn:
what was reported still has input. It must be all of them, and not those below the
bound, because an accept later in the same scan can raise `fdmax` again. It survives
the handlers because `read_fds` has open sockets only, so that an accept cannot get the
number of a descriptor that was reported and not yet served, and a closed descriptor
is not in turn again.

### The two streams

Lengths of headers, messages, identifiers and Actions are arbitrary, and positions in
the stream are counted in them: `StreamLemmas` says what division and multiples do
at a boundary.

* `NeverMixed` and `IntactOnce` hold however the network cuts. For `NeverMixed` each
  `recv()` is looked at by itself: it begins in a cleared buffer, and the cells it brings
  follow each other, so that the terminator of the name stands before the next Action
  begins. That no Action is handled twice rests on the position: the broker has read on
  behind every place of a handled Action where a command can begin (`MixedInv`).
  For `IntactOnce`, `OnceInv` adds that what was printed lies behind the position in the
  stream and what is in the buffer lies ahead of all that was printed.
* `HandledIsSent` and `ShownIsSent` are about a network that does not cut a `send()`.
  `InStep` says where the reader then stands: the broker behind the identifier and
  a whole number of Actions (those swallowed and those handled), given that the first
  `recv()` has not cut one at the end of its buffer; the subscriber at the
  start of a frame, or behind its size with a cleared buffer, unless the stream has ended
  in the middle of one. `NothingLostAtEnd` adds
  that the loop is left only at the end of the stream (`EndInv`).

### The format

`FormatInv` says that a topic was made from what was typed, and a message converted from
the datagram. The properties follow from lemmas about the operators, for any
size of a byte, a number and a name; in particular for the four bytes of the code,
whose products TLC cannot hold.

* `NumberIsMeant`: `Number` reads from the most significant byte on, `Meant` adds from
  the least significant one, and both are the same number. The invariant of the
  induction: what has been read of the first bytes is worth `Power(Base, j)` when `j`
  bytes are left.
* `RoundedIsNearest`: what is printed differs from the quotient by no more than half a
  unit.
* `RefusedIs`: `UDP_to_TCP` gives nothing in exactly the cases stated.
* `FieldString`: the string that begins with a field begins with the name, and ends
  with it when there is room for a terminator.

`Number`, `Power` and `Meant` are recursive functions. That such a function exists is
`Recursion`; it and the other inductions are made from `LeastExists` (a set of natural
numbers that is not empty has a least one, from the well-foundedness of `<`), since an
induction theorem that takes a predicate as its parameter cannot be used here.

### Only model-checked

`FdmaxCovers` and `ConnectedIsTrue`, as said above. Liveness (`EverybodyServed`,
`ExitIsObeyed`, `CommandsObeyed`, `EverythingShown`) is
outside what the prover does, as it rests on fairness and so on `ENABLED`. The runs that
expect a violation have no theorem, of course.

## 6. Not modelled, and the plan

| Part | Why |
|---|---|
| Socket set-up, arguments, `usage` | one-shot I/O: it succeeds or the process ends |
| Printing, the texts of replies | wording; that a reply is sent is in `Server` |
| `strtok` on a line | text handling; which lines are sent is in `Uplink` |
| Memory leaks | nothing depends on them |
| Failing allocations | `DIE` ends the process, as in `CallFails` |
| The byte behind `tcp_msg_buffer` | both `memset()` of the subscriber's loop clear one byte too many (`subscriber.c:163`, `:175`): `TCP_MSG_SIZE + 1` is `sizeof(TCP_msg) + 2`, for an array of `sizeof(TCP_msg) + 1`. What the compiler has put there is not known to the model |
| A size above that of a message | `SizeRead` is bounded by it; the code would let `recv()` write past the buffer |
| Descriptors in more than one word of an `fd_set` | `select()` clears what is above its bound in the last word it looks at; beyond 64 descriptors a bit above could stay set from `read_fds` |
| A network that cuts the identifier itself | `Uplink` takes a first `recv()` of a part of it as the identifier; whose it then is, is not modelled |
| `test.py`, `Makefile`, `udp_client.py` | tools; the publisher is the environment of `Server`, `SelectLoop` and `WireFormat` |

What is left of the plan: what could still be proved is how the parts fit together. `Uplink` and `Downlink` could each
be shown to implement a queue of commands and of messages when the network cuts
nothing, and `Server` with any number of identifiers to implement a weaker mailbox, one that
may lose what is kept when a number is reused.
