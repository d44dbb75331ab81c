------------------------------ MODULE SelectLoop ------------------------------
(***************************************************************************)
(* The main loop of the broker (server.c:118-245) in its own steps: the    *)
(* call of select(), then the scan of the descriptors it reported, in      *)
(* ascending order and under a bound that handlers change on the way, with *)
(* the two places where a handler waits for its peer: recv() of the        *)
(* identifier after accept(), and fscanf() of a word from STDIN.           *)
(*                                                                         *)
(* What a handler does to subscribers and topics, and how it may end the   *)
(* process, is in Server; here it is one step that succeeds.               *)
(*                                                                         *)
(* Nothing is bounded but the number of descriptors and of lines not yet   *)
(* read: peers connect, speak and leave for ever, and what waits on a      *)
(* descriptor stands for one item or many.  All descriptors are in one     *)
(* word of an fd_set, where select() clears every bit above its bound.     *)
(***************************************************************************)
EXTENDS FdTable, Sequences

CONSTANTS
  udp_socket,
  MaxLines     \* bound: lines typed and not yet read

STDIN_FILENO == 0

ASSUME SelectAssumption ==
  /\ udp_socket \in Nat
  /\ STDIN_FILENO < udp_socket
  /\ udp_socket < tcp_socket
  /\ MaxLines \in Nat

VARIABLES
  temp_fds,  \* reported by select() and not reached yet by the scan
  pc,        \* "loop", waiting for an "identifier" or a "word", or "exited"
  newcomer,  \* the socket whose identifier is awaited, 0 for none
  spoken,    \* its identifier has been sent
  pending,   \* sockets on which a datagram, a connection or a command waits
  typed,     \* lines of STDIN in the kernel: what select() sees
  buffered,  \* words of STDIN in the buffer of stdio: what it does not see
  eof        \* STDIN has been closed

userVars == <<typed, eof>>
loopVars == <<temp_fds, pc, newcomer, spoken>>
vars == <<fdVars, loopVars, pending, userVars, buffered>>

(* A blank line, the command, and the command behind another word. *)
Lines == {<<>>, <<"exit">>, <<"other", "exit">>}

Fds == {STDIN_FILENO, udp_socket, tcp_socket} \union ClientFds

TypeOK ==
  /\ FdTypeOK
  /\ fdmax \in tcp_socket .. MaxFd /\ prev_fdmax \in tcp_socket .. MaxFd
  /\ temp_fds \subseteq Fds
  /\ pc \in {"loop", "identifier", "word", "exited"}
  /\ newcomer \in IF pc = "identifier" THEN ClientFds ELSE {0}
  /\ spoken \in BOOLEAN
  /\ pending \subseteq Fds \ {STDIN_FILENO}
  /\ typed \in Seq(Lines) /\ Len(typed) <= MaxLines
  /\ buffered \in {<<>>, <<"exit">>}
  /\ eof \in BOOLEAN

Init ==
  /\ FdInit
  /\ temp_fds = {}
  /\ pc = "loop"
  /\ newcomer = 0
  /\ spoken = FALSE
  /\ pending = {}
  /\ typed = <<>>
  /\ buffered = <<>>
  /\ eof = FALSE

-----------------------------------------------------------------------------
(* The peers and the user. *)

Running == pc # "exited"

Datagram ==
  /\ Running
  /\ pending' = pending \union {udp_socket}
  /\ UNCHANGED <<fdVars, loopVars, userVars, buffered>>

(* There is a descriptor for everyone who connects. *)
Connect ==
  /\ Running
  /\ \E s \in ClientFds : ~IsOpen(s)
  /\ pending' = pending \union {tcp_socket}
  /\ UNCHANGED <<fdVars, loopVars, userVars, buffered>>

(* A command sent behind the identifier is taken with it: see Uplink. *)
Command(s) ==
  /\ Running
  /\ PeerOpen(s)
  /\ s # newcomer
  /\ pending' = pending \union {s}
  /\ UNCHANGED <<fdVars, loopVars, userVars, buffered>>

ClientCloses(s) ==
  /\ Running
  /\ PeerOpen(s)
  /\ link' = [link EXCEPT ![s] = "closed"]
  /\ UNCHANGED <<read_fds, fdmax, prev_fdmax, loopVars, pending, userVars, buffered>>

(* The subscriber sends its identifier as soon as it has connected         *)
(* (subscriber.c:81).  Doing so before accept() is the same to the server. *)
SendId ==
  /\ pc = "identifier"
  /\ PeerOpen(newcomer)
  /\ spoken' = TRUE
  /\ UNCHANGED <<fdVars, temp_fds, pc, newcomer, pending, userVars, buffered>>

TypeLine ==
  /\ Running
  /\ ~eof
  /\ Len(typed) < MaxLines
  /\ \E line \in Lines : typed' = Append(typed, line)
  /\ UNCHANGED <<fdVars, loopVars, pending, buffered, eof>>

CloseStdin ==
  /\ Running
  /\ eof' = TRUE
  /\ UNCHANGED <<fdVars, loopVars, pending, typed, buffered>>

-----------------------------------------------------------------------------
(* The server. *)

(* A faulty form: the scan begins at the descriptor after STDIN. *)
Remaining_FromOne == {j \in temp_fds : 1 <= j /\ j <= fdmax}

(* The scan goes up to fdmax as it is now, not as it was for select(). *)
Remaining == {j \in temp_fds : j <= fdmax}

(* The scan has come to descriptor j. *)
Turn(j) ==
  /\ pc = "loop"
  /\ j \in Remaining
  /\ \A k \in Remaining : j <= k

(* A faulty form: one descriptor is served for each call of select(). *)
Above_Nothing(j) == {}

(* What the scan has still before it after j. *)
Above(j) == {k \in temp_fds : k > j}

Ready ==
  {j \in Fds :
     /\ j <= fdmax
     /\ \/ j = STDIN_FILENO /\ (typed # <<>> \/ eof)
        \/ j \in pending \ ClientFds
        \/ j \in read_fds /\ (j \in pending \/ link[j] = "closed")}

(* select() returns when a descriptor is ready. *)
Select ==
  /\ pc = "loop"
  /\ Remaining = {}
  /\ Ready # {}
  /\ temp_fds' = Ready
  /\ UNCHANGED <<fdVars, pc, newcomer, spoken, pending, userVars, buffered>>

(* fscanf() takes the first word; the others stay in the buffer. *)
TakeWord(words) ==
  /\ buffered' = Tail(words)
  /\ pc' = IF Head(words) = "exit" THEN "exited" ELSE "loop"

(* A word is there already. *)
ReadBuffered ==
  /\ Turn(STDIN_FILENO)
  /\ buffered # <<>>
  /\ TakeWord(buffered)
  /\ temp_fds' = Above(STDIN_FILENO)
  /\ UNCHANGED <<fdVars, newcomer, spoken, pending, userVars>>

(* fscanf() reads a line of a terminal, and another one if it was blank.    *)
(* (From a pipe it would take all that is typed into the buffer of stdio.) *)
ReadLine ==
  /\ Turn(STDIN_FILENO) \/ pc = "word"
  /\ buffered = <<>>
  /\ typed # <<>>
  /\ typed' = Tail(typed)
  /\ \/ Head(typed) # <<>> /\ TakeWord(Head(typed))
     \/ Head(typed) = <<>> /\ pc' = "word" /\ UNCHANGED buffered
  /\ temp_fds' = Above(STDIN_FILENO)
  /\ UNCHANGED <<fdVars, newcomer, spoken, pending, eof>>

ReadEof ==
  /\ Turn(STDIN_FILENO) \/ pc = "word"
  /\ buffered = <<>> /\ typed = <<>> /\ eof
  /\ pc' = "loop"
  /\ temp_fds' = Above(STDIN_FILENO)
  /\ UNCHANGED <<fdVars, newcomer, spoken, pending, userVars, buffered>>

ServeUdp ==
  /\ Turn(udp_socket)
  /\ udp_socket \in pending
  /\ pending' = pending \ {udp_socket}
  /\ temp_fds' = Above(udp_socket)
  /\ UNCHANGED <<fdVars, pc, newcomer, spoken, userVars, buffered>>

(* A faulty form: the new socket is put into the set being scanned.        *)
Accept_IntoScan(s) ==
  /\ Turn(tcp_socket)
  /\ tcp_socket \in pending
  /\ LowestFree(s)
  /\ Watch(s)
  /\ link' = [link EXCEPT ![s] = "up"]
  /\ pending' = pending \ {tcp_socket}
  /\ pc' = "identifier"
  /\ newcomer' = s
  /\ spoken' = FALSE
  /\ temp_fds' = Above(tcp_socket) \union {s}
  /\ UNCHANGED <<userVars, buffered>>

Accept(s) ==
  /\ Turn(tcp_socket)
  /\ tcp_socket \in pending
  /\ LowestFree(s)
  /\ Watch(s)
  /\ link' = [link EXCEPT ![s] = "up"]
  /\ pending' = pending \ {tcp_socket}
  /\ pc' = "identifier"
  /\ newcomer' = s
  /\ spoken' = FALSE
  /\ temp_fds' = Above(tcp_socket)
  /\ UNCHANGED <<userVars, buffered>>

(* recv() returns the identifier, or nothing when the peer has gone: the   *)
(* newcomer is kept, or refused because the identifier is in use.          *)
ReceiveId ==
  /\ pc = "identifier"
  /\ spoken \/ ~PeerOpen(newcomer)
  /\ \/ UNCHANGED fdVars
     \/ /\ Unwatch(newcomer)
        /\ link' = [link EXCEPT ![newcomer] = "free"]
  /\ pc' = "loop"
  /\ newcomer' = 0
  /\ spoken' = FALSE
  /\ UNCHANGED <<temp_fds, pending, userVars, buffered>>

(* recv() on a client socket returns a command, or the end of the stream.  *)
ServeClient(s) ==
  /\ Turn(s)
  /\ \/ /\ s \in pending
        /\ pending' = pending \ {s}
        /\ UNCHANGED fdVars
     \/ /\ s \notin pending
        /\ link[s] = "closed"
        /\ Unwatch(s)
        /\ link' = [link EXCEPT ![s] = "free"]
        /\ UNCHANGED pending
  /\ temp_fds' = Above(s)
  /\ UNCHANGED <<pc, newcomer, spoken, userVars, buffered>>

-----------------------------------------------------------------------------
Peers ==
  \/ Datagram
  \/ Connect
  \/ SendId
  \/ TypeLine
  \/ CloseStdin
  \/ \E s \in ClientFds : Command(s) \/ ClientCloses(s)

ServerStep ==
  \/ Select
  \/ ReadBuffered
  \/ ReadLine
  \/ ReadEof
  \/ ServeUdp
  \/ ReceiveId
  \/ \E s \in ClientFds : Accept(s) \/ ServeClient(s)

Next == Peers \/ ServerStep

(***************************************************************************)
(* The process runs whenever nothing makes it wait, and a process that has *)
(* connected sends its identifier.  No other peer has to do anything, and  *)
(* the user may type, or not, for ever.                                    *)
(***************************************************************************)
Spec == Init /\ [][Next]_vars /\ WF_vars(ServerStep) /\ WF_vars(SendId)

-----------------------------------------------------------------------------
(* What select() reported is still so when the scan comes to it, although  *)
(* sockets were accepted, refused and closed since: no handler reads from  *)
(* a descriptor that is closed or has nothing, which would stop the server *)
(* (server.c:123-126 against :164-230).                                    *)
RecvNeverBlocks ==
  Running => \A j \in Remaining :
    \/ j = STDIN_FILENO /\ (typed # <<>> \/ eof)
    \/ j \in pending /\ (j \in ClientFds => IsOpen(j))
    \/ j \in ClientFds /\ link[j] = "closed"

(* Nobody starves, whatever the others do for ever: a datagram, a waiting  *)
(* connection or a command is handled at last (server.c:123), unless the   *)
(* server is left waiting for ever for a word after a blank line, or the   *)
(* bound drops below the socket (the run fdmax of Server).                 *)
EverybodyServed ==
  \A j \in Fds \ {STDIN_FILENO} :
    j \in pending ~> \/ j \notin pending
                     \/ pc = "exited"
                     \/ [](pc = "word")
                     \/ j \in ClientFds /\ ~Watched(j)

(* The command `exit` ends the server (server.c:132-138), even one that    *)
(* waits for a word, when it stands first in a line and stdio holds no     *)
(* word of an earlier one.                                                 *)
ExitIsObeyed ==
  (buffered = <<>> /\ typed # <<>> /\ Head(typed) = <<"exit">>) ~> pc = "exited"

=============================================================================
