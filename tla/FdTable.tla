------------------------------- MODULE FdTable -------------------------------
(***************************************************************************)
(* The server's descriptor bookkeeping (server.c): the set `read_fds` that *)
(* select() watches, its upper bound `fdmax`, and the saved bound          *)
(* `prev_fdmax`; beside them the kernel's view of every client socket.     *)
(*                                                                         *)
(* STDIN, the UDP socket and the listening socket are opened before the    *)
(* loop and never leave `read_fds`: they are not listed in it here.  The   *)
(* listening socket has the highest number of the three, so client sockets *)
(* are numbered from tcp_socket + 1.                                       *)
(***************************************************************************)
EXTENDS Integers

CONSTANTS
  tcp_socket,   \* number of the listening socket
  MaxFd         \* bound: the highest descriptor a client connection may get

ASSUME FdAssumption ==
  /\ tcp_socket \in Nat
  /\ MaxFd \in Nat
  /\ tcp_socket < MaxFd

VARIABLES
  read_fds,     \* client sockets in the set given to select()
  fdmax,
  prev_fdmax,
  link          \* the kernel's state of each client socket

fdVars == <<read_fds, fdmax, prev_fdmax, link>>

ClientFds == (tcp_socket + 1) .. MaxFd

(***************************************************************************)
(* "free": not an open descriptor of the server; "up": both ends open, and *)
(* the server has sent nothing yet; "fed": both ends open, and the server  *)
(* has sent something; "closed": the peer has closed after reading         *)
(* everything (the server will read end-of-file); "reset": the peer has    *)
(* closed with unread data in its buffer, which makes its kernel reset the *)
(* connection.                                                             *)
(***************************************************************************)
LinkStates == {"free", "up", "fed", "closed", "reset"}

FdTypeOK ==
  /\ read_fds \subseteq ClientFds
  /\ fdmax \in Int
  /\ prev_fdmax \in Int
  /\ link \in [ClientFds -> LinkStates]

FdInit ==
  /\ read_fds = {}
  /\ fdmax = tcp_socket
  /\ prev_fdmax = tcp_socket
  /\ link = [s \in ClientFds |-> "free"]

IsOpen(s) == link[s] # "free"

PeerOpen(s) == link[s] \in {"up", "fed"}

(* accept() returns the lowest descriptor that is not open. *)
LowestFree(s) ==
  /\ ~IsOpen(s)
  /\ \A t \in ClientFds : t < s => IsOpen(t)

(* select() looks at the descriptors 0 .. fdmax only. *)
Watched(s) == s \in read_fds /\ s <= fdmax

MaxOf(a, b) == IF a > b THEN a ELSE b

(* A faulty form: the accepted socket never raises the bound. *)
Watch_KeepsBound(s) ==
  /\ read_fds' = read_fds \union {s}
  /\ prev_fdmax' = fdmax
  /\ fdmax' = fdmax

(* The accepted socket s joins the set and the bound follows it. *)
Watch(s) ==
  /\ read_fds' = read_fds \union {s}
  /\ prev_fdmax' = fdmax
  /\ fdmax' = MaxOf(fdmax, s)

(* The accepted socket is refused: it leaves the set again, and the bound  *)
(* goes back to the value saved a moment before.                           *)
WatchAndDrop(s) ==
  /\ read_fds' = read_fds \ {s}
  /\ prev_fdmax' = fdmax
  /\ fdmax' = fdmax

(* A faulty form: the closed socket is left in the set. *)
Unwatch_KeepsSocket(s) ==
  /\ fdmax' = prev_fdmax
  /\ UNCHANGED <<read_fds, prev_fdmax>>

(* A faulty form: the bound drops to the socket below the closed one. *)
Unwatch_BelowSocket(s) ==
  /\ read_fds' = read_fds \ {s}
  /\ fdmax' = s - 1
  /\ prev_fdmax' = s - 2

(* The connection on s has ended.  The bound becomes the one saved at the  *)
(* latest accept, whichever socket that was.                               *)
Unwatch(s) ==
  /\ read_fds' = read_fds \ {s}
  /\ fdmax' = prev_fdmax
  /\ UNCHANGED prev_fdmax

=============================================================================
