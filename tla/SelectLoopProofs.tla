--------------------------- MODULE SelectLoopProofs ---------------------------
(* Theorems about module SelectLoop, and their proofs. *)
EXTENDS SelectLoop, TLAPS, SequenceTheorems

(* Descriptor j has what its handler will read. *)
HasInput(j) ==
  \/ j = STDIN_FILENO /\ (typed # <<>> \/ eof)
  \/ j \in pending /\ (j \in ClientFds => IsOpen(j))
  \/ j \in ClientFds /\ link[j] = "closed"

(***************************************************************************)
(* The inductive invariant behind RecvNeverBlocks.  What select() reported *)
(* holds for all of temp_fds and not only below the bound: an accept later *)
(* in the same scan can raise the bound again.  It survives the handlers   *)
(* because read_fds has open sockets only, so that no newcomer can get the *)
(* number of a descriptor that was reported.                               *)
(***************************************************************************)
LoopInv ==
  /\ TypeOK
  /\ \A s \in read_fds : IsOpen(s)
  /\ \A j \in temp_fds : HasInput(j)
  /\ pc = "word" => STDIN_FILENO \notin temp_fds
  /\ pc = "identifier" => newcomer \notin temp_fds

-----------------------------------------------------------------------------
(* Every variable keeps its type, and the bound stays between the listening *)
(* socket and the last descriptor (server.c:120, 166-168, 218).             *)

LEMMA FdsAreNat ==
  /\ Fds \subseteq Nat
  /\ STDIN_FILENO \in Fds /\ udp_socket \in Fds /\ tcp_socket \in Fds
  /\ ClientFds \subseteq Fds
  /\ STDIN_FILENO \notin ClientFds /\ udp_socket \notin ClientFds
  /\ tcp_socket \notin ClientFds
  /\ udp_socket # STDIN_FILENO /\ tcp_socket # STDIN_FILENO
  BY FdAssumption, SelectAssumption DEF Fds, ClientFds, STDIN_FILENO

(* The words of a line, behind the first one, fit what stdio may hold. *)
LEMMA LineType ==
  ASSUME NEW line \in Lines, line # <<>>
  PROVE  Tail(line) \in {<<>>, <<"exit">>}
<1>1. CASE line = <<"exit">>
  BY <1>1
<1>2. CASE line = <<"other", "exit">>
  BY <1>2
<1>. QED BY <1>1, <1>2 DEF Lines

LEMMA TypeInit == Init => TypeOK
<1>1. <<>> \in Seq(Lines) /\ Len(<<>>) = 0
  BY EmptySeq
<1>2. Init => FdTypeOK
  BY FdAssumption DEF Init, FdInit, FdTypeOK, LinkStates
<1>3. Init => newcomer \in IF pc = "identifier" THEN ClientFds ELSE {0}
  BY DEF Init
<1>4. Init => spoken \in BOOLEAN /\ eof \in BOOLEAN
  BY Zenon DEF Init
<1>. QED BY <1>1, <1>2, <1>3, <1>4, FdAssumption, SelectAssumption
     DEF Init, TypeOK, FdInit

LEMMA PeersType == TypeOK /\ Peers => TypeOK'
<1>. SUFFICES ASSUME TypeOK, Peers PROVE TypeOK'
  OBVIOUS
<1>. USE DEF TypeOK, FdTypeOK, loopVars, userVars, fdVars
<1>1. CASE Datagram
  BY <1>1, FdsAreNat DEF Datagram
<1>2. CASE Connect
  BY <1>2, FdsAreNat DEF Connect
<1>3. CASE SendId
  BY <1>3 DEF SendId
<1>4. CASE TypeLine
  <2>1. PICK line \in Lines : typed' = Append(typed, line)
    BY <1>4 DEF TypeLine
  <2>2. typed' \in Seq(Lines) /\ Len(typed') <= MaxLines
    BY <1>4, <2>1, SelectAssumption DEF TypeLine
  <2>. QED BY <1>4, <2>2 DEF TypeLine
<1>5. CASE CloseStdin
  BY <1>5 DEF CloseStdin
<1>6. ASSUME NEW s \in ClientFds, Command(s) PROVE TypeOK'
  BY <1>6, FdsAreNat DEF Command
<1>7. ASSUME NEW s \in ClientFds, ClientCloses(s) PROVE TypeOK'
  BY <1>7 DEF ClientCloses, LinkStates
<1>. QED BY <1>1, <1>2, <1>3, <1>4, <1>5, <1>6, <1>7 DEF Peers

LEMMA AboveFds == TypeOK => \A j \in Fds : Above(j) \subseteq Fds
  BY DEF TypeOK, Above

LEMMA WordType ==
  ASSUME NEW words \in Lines, words # <<>>, TakeWord(words)
  PROVE  buffered' \in {<<>>, <<"exit">>} /\ pc' \in {"loop", "exited"}
  BY LineType DEF TakeWord

LEMMA ServerType == TypeOK /\ ServerStep => TypeOK'
<1>. SUFFICES ASSUME TypeOK, ServerStep PROVE TypeOK'
  OBVIOUS
<1>. USE DEF TypeOK, FdTypeOK, loopVars, userVars, fdVars
<1>a. \A j \in Fds : Above(j) \subseteq Fds
  BY AboveFds
<1>1. CASE Select
  BY <1>1 DEF Select, Ready
<1>2. CASE ReadBuffered
  <2>1. buffered \in Lines
    BY <1>2 DEF ReadBuffered, Lines
  <2>2. newcomer = 0
    BY <1>2 DEF ReadBuffered, Turn
  <2>. QED BY <1>2, <2>1, <2>2, WordType, <1>a, FdsAreNat DEF ReadBuffered
<1>3. CASE ReadLine
  <2>1. /\ Head(typed) \in Lines
        /\ Tail(typed) \in Seq(Lines) /\ Len(Tail(typed)) <= MaxLines
    BY <1>3, SelectAssumption DEF ReadLine
  <2>2. buffered' \in {<<>>, <<"exit">>} /\ pc' \in {"loop", "word", "exited"}
    BY <1>3, <2>1, WordType DEF ReadLine
  <2>3. newcomer = 0
    BY <1>3 DEF ReadLine, Turn
  <2>. QED BY <1>3, <2>1, <2>2, <2>3, <1>a, FdsAreNat DEF ReadLine
<1>4. CASE ReadEof
  <2>1. newcomer = 0
    BY <1>4 DEF ReadEof, Turn
  <2>. QED BY <1>4, <2>1, <1>a, FdsAreNat DEF ReadEof
<1>5. CASE ServeUdp
  BY <1>5, <1>a, FdsAreNat DEF ServeUdp
<1>6. CASE ReceiveId
  <2>1. newcomer \in ClientFds
    BY <1>6 DEF ReceiveId
  <2>2. FdTypeOK' /\ fdmax' \in tcp_socket .. MaxFd /\ prev_fdmax' = prev_fdmax
    BY <1>6, <2>1 DEF ReceiveId, Unwatch, LinkStates
  <2>3. /\ pc' = "loop" /\ newcomer' = 0 /\ spoken' = FALSE
        /\ UNCHANGED <<temp_fds, pending, userVars, buffered>>
    BY <1>6 DEF ReceiveId
  <2>4. newcomer' \in IF pc' = "identifier" THEN ClientFds ELSE {0}
    BY <2>3
  <2>. QED BY <2>2, <2>3, <2>4
<1>7. ASSUME NEW s \in ClientFds, Accept(s) PROVE TypeOK'
  <2>1. fdmax' \in tcp_socket .. MaxFd
    BY <1>7, FdAssumption DEF Accept, Watch, MaxOf, ClientFds
  <2>2. newcomer' \in IF pc' = "identifier" THEN ClientFds ELSE {0}
    BY <1>7 DEF Accept
  <2>3. spoken' \in BOOLEAN
    BY <1>7, Zenon DEF Accept
  <2>4. FdTypeOK'
    BY <1>7, <2>1, FdAssumption DEF Accept, Watch, LinkStates
  <2>5. prev_fdmax' \in tcp_socket .. MaxFd
    BY <1>7 DEF Accept, Watch
  <2>6. temp_fds' \subseteq Fds /\ pc' \in {"loop", "identifier", "word", "exited"}
    BY <1>7, <1>a, FdsAreNat DEF Accept
  <2>7. pending' \subseteq Fds \ {STDIN_FILENO} /\ UNCHANGED <<typed, eof, buffered>>
    BY <1>7 DEF Accept
  <2>. QED BY <2>1, <2>2, <2>3, <2>4, <2>5, <2>6, <2>7
<1>8. ASSUME NEW s \in ClientFds, ServeClient(s) PROVE TypeOK'
  BY <1>8, <1>a, FdsAreNat DEF ServeClient, Unwatch, LinkStates
<1>. QED BY <1>1, <1>2, <1>3, <1>4, <1>5, <1>6, <1>7, <1>8 DEF ServerStep

LEMMA TypeStep == TypeOK /\ [Next]_vars => TypeOK'
<1>. SUFFICES ASSUME TypeOK, [Next]_vars PROVE TypeOK'
  OBVIOUS
<1>1. CASE UNCHANGED vars
  BY <1>1 DEF TypeOK, FdTypeOK, vars, fdVars, loopVars, userVars
<1>. QED BY <1>1, PeersType, ServerType DEF Next

(* The loop's state keeps its type, and the bound given to select() never  *)
(* drops below the listening socket (server.c:120, 166-168, 218).          *)
THEOREM LoopTypeCorrect == Spec => []TypeOK
  BY TypeInit, TypeStep, PTL DEF Spec

-----------------------------------------------------------------------------
(* What select() reported stays true until its handler runs.               *)

LEMMA LoopInit == Init => LoopInv
<1>. SUFFICES ASSUME Init PROVE LoopInv
  OBVIOUS
<1>1. TypeOK
  BY TypeInit
<1>2. read_fds = {} /\ temp_fds = {} /\ pc = "loop"
  BY DEF Init, FdInit
<1>. QED BY <1>1, <1>2 DEF LoopInv

(* The peers and the user only add input, and open or close no descriptor  *)
(* of the server.                                                          *)
LEMMA PeersKeep == LoopInv /\ Peers => LoopInv'
<1>. SUFFICES ASSUME LoopInv, Peers PROVE LoopInv'
  OBVIOUS
<1>. USE DEF loopVars, userVars, fdVars
<1>t. TypeOK /\ TypeOK'
  BY PeersType DEF LoopInv
<1>1. /\ UNCHANGED <<temp_fds, newcomer, read_fds, pc>>
      /\ pending \subseteq pending'
      /\ typed # <<>> => typed' # <<>>
      /\ eof => eof'
      /\ \A s \in ClientFds : /\ IsOpen(s) => IsOpen(s)'
                              /\ link[s] = "closed" => link'[s] = "closed"
  <2>1. CASE Datagram
    BY <2>1 DEF Datagram, IsOpen
  <2>2. CASE Connect
    BY <2>2 DEF Connect, IsOpen
  <2>3. CASE SendId
    BY <2>3 DEF SendId, IsOpen
  <2>4. CASE TypeLine
    BY <2>4, <1>t DEF TypeLine, IsOpen, TypeOK
  <2>5. CASE CloseStdin
    BY <2>5 DEF CloseStdin, IsOpen
  <2>6. ASSUME NEW s \in ClientFds, Command(s)
        PROVE  <1>1!:
    BY <2>6 DEF Command, IsOpen
  <2>7. ASSUME NEW s \in ClientFds, ClientCloses(s)
        PROVE  <1>1!:
    BY <2>7, <1>t DEF ClientCloses, IsOpen, PeerOpen, TypeOK, FdTypeOK
  <2>. QED BY <2>1, <2>2, <2>3, <2>4, <2>5, <2>6, <2>7 DEF Peers
<1>2. \A s \in read_fds' : IsOpen(s)'
  BY <1>1, <1>t DEF LoopInv, TypeOK, FdTypeOK
<1>3. \A j \in temp_fds' : HasInput(j)'
  BY <1>1 DEF LoopInv, HasInput
<1>. QED BY <1>t, <1>1, <1>2, <1>3 DEF LoopInv

(* The handlers of STDIN take from STDIN only, which the scan then leaves. *)
LEMMA StdinKeeps == LoopInv /\ (ReadBuffered \/ ReadLine \/ ReadEof) => LoopInv'
<1>. SUFFICES ASSUME LoopInv, ReadBuffered \/ ReadLine \/ ReadEof PROVE LoopInv'
  OBVIOUS
<1>t. TypeOK /\ TypeOK'
  BY ServerType DEF LoopInv, ServerStep
<1>1. /\ UNCHANGED <<read_fds, link, pending>>
      /\ temp_fds' = Above(STDIN_FILENO)
      /\ pc' # "identifier"
  BY DEF ReadBuffered, ReadLine, ReadEof, TakeWord, fdVars
<1>2. \A j \in temp_fds' : j \in temp_fds /\ j # STDIN_FILENO
  BY <1>1 DEF Above, STDIN_FILENO
<1>3. \A j \in temp_fds' : HasInput(j)'
  BY <1>1, <1>2 DEF LoopInv, HasInput, IsOpen
<1>4. \A s \in read_fds' : IsOpen(s)'
  BY <1>1 DEF LoopInv, IsOpen
<1>. QED BY <1>t, <1>1, <1>2, <1>3, <1>4 DEF LoopInv

(* A handler that changes neither STDIN nor the state of a descriptor that *)
(* is still reported, and takes input from none of those, keeps the rest.  *)
LEMMA OthersKeep ==
  ASSUME LoopInv, UNCHANGED <<typed, eof>>, temp_fds' \subseteq temp_fds,
         \A j \in temp_fds' : j \in pending => j \in pending',
         \A j \in temp_fds' \intersect ClientFds : link'[j] = link[j]
  PROVE  \A j \in temp_fds' : HasInput(j)'
  BY DEF LoopInv, HasInput, IsOpen

LEMMA AboveIsLess == \A j : Above(j) \subseteq temp_fds
  BY DEF Above

LEMMA AboveLeaves == \A j \in Int : j \notin Above(j)
  BY DEF Above

(* A newcomer gets a descriptor that was not open, hence not reported.     *)
LEMMA AcceptKeeps ==
  ASSUME LoopInv, TypeOK', NEW s \in ClientFds, Accept(s)
  PROVE  LoopInv'
<1>t. TypeOK
  BY DEF LoopInv
<1>1. ~IsOpen(s) /\ s \notin temp_fds
  BY FdsAreNat DEF LoopInv, HasInput, Accept, LowestFree, IsOpen
<1>2. temp_fds' = Above(tcp_socket) /\ tcp_socket \notin temp_fds'
  BY AboveLeaves, FdAssumption DEF Accept
<1>3. link' = [link EXCEPT ![s] = "up"]
  BY DEF Accept
<1>4. \A j \in temp_fds' : HasInput(j)'
  <2>1. \A j \in temp_fds' \intersect ClientFds : link'[j] = link[j]
    BY <1>1, <1>2, <1>3, <1>t, AboveIsLess DEF TypeOK, FdTypeOK
  <2>2. \A j \in temp_fds' : j \in pending => j \in pending'
    BY <1>2 DEF Accept
  <2>. QED BY <2>1, <2>2, <1>2, AboveIsLess, OthersKeep DEF Accept, userVars
<1>5. \A r \in read_fds' : IsOpen(r)'
  BY <1>3, <1>t DEF LoopInv, TypeOK, FdTypeOK, IsOpen, Accept, Watch
<1>6. pc' = "identifier" /\ newcomer' = s /\ s \notin temp_fds'
  BY <1>1, <1>2, AboveIsLess DEF Accept
<1>. QED BY <1>4, <1>5, <1>6 DEF LoopInv

(* The refused newcomer was not reported either.                           *)
LEMMA ReceiveIdKeeps ==
  ASSUME LoopInv, TypeOK', ReceiveId
  PROVE  LoopInv'
<1>t. TypeOK /\ newcomer \in ClientFds /\ newcomer \notin temp_fds
  BY DEF LoopInv, TypeOK, ReceiveId
<1>1. /\ temp_fds' = temp_fds /\ pending' = pending /\ pc' = "loop"
      /\ UNCHANGED <<typed, eof>>
  BY DEF ReceiveId, userVars
<1>2. \A r \in ClientFds : r # newcomer => link'[r] = link[r]
  BY <1>t DEF ReceiveId, fdVars, TypeOK, FdTypeOK
<1>3. (read_fds' = read_fds /\ link' = link) \/ read_fds' = read_fds \ {newcomer}
  BY DEF ReceiveId, fdVars, Unwatch
<1>4. \A j \in temp_fds' : HasInput(j)'
  BY <1>t, <1>1, <1>2, OthersKeep
<1>5. \A r \in read_fds' : IsOpen(r)'
  BY <1>t, <1>2, <1>3 DEF LoopInv, IsOpen, TypeOK, FdTypeOK
<1>. QED BY <1>1, <1>4, <1>5 DEF LoopInv

(* What a client's handler takes or closes is its own socket's.            *)
LEMMA ServeClientKeeps ==
  ASSUME LoopInv, TypeOK', NEW s \in ClientFds, ServeClient(s)
  PROVE  LoopInv'
<1>t. TypeOK /\ s \in Int
  BY FdAssumption DEF LoopInv, ClientFds
<1>1. /\ temp_fds' = Above(s) /\ temp_fds' \subseteq temp_fds /\ s \notin temp_fds'
      /\ pc' = "loop" /\ UNCHANGED <<typed, eof>>
  BY <1>t, AboveIsLess, AboveLeaves DEF ServeClient, Turn, userVars
<1>2. \A r \in ClientFds : r # s => link'[r] = link[r]
  BY <1>t DEF ServeClient, fdVars, TypeOK, FdTypeOK
<1>3. (read_fds' = read_fds /\ link' = link) \/ read_fds' = read_fds \ {s}
  BY DEF ServeClient, fdVars, Unwatch
<1>4. \A j \in temp_fds' : j \in pending => j \in pending'
  BY <1>1 DEF ServeClient
<1>5. \A j \in temp_fds' : HasInput(j)'
  BY <1>1, <1>2, <1>4, OthersKeep
<1>6. \A r \in read_fds' : IsOpen(r)'
  BY <1>t, <1>2, <1>3 DEF LoopInv, IsOpen, TypeOK, FdTypeOK
<1>. QED BY <1>1, <1>5, <1>6 DEF LoopInv

LEMMA LoopStep == LoopInv /\ [Next]_vars => LoopInv'
<1>. SUFFICES ASSUME LoopInv, [Next]_vars PROVE LoopInv'
  OBVIOUS
<1>t. TypeOK /\ TypeOK'
  BY TypeStep DEF LoopInv
<1>1. CASE UNCHANGED vars
  BY <1>1, <1>t
     DEF LoopInv, HasInput, IsOpen, vars, fdVars, loopVars, userVars
<1>2. CASE Peers
  BY <1>2, PeersKeep
<1>3. CASE Select
  <2>1. \A j \in Ready : HasInput(j)
    BY <1>t DEF Ready, HasInput, LoopInv, TypeOK, FdTypeOK
  <2>2. UNCHANGED <<read_fds, link, pending, typed, eof>> /\ pc' = "loop"
    BY <1>3 DEF Select, fdVars, userVars
  <2>3. temp_fds' = Ready
    BY <1>3 DEF Select
  <2>4. \A j \in temp_fds' : HasInput(j)'
    BY <2>1, <2>2, <2>3 DEF HasInput, IsOpen
  <2>5. \A s \in read_fds' : IsOpen(s)'
    BY <2>2 DEF LoopInv, IsOpen
  <2>. QED BY <1>t, <2>2, <2>4, <2>5 DEF LoopInv
<1>4. CASE ReadBuffered \/ ReadLine \/ ReadEof
  BY <1>4, StdinKeeps
<1>5. CASE ServeUdp
  <2>1. /\ temp_fds' \subseteq temp_fds /\ udp_socket \notin temp_fds'
        /\ pc' = "loop" /\ UNCHANGED <<read_fds, link, typed, eof>>
        /\ pending' = pending \ {udp_socket}
    BY <1>5, AboveIsLess, AboveLeaves, SelectAssumption
       DEF ServeUdp, Turn, fdVars, userVars
  <2>2. \A j \in temp_fds' : HasInput(j)'
    BY <2>1, OthersKeep
  <2>3. \A s \in read_fds' : IsOpen(s)'
    BY <2>1 DEF LoopInv, IsOpen
  <2>. QED BY <1>t, <2>1, <2>2, <2>3 DEF LoopInv
<1>6. CASE ReceiveId
  BY <1>6, <1>t, ReceiveIdKeeps
<1>7. ASSUME NEW s \in ClientFds, Accept(s) PROVE LoopInv'
  BY <1>7, <1>t, AcceptKeeps
<1>8. ASSUME NEW s \in ClientFds, ServeClient(s) PROVE LoopInv'
  BY <1>8, <1>t, ServeClientKeeps
<1>. QED BY <1>1, <1>2, <1>3, <1>4, <1>5, <1>6, <1>7, <1>8 DEF Next, ServerStep

(* No handler reads from a descriptor that is closed or has nothing, which *)
(* would stop the server for everybody: what select() reported stays so    *)
(* through the accepts, refusals and ends of one scan, for any number of   *)
(* descriptors (server.c:123-126 against :164-230).                        *)
THEOREM ReceiveNeverBlocks == Spec => []RecvNeverBlocks
<1>1. LoopInv => RecvNeverBlocks
  BY DEF LoopInv, RecvNeverBlocks, Remaining, HasInput
<1>. QED BY <1>1, LoopInit, LoopStep, PTL DEF Spec

=============================================================================
