------------------------------- MODULE Mailbox -------------------------------
(***************************************************************************)
(* What the broker promises to the user of one identifier, without         *)
(* sockets, records or memory.  The line of the user is "away" (nobody has *)
(* announced the identifier, or its end has been noticed), "listening", or *)
(* "ended": the process is gone and the broker does not know yet.          *)
(*                                                                         *)
(* A message published while the line is listening is delivered at once;   *)
(* while it is away, it is kept if the topic is kept for, and delivered    *)
(* before anything newer when the user comes back.  Only what falls into   *)
(* "ended" is lost, with what was kept for a user that did not stay for    *)
(* it.  The broker may stop at any time.                                   *)
(***************************************************************************)
EXTENDS Naturals, Sequences

CONSTANTS
  Topics,
  MaxMsgs   \* bound: messages published

VARIABLES
  line,     \* "away", "listening" or "ended"
  option,   \* per topic: "none" (never asked for), "plain", or "kept" (SF)
  store,    \* per topic, the messages kept
  got,      \* per topic, the messages delivered
  last      \* number of the last message published, on any topic

vars == <<line, option, store, got, last>>

Init ==
  /\ line = "away"
  /\ option = [t \in Topics |-> "none"]
  /\ store = [t \in Topics |-> <<>>]
  /\ got = [t \in Topics |-> <<>>]
  /\ last = 0

(* The user comes, and is there to take what was kept, or gone already.    *)
Come ==
  /\ line = "away"
  /\ line' \in {"listening", "ended"}
  /\ got' = IF line' = "listening" THEN [t \in Topics |-> got[t] \o store[t]] ELSE got
  /\ store' = [t \in Topics |-> <<>>]
  /\ UNCHANGED <<option, last>>

End ==
  /\ line = "listening"
  /\ line' = "ended"
  /\ UNCHANGED <<option, store, got, last>>

(* The broker notices the end. *)
Leave ==
  /\ line = "ended"
  /\ line' = "away"
  /\ UNCHANGED <<option, store, got, last>>

(* A command of the user, handled while it is there or soon after.         *)
Choose(t) ==
  /\ line # "away"
  /\ option' \in [Topics -> {"none", "plain", "kept"}]
  /\ option'[t] # "none"
  /\ \A u \in Topics \ {t} : option'[u] = option[u]
  /\ UNCHANGED <<line, store, got, last>>

Publish(t) ==
  /\ last < MaxMsgs
  /\ last' = last + 1
  /\ got' = IF line = "listening" /\ option[t] # "none"
            THEN [got EXCEPT ![t] = Append(@, last')] ELSE got
  /\ store' = IF line = "away" /\ option[t] = "kept"
              THEN [store EXCEPT ![t] = Append(@, last')] ELSE store
  /\ UNCHANGED <<line, option>>

(* A message of a topic that this mailbox does not know. *)
PublishElsewhere ==
  /\ last < MaxMsgs
  /\ last' = last + 1
  /\ UNCHANGED <<line, option, store, got>>

Next ==
  \/ Come
  \/ End
  \/ Leave
  \/ \E t \in Topics : Choose(t) \/ Publish(t)
  \/ PublishElsewhere

Spec == Init /\ [][Next]_vars

=============================================================================
