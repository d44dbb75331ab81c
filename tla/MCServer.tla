------------------------------ MODULE MCServer ------------------------------
(* Small instances of Server for TLC. *)
EXTENDS ServerMailbox

(* The behaviour does not depend on the names of the identifiers. *)
IdSymmetry == Permutations(Ids)

(* Nor on the names of the topics, among those that leave room for their   *)
(* terminator.                                                             *)
NameSymmetry == Permutations(RoomyNames)

=============================================================================
