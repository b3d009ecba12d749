--------------------------- MODULE MCConfigStore ---------------------------
(* An instance of ConfigStore for TLC: one value that makes sense for the  *)
(* threshold and one that does not, two names, and the buzzer's on and off *)
(* with a value that is neither.                                           *)
EXTENDS ConfigStore

SaneValues == <<{1}, {1, 2}, {0, 1}>>
SaneOf == [id \in Ids |-> SaneValues[id + 1]]
SentOf == [id \in Ids |-> <<{0, 1}, {1, 2}, {0, 1, 2}>>[id + 1]]
DefaultOf == [id \in Ids |-> 1]
=============================================================================
