----------------------------- MODULE OrderedMap -----------------------------
(* What a program is promised of a string-keyed HashMap: a finite function    *)
(* whose keys are listed in the order they were first inserted, a key that    *)
(* is given a new value staying where it is. Nothing here says how a key is   *)
(* found: HashMap implements it by open addressing.                           *)
EXTENDS Sequences, SequencesExt

CONSTANTS Keys, Values, NoValue

VARIABLES
  listed,        \* the keys of the map, in the order m.keys() gives them
  stored         \* [Keys -> Values \cup {NoValue}]: what m.get(key) gives

Init == listed = <<>> /\ stored = [k \in Keys |-> NoValue]

Insert(k, v) ==
  /\ listed' = IF k \in Range(listed) THEN listed ELSE Append(listed, k)
  /\ stored' = [stored EXCEPT ![k] = v]

RemoveKey(k) ==
  /\ \E n \in DOMAIN listed : listed[n] = k /\ listed' = RemoveAt(listed, n)
  /\ stored' = [stored EXCEPT ![k] = NoValue]

Next == \E k \in Keys : RemoveKey(k) \/ \E v \in Values : Insert(k, v)

Spec == Init /\ [][Next]_<<listed, stored>>
=============================================================================
