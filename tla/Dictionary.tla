----------------------------- MODULE Dictionary -----------------------------
(***************************************************************************)
(* What an ordered index promises: a map from keys to values.              *)
(***************************************************************************)
CONSTANTS Key, Value, Absent

VARIABLE dict

Init == dict = [k \in Key |-> Absent]

Insert(k, v) == dict' = [dict EXCEPT ![k] = v]
Delete(k)    == dict' = [dict EXCEPT ![k] = Absent]

Next == \E k \in Key : Delete(k) \/ \E v \in Value : Insert(k, v)

Spec == Init /\ [][Next]_dict
=============================================================================
