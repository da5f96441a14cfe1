------------------------------ MODULE MCDriver ------------------------------
(* Instances of Driver: every program of a few modules, built twice. *)
EXTENDS Driver, TLC

Three == {"a", "b", "c"}
Items == {[mod |-> m, call |-> m] : m \in Module} \cup {[mod |-> "c", call |-> "b"]}
Lists == UNION {[1 .. n -> Items] : n \in 0 .. 2}
=============================================================================
