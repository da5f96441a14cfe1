---------------------------- MODULE MCPmCommands ----------------------------
(* An instance of PmCommands: three packages, two of them in two versions, *)
(* the third offered by two places; manifests of one line, some of two.    *)
EXTENDS PmCommands, TLC

A(v) == [name |-> "a", url |-> "ua", min |-> v]
B(v) == [name |-> "b", url |-> "ub", min |-> v]
C(u) == [name |-> "c", url |-> u, min |-> 1]

Few == {{}} \cup {{d} : d \in {A(1), A(2), B(1), B(2), C("uc"), C("uw")}}
         \cup {{A(1), B(2)}, {B(1), C("uc")}}
=============================================================================
