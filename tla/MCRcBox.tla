------------------------------ MODULE MCRcBox ------------------------------
(* Instances of RcBox: what main and what drop methods may do. *)
EXTENDS RcBox, TLC

Main(main, drop) == [main |-> main, drop |-> drop]

InitOnly == Op \ {"write"}                   \* no x.f is overwritten
Shallow  == Op \ {"deep"}                    \* x.f.f is never assigned
NoFields == Op \ {"read", "write", "deep"}   \* no field is read or overwritten

Sound == {Main(InitOnly, InitOnly), Main(Shallow, NoFields)}
Steal == {Main({"new", "init", "write", "weak"}, {"upgrade", "read", "init"})}

\* What the theorems about counts ask of a program.
ASSUME MCStylesGentle == Styles # Steal => \A s \in Styles : Gentle(s)

SameBoxes == Permutations(Box)
=============================================================================
