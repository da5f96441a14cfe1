-------------------------- MODULE MCThreadScope --------------------------
(* Instances of ThreadScope for TLC: which of the rules programs respect. *)
EXTENDS ThreadScope

FullRules    == AllRules
HandlesRules == {"join_once", "join_inside"}
NoJoinOnce   == AllRules \ {"join_once"}
=============================================================================
