------------------------------ MODULE ForkJoin ------------------------------
(***************************************************************************)
(* What scope: promises (docs/ja/spec/language-spec.md 3.2.1): every       *)
(* thread started in a scope has ended when the scope is left, and so a    *)
(* thread never ends before the threads it started in its own scopes.      *)
(***************************************************************************)
CONSTANTS Thread, Scope, Main, None

Owner(b) == b[1]

VARIABLES
  phase,   \* "new", "running" or "ended"
  within,  \* the scope a thread was started in, or None
  closed   \* the scopes that have been left

vars == <<phase, within, closed>>

AllEnded(b) == \A c \in Thread : within[c] = b => phase[c] = "ended"

Init ==
  /\ phase  = [c \in Thread |-> IF c = Main THEN "running" ELSE "new"]
  /\ within = [c \in Thread |-> None]
  /\ closed = {}

Start(c, b) ==
  /\ phase[c] = "new"
  /\ b # None => b \notin closed /\ phase[Owner(b)] = "running"
  /\ phase'  = [phase EXCEPT ![c] = "running"]
  /\ within' = [within EXCEPT ![c] = b]
  /\ UNCHANGED closed

End(c) ==
  /\ phase[c] = "running"
  /\ \A d \in Thread : within[d] # None /\ Owner(within[d]) = c => phase[d] = "ended"
  /\ phase' = [phase EXCEPT ![c] = "ended"]
  /\ UNCHANGED <<within, closed>>

Close(b) ==
  /\ phase[Owner(b)] = "running"
  /\ AllEnded(b)
  /\ closed' = closed \cup {b}
  /\ UNCHANGED <<phase, within>>

Next ==
  \/ \E c \in Thread, b \in Scope \cup {None} : Start(c, b)
  \/ \E c \in Thread : End(c)
  \/ \E b \in Scope : Close(b)

Spec == Init /\ [][Next]_vars

=============================================================================
