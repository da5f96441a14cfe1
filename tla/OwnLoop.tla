------------------------------ MODULE OwnLoop ------------------------------
(***************************************************************************)
(* check_while (src/src/ownck.c) for any loop body: the flow at the entry  *)
(* of the loop is merged with what each round over the body sends back,    *)
(* until a round adds nothing.  What a round sends back is arbitrary here: *)
(* it depends on the body and on the loans, which are not part of the flow *)
(* and run on from round to round.                                         *)
(***************************************************************************)
EXTENDS OwnFlow, Naturals, FiniteSets

ASSUME FiniteAssumption == IsFiniteSet(Local)

VARIABLES
  before,  \* the flow where the loop begins
  entry,   \* the flow at its head, as far as it is known
  round,   \* rounds that changed it
  last,    \* what the last round sent back
  done     \* that added nothing
vars == <<before, entry, round, last, done>>

TypeOK ==
  /\ before \in Flow /\ ~before.dead
  /\ entry \in Flow /\ ~entry.dead
  /\ last \in Flow
  /\ round \in Nat
  /\ done \in BOOLEAN

Init ==
  /\ before \in {f \in Flow : ~f.dead}
  /\ entry = before
  /\ round = 0
  /\ last = DeadFlow
  /\ done = FALSE

\* Mutant of Again: the new flow takes the place of the old one.
AgainForget(back) ==
  /\ ~done
  /\ back # entry
  /\ entry' = back
  /\ last' = back
  /\ round' = round + 1
  /\ UNCHANGED <<before, done>>

\* The round sent back something new.
Again(back) ==
  /\ ~done
  /\ flow_join(entry, back) # entry
  /\ entry' = flow_join(entry, back)
  /\ last' = back
  /\ round' = round + 1
  /\ UNCHANGED <<before, done>>

\* Mutant of Settle: the rounds end whatever was sent back.
SettleEarly(back) ==
  /\ ~done
  /\ last' = back
  /\ done' = TRUE
  /\ UNCHANGED <<before, entry, round>>

\* It did not: the body is looked at a last time, with diagnostics.
Settle(back) ==
  /\ ~done
  /\ flow_join(entry, back) = entry
  /\ last' = back
  /\ done' = TRUE
  /\ UNCHANGED <<before, entry, round>>

Next == \E back \in Flow : Again(back) \/ Settle(back)

Spec == Init /\ [][Next]_vars

-----------------------------------------------------------------------------
Maybe(f) == {v \in Local : f.st[v] = "maybe"}

\* The entry leaves out nothing of the flow that enters the loop, nor of the
\* one that the body sends back: every state of a local that some number of
\* rounds of the program can produce is reported.
EntrySound == Covers(entry, before) /\ Covers(entry, last)

\* Every round that changes the entry makes one more local "maybe": so the
\* rounds are bounded by the number of locals (check_while allows itself
\* three, which OwnCheck shows to be too few).
RoundsBounded == round <= Cardinality(Maybe(entry))

=============================================================================
