---------------------------- MODULE ThreadScope ----------------------------
(***************************************************************************)
(* OS threads of a compiled program: pl_thread_spawn, pl_thread_join, the  *)
(* frames of "scope:" blocks (pl_scope_begin / pl_scope_end) and the drops *)
(* codegen emits around them (src/runtime/hosted.c, ND_SCOPE in            *)
(* src/src/codegen.c).                                                     *)
(*                                                                         *)
(* What a program may do with threads is what sema and ownck accept        *)
(* (check_spawn, scope_escape).  The constant Rules names the further      *)
(* obligations the documentation says accepted programs respect; a rule    *)
(* that is not in Rules is one the program breaks when it likes, as the    *)
(* compiler lets it.                                                       *)
(*                                                                         *)
(* Threads are numbered in the order they are spawned; thread 0 is main.   *)
(* A block is <<p, k>>: k = 0 is the body of p's function, k > 0 its k-th  *)
(* "scope:" block, whose frame (PlScope) has the same name.  Calls between *)
(* functions of one thread are inlined, the locals of a block are one      *)
(* value, and a panic (which ends the process) is left out.                *)
(***************************************************************************)
EXTENDS Naturals, FiniteSets

CONSTANTS
  MaxThreads,  \* bound: threads spawned by the program, main included
  MaxScopes,   \* bound: scope: blocks each thread opens
  MaxTotal,    \* bound: scope: blocks the threads open together
  Rules,       \* the obligations the program respects
  None         \* the NULL pointer / "no thread" / "no block"

AllRules ==
  { "join_once",    \* a handle is joined at most once
    "join_inside",  \* a handle recorded in a scope is used by the thread
                    \* that opened the scope, before its end
    "caught" }      \* an exception raised in a scope is caught in it

Thread == 0 .. (MaxThreads - 1)
Block  == Thread \X (0 .. MaxScopes)

ASSUME BoundsAssumption == MaxThreads \in Nat \ {0} /\ MaxScopes \in Nat /\ MaxTotal \in Nat
ASSUME RulesAssumption  == Rules \subseteq AllRules
ASSUME NoneAssumption   == None \notin Thread /\ None \notin Block

VARIABLES
  n,        \* threads spawned so far
  stage,    \* what each thread is doing
  waiting,  \* the PlThread pl_thread_join is looking at
  closing,  \* the frame pl_scope_end has popped and is emptying
  cur,      \* innermost block the thread is executing in
  parent,   \* lexical parent of a scope: block
  opened,   \* scope: blocks opened so far
  local,    \* the locals of a block: not yet, live, moved by the program (or
            \* overwritten, or dropped by an inner block), gone with the block
  left,     \* blocks that have been left
  top,      \* g_pl_scope of each thread
  outer,    \* PlScope.outer of each frame
  box,      \* the PlThread of each thread: none, live or freed
  joined,   \* PlThread.joined
  scoped,   \* PlThread.scoped
  frame,    \* the frame whose items record the thread
  holder,   \* the thread that holds the handle Thread[R]
  lent      \* the block whose local the thread borrows

ctlVars   == <<n, stage, waiting, closing>>
blockVars == <<cur, parent, opened, local, left>>
frameVars == <<top, outer>>
boxVars   == <<box, joined, scoped, frame, holder, lent>>
vars      == <<ctlVars, blockVars, frameVars, boxVars>>

Alive(p) == stage[p] \notin {"unborn", "done"}

(***************************************************************************)
(* pl_scope_register: record thread c in p's current frame, if there is    *)
(* one; from then on join leaves the PlThread for the end of the scope.    *)
(***************************************************************************)
Register(p, c) ==
  /\ frame'  = [frame EXCEPT ![c] = top[p]]
  /\ scoped' = [scoped EXCEPT ![c] = top[p] # None]

(***************************************************************************)
(* The locals p can pass by reference: its own, inside a scope: or not,    *)
(* and the one it borrows itself, inside a scope: only (E-SEND-1).         *)
(***************************************************************************)
Lendable(p) ==
  {b \in Block : b[1] = p /\ b \notin left /\ local[b] = "live"}
    \cup (IF cur[p][2] > 0 THEN {lent[p]} \ {None} ELSE {})

\* The handles p can move into the new thread (an "own" argument).
Giveable(p) ==
  {h \in Thread : holder[h] = p /\ ("join_inside" \in Rules => frame[h] = None)}

Spawn(p, b, h) ==
  LET c == n IN
  /\ stage[p] = "running"
  /\ n < MaxThreads
  /\ b \in Lendable(p) \cup {None}
  /\ h \in Giveable(p) \cup {None}
  /\ n'      = n + 1
  /\ box'    = [box EXCEPT ![c] = "live"]
  /\ joined' = [joined EXCEPT ![c] = FALSE]
  /\ Register(p, c)
  /\ stage'  = [stage EXCEPT ![c] = "running"]
  /\ holder' = [t \in Thread |-> IF t = c THEN p
                                 ELSE IF t = h THEN c ELSE holder[t]]
  /\ lent'   = [lent EXCEPT ![c] = b]
  /\ local'  = [local EXCEPT ![<<c, 0>>] = "live"]
  /\ UNCHANGED <<waiting, closing, cur, parent, opened, left, frameVars>>

\* pl_thread_trampoline ends: the body has returned and its locals are dropped.
Return(p) ==
  /\ stage[p] = "running"
  /\ cur[p][2] = 0
  /\ stage' = [stage EXCEPT ![p] = "done"]
  /\ local' = [local EXCEPT ![cur[p]] = "gone"]
  /\ left'  = left \cup {cur[p]}
  /\ UNCHANGED <<n, waiting, closing, cur, parent, opened, frameVars, boxVars>>

\* A live local is moved out, overwritten, or dropped by an inner block: also
\* one that a thread has borrowed, which nothing in ownck refuses.
Consume(p, b) ==
  /\ stage[p] = "running"
  /\ b[1] = p
  /\ b \notin left
  /\ local[b] = "live"
  /\ local' = [local EXCEPT ![b] = "moved"]
  /\ UNCHANGED <<ctlVars, cur, parent, opened, left, frameVars, boxVars>>

\* The scope: blocks opened so far, by all threads.
Opened == {b \in Block : b[2] \in 1 .. opened[b[1]]}

BeginScope(p) ==
  LET b == <<p, opened[p] + 1>> IN
  /\ stage[p] = "running"
  /\ opened[p] < MaxScopes
  /\ Cardinality(Opened) < MaxTotal
  /\ opened' = [opened EXCEPT ![p] = @ + 1]
  /\ parent' = [parent EXCEPT ![b] = cur[p]]
  /\ cur'    = [cur EXCEPT ![p] = b]
  /\ local'  = [local EXCEPT ![b] = "live"]
  /\ outer'  = [outer EXCEPT ![b] = top[p]]
  /\ top'    = [top EXCEPT ![p] = b]
  /\ UNCHANGED <<ctlVars, left, boxVars>>

(***************************************************************************)
(* t.join(): pl_thread_join looks at the PlThread of a handle p holds.     *)
(***************************************************************************)
Joinable(p, h) ==
  /\ holder[h] = p
  /\ "join_inside" \in Rules => \/ frame[h] = None
                                \/ scoped[h] /\ frame[h][1] = p

StartJoin(p, h) ==
  /\ stage[p] = "running"
  /\ Joinable(p, h)
  /\ stage'   = [stage EXCEPT ![p] = "joining"]
  /\ waiting' = [waiting EXCEPT ![p] = h]
  /\ holder'  = IF "join_once" \in Rules THEN [holder EXCEPT ![h] = None]
                                         ELSE holder
  /\ UNCHANGED <<n, closing, blockVars, frameVars,
                 box, joined, scoped, frame, lent>>

\* Mutant of EndScope: the locals of the block are dropped before the joins.
EndScopeDropFirst(p) ==
  /\ stage[p] = "running"
  /\ cur[p][2] > 0
  /\ stage'   = [stage EXCEPT ![p] = "ending"]
  /\ closing' = [closing EXCEPT ![p] = top[p]]
  /\ top'     = [top EXCEPT ![p] = IF top[p] = None THEN None ELSE outer[top[p]]]
  /\ local'   = [local EXCEPT ![cur[p]] = "gone"]
  /\ UNCHANGED <<n, waiting, cur, parent, opened, left, outer, boxVars>>

\* The end of a scope: block: pl_scope_end first pops the frame.
EndScope(p) ==
  /\ stage[p] = "running"
  /\ cur[p][2] > 0
  /\ stage'   = [stage EXCEPT ![p] = "ending"]
  /\ closing' = [closing EXCEPT ![p] = top[p]]
  /\ top'     = [top EXCEPT ![p] = IF top[p] = None THEN None ELSE outer[top[p]]]
  /\ UNCHANGED <<n, waiting, blockVars, outer, boxVars>>

\* The loop of pl_scope_end over the items: the next one to join.
Items(b) == {c \in Thread : b # None /\ frame[c] = b /\ scoped[c]}

\* Mutant of NextItem: the item keeps its mark while it is joined.
NextItemKeepMark(p, c) ==
  /\ stage[p] = "ending"
  /\ waiting[p] = None
  /\ c \in Items(closing[p])
  /\ waiting' = [waiting EXCEPT ![p] = c]
  /\ UNCHANGED <<n, stage, closing, blockVars, frameVars,
                 box, joined, scoped, frame, holder, lent>>

NextItem(p, c) ==
  /\ stage[p] = "ending"
  /\ waiting[p] = None
  /\ c \in Items(closing[p])
  /\ scoped'  = [scoped EXCEPT ![c] = FALSE]
  /\ waiting' = [waiting EXCEPT ![p] = c]
  /\ UNCHANGED <<n, stage, closing, blockVars, frameVars,
                 box, joined, frame, holder, lent>>

\* Mutant of FinishJoin: a recorded PlThread is freed by the first join.
FinishJoinFree(p) ==
  LET h == waiting[p] IN
  /\ stage[p] \in {"joining", "ending"}
  /\ h # None
  /\ joined[h] \/ stage[h] = "done"
  /\ joined'  = [joined EXCEPT ![h] = TRUE]
  /\ box'     = [box EXCEPT ![h] = "freed"]
  /\ waiting' = [waiting EXCEPT ![p] = None]
  /\ stage'   = [stage EXCEPT ![p] = IF @ = "joining" THEN "running" ELSE @]
  /\ UNCHANGED <<n, closing, blockVars, frameVars, scoped, frame, holder, lent>>

\* Mutant of FinishJoin: the join does not wait for the thread to end.
FinishJoinNoWait(p) ==
  LET h == waiting[p] IN
  /\ stage[p] \in {"joining", "ending"}
  /\ h # None
  /\ joined'  = [joined EXCEPT ![h] = TRUE]
  /\ box'     = [box EXCEPT ![h] = IF scoped[h] THEN @ ELSE "freed"]
  /\ waiting' = [waiting EXCEPT ![p] = None]
  /\ stage'   = [stage EXCEPT ![p] = IF @ = "joining" THEN "running" ELSE @]
  /\ UNCHANGED <<n, closing, blockVars, frameVars, scoped, frame, holder, lent>>

\* pl_thread_join returns; an unrecorded PlThread is freed on the way out.
FinishJoin(p) ==
  LET h == waiting[p] IN
  /\ stage[p] \in {"joining", "ending"}
  /\ h # None
  /\ joined[h] \/ stage[h] = "done"
  /\ joined'  = [joined EXCEPT ![h] = TRUE]
  /\ box'     = [box EXCEPT ![h] = IF scoped[h] THEN @ ELSE "freed"]
  /\ waiting' = [waiting EXCEPT ![p] = None]
  /\ stage'   = [stage EXCEPT ![p] = IF @ = "joining" THEN "running" ELSE @]
  /\ UNCHANGED <<n, closing, blockVars, frameVars, scoped, frame, holder, lent>>

\* Mutant of LeaveScope: the frame is given up after its first items.
LeaveScopeEarly(p) ==
  /\ stage[p] = "ending"
  /\ waiting[p] = None
  /\ stage'   = [stage EXCEPT ![p] = "running"]
  /\ closing' = [closing EXCEPT ![p] = None]
  /\ local'   = [local EXCEPT ![cur[p]] = "gone"]
  /\ left'    = left \cup {cur[p]}
  /\ cur'     = [cur EXCEPT ![p] = parent[cur[p]]]
  /\ UNCHANGED <<n, waiting, parent, opened, frameVars, boxVars>>

\* pl_scope_end returns and the drops codegen emitted for the block run.
LeaveScope(p) ==
  /\ stage[p] = "ending"
  /\ waiting[p] = None
  /\ Items(closing[p]) = {}
  /\ stage'   = [stage EXCEPT ![p] = "running"]
  /\ closing' = [closing EXCEPT ![p] = None]
  /\ local'   = [local EXCEPT ![cur[p]] = "gone"]
  /\ left'    = left \cup {cur[p]}
  /\ cur'     = [cur EXCEPT ![p] = parent[cur[p]]]
  /\ UNCHANGED <<n, waiting, parent, opened, frameVars, boxVars>>

(***************************************************************************)
(* A call inside a try: whose except clauses do not match fails in a       *)
(* scope: block.  scope_escape accepts it (the call is inside a try), and  *)
(* the generated code leaves the block through err.propagate, where        *)
(* pl_scope_end is not called and the locals of the block are not dropped. *)
(***************************************************************************)
Escape(p) ==
  /\ "caught" \notin Rules
  /\ stage[p] = "running"
  /\ cur[p][2] > 0
  /\ left' = left \cup {cur[p]}
  /\ cur'  = [cur EXCEPT ![p] = parent[cur[p]]]
  /\ UNCHANGED <<ctlVars, parent, opened, local, frameVars, boxVars>>

Init ==
  /\ n = 1
  /\ stage   = [t \in Thread |-> IF t = 0 THEN "running" ELSE "unborn"]
  /\ waiting = [t \in Thread |-> None]
  /\ closing = [t \in Thread |-> None]
  /\ cur     = [t \in Thread |-> <<t, 0>>]
  /\ parent  = [b \in Block |-> <<b[1], 0>>]
  /\ opened  = [t \in Thread |-> 0]
  /\ local   = [b \in Block |-> IF b = <<0, 0>> THEN "live" ELSE "none"]
  /\ left    = {}
  /\ top     = [t \in Thread |-> None]
  /\ outer   = [b \in Block |-> None]
  /\ box     = [t \in Thread |-> "none"]
  /\ joined  = [t \in Thread |-> FALSE]
  /\ scoped  = [t \in Thread |-> FALSE]
  /\ frame   = [t \in Thread |-> None]
  /\ holder  = [t \in Thread |-> None]
  /\ lent    = [t \in Thread |-> None]

Step(p) ==
  \/ \E b \in Block \cup {None}, h \in Thread \cup {None} : Spawn(p, b, h)
  \/ \E b \in Block : Consume(p, b)
  \/ \E h \in Thread : StartJoin(p, h)
  \/ \E c \in Thread : NextItem(p, c)
  \/ Return(p)
  \/ BeginScope(p)
  \/ EndScope(p)
  \/ FinishJoin(p)
  \/ LeaveScope(p)
  \/ Escape(p)

Next == \E p \in Thread : Step(p)

Spec == Init /\ [][Next]_vars

(***************************************************************************)
(* The OS runs every thread, and the code between two runtime calls is     *)
(* taken to terminate: a block reaches its end, a body returns.  What the  *)
(* program starts, joins or opens on the way is its own choice.            *)
(***************************************************************************)
Fairness ==
  \A p \in Thread :
    /\ WF_vars(Return(p))
    /\ WF_vars(EndScope(p))
    /\ WF_vars(\E c \in Thread : NextItem(p, c))
    /\ WF_vars(FinishJoin(p))
    /\ WF_vars(LeaveScope(p))

FairSpec == Spec /\ Fairness

-----------------------------------------------------------------------------
OptThread == Thread \cup {None}
OptBlock  == Block \cup {None}

\* Every variable has its type, and a PlThread is marked scoped only when
\* some frame records it (pl_scope_register).
TypeOK ==
  /\ n \in 1 .. MaxThreads
  /\ stage \in [Thread -> {"unborn", "running", "joining", "ending", "done"}]
  /\ waiting \in [Thread -> OptThread]
  /\ closing \in [Thread -> OptBlock]
  /\ cur \in [Thread -> Block]
  /\ parent \in [Block -> Block]
  /\ opened \in [Thread -> 0 .. MaxScopes]
  /\ local \in [Block -> {"none", "live", "moved", "gone"}]
  /\ left \subseteq Block
  /\ top \in [Thread -> OptBlock]
  /\ outer \in [Block -> OptBlock]
  /\ box \in [Thread -> {"none", "live", "freed"}]
  /\ joined \in [Thread -> BOOLEAN]
  /\ scoped \in [Thread -> BOOLEAN]
  /\ frame \in [Thread -> OptBlock]
  /\ holder \in [Thread -> OptThread]
  /\ lent \in [Thread -> OptBlock]
  /\ \A c \in Thread : scoped[c] => frame[c] # None

\* No PlThread is touched after it was freed: not by the thread that writes
\* its result into it, not by a join, not by the end of the scope it is in.
NoUseAfterFree ==
  \A c \in Thread :
    (\/ c # 0 /\ Alive(c)
     \/ scoped[c]
     \/ \E p \in Thread : waiting[p] = c) => box[c] = "live"

\* A local was lent by a thread that was in no scope: when it did so.
LentOutside(b) == \E d \in Thread : lent[d] = b /\ frame[d] = None

\* No block takes a borrowed local away with it: what was lent inside a scope:
\* block, and passed on inside others, is not dropped with its block while a
\* borrower runs (the ground on which check_spawn lets borrows cross a thread
\* boundary).  What the program moves by itself is the program's affair.
BorrowAlive ==
  \A c \in Thread :
    Alive(c) /\ lent[c] # None /\ ~LentOutside(lent[c]) => local[lent[c]] \in {"live", "moved"}

\* When a scope: block is left, the threads it started have been joined and
\* their PlThreads given back exactly there.
ScopeJoined ==
  \A c \in Thread :
    frame[c] # None /\ frame[c] \in left =>
      /\ stage[c] = "done"
      /\ joined[c]
      /\ box[c] = "freed"

\* The end of a scope: block is always reached, whatever its threads start,
\* open and join themselves: no two threads wait for one another.
ScopesEnd ==
  \A p \in Thread : stage[p] \in {"ending", "joining"} ~> stage[p] \in {"running", "done"}


(***************************************************************************)
(* The scopes implement structured fork and join.                          *)
(***************************************************************************)
ScopeBlock == Thread \X (1 .. MaxScopes)

FJ == INSTANCE ForkJoin WITH
        Scope  <- ScopeBlock,
        Main   <- 0,
        phase  <- [c \in Thread |-> IF stage[c] = "unborn" THEN "new"
                                   ELSE IF stage[c] = "done" THEN "ended"
                                   ELSE "running"],
        within <- frame,
        closed <- left \cap ScopeBlock

\* Seen through its frames, the runtime is a fork/join discipline: no scope is
\* left and no thread ends before the threads recorded in its scopes.
ForkJoinSpec == FJ!Spec

-----------------------------------------------------------------------------
(***************************************************************************)
(* Inductive invariants.  HandleInv speaks of PlThreads and handles and    *)
(* rests on "join_once" and "join_inside"; BlockInv and LoanInv speak of   *)
(* blocks, frames and borrows and rest on "caught" too.                    *)
(***************************************************************************)
UnbornInv ==
  \A c \in Thread :
    /\ stage[c] = "unborn" <=> c >= n
    /\ box[c] = "none" <=> c = 0 \/ c >= n
    /\ box[c] = "none" => frame[c] = None /\ holder[c] = None /\ ~joined[c]
    /\ box[c] = "none" => lent[c] = None

FrameInv ==
  /\ \A p \in Thread : cur[p][1] = p
  /\ \A p \in Thread : top[p] # None => top[p][1] = p /\ top[p][2] > 0
  /\ \A p \in Thread : closing[p] # None => closing[p][1] = p /\ closing[p][2] > 0
  /\ \A b \in Block : outer[b] # None => outer[b][1] = b[1] /\ outer[b][2] > 0
  /\ \A b \in Block : parent[b][1] = b[1]
  /\ \A c \in Thread : frame[c] # None => frame[c][2] > 0

WaitInv ==
  /\ \A p \in Thread : stage[p] = "joining" => waiting[p] # None
  /\ \A p \in Thread : stage[p] # "ending" => closing[p] = None
  /\ \A p \in Thread : waiting[p] # None =>
       LET h == waiting[p] IN
       /\ box[h] = "live"
       /\ \/ /\ stage[p] = "joining"
             /\ holder[h] = None
             /\ frame[h] = None \/ (scoped[h] /\ frame[h][1] = p)
          \/ /\ stage[p] = "ending"
             /\ frame[h] # None
             /\ frame[h] = closing[p]
             /\ ~scoped[h]
  /\ \A p, q \in Thread : waiting[p] # None /\ waiting[p] = waiting[q] => p = q

BoxInv ==
  \A c \in Thread :
    /\ joined[c] => stage[c] = "done"
    /\ box[c] = "freed" => joined[c]
    /\ scoped[c] => box[c] = "live"
    /\ holder[c] # None /\ frame[c] = None => box[c] = "live"
    /\ holder[c] # None /\ frame[c] # None => holder[c] = frame[c][1]
    /\ frame[c] # None /\ ~scoped[c] /\ box[c] # "freed" =>
         stage[frame[c][1]] = "ending" /\ waiting[frame[c][1]] = c

HandleInv == TypeOK /\ UnbornInv /\ FrameInv /\ WaitInv /\ BoxInv

\* The frame a block's parent runs in: the function body has none.
FrameOf(b) == IF b[2] = 0 THEN None ELSE b

ChainInv ==
  \A p \in Thread :
    /\ cur[p][2] <= opened[p]
    /\ stage[p] # "done" => cur[p] \notin left
    /\ stage[p] # "ending" => top[p] = FrameOf(cur[p])
    /\ stage[p] = "ending" => /\ cur[p][2] > 0
                              /\ closing[p] = cur[p]
                              /\ top[p] = FrameOf(parent[cur[p]])
    /\ stage[p] = "done" => cur[p][2] = 0 /\ cur[p] \in left
    /\ stage[p] = "unborn" => opened[p] = 0

NestInv ==
  \A p \in Thread, k \in 0 .. MaxScopes :
    /\ k > opened[p] => <<p, k>> \notin left
    /\ k \in 1 .. opened[p] =>
         /\ parent[<<p, k>>][2] < k
         /\ outer[<<p, k>>] = FrameOf(parent[<<p, k>>])
    /\ k \in 0 .. opened[p] /\ <<p, k>> \notin left => k <= cur[p][2]
    /\ k \in 1 .. opened[p] /\ <<p, k>> \notin left =>
         /\ parent[<<p, k>>] \notin left
         /\ \A j \in 0 .. MaxScopes :
              parent[<<p, k>>][2] < j /\ j < k => <<p, j>> \in left

OpenInv ==
  /\ \A p \in Thread : top[p] # None => top[p] \notin left
  /\ \A c \in Thread : frame[c] # None => frame[c][2] <= opened[frame[c][1]]
  /\ \A c \in Thread : frame[c] # None => frame[c][1] < c

BlockInv == ChainInv /\ NestInv /\ OpenInv /\ ScopeJoined

\* A running borrower is either recorded in a scope of the lender, inside the
\* block that owns the local, or in a scope of a thread that borrows it too.
LoanInv ==
  \A c \in Thread : Alive(c) /\ lent[c] # None /\ ~LentOutside(lent[c]) =>
    /\ local[lent[c]] \in {"live", "moved"}
    /\ \/ lent[c][1] = frame[c][1] /\ lent[c][2] <= frame[c][2]
       \/ lent[frame[c][1]] = lent[c]

ScopeInv == HandleInv /\ BlockInv /\ LoanInv

=============================================================================
