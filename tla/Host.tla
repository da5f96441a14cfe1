-------------------------------- MODULE Host --------------------------------
(***************************************************************************)
(* Threads that run compiled code: those of a host that calls exported     *)
(* functions (gen_export, pl_ffi_call), or main and the threads it spawns. *)
(* A panic leaves every frame up to the innermost pl_ffi_call of its own   *)
(* thread; where there is none it ends the process.  What such programs    *)
(* may contain is what the walk of ownck accepts (scan_global_write,       *)
(* check_export, check_spawn).                                             *)
(*                                                                         *)
(* A program gives every function a body, a sequence of the operations     *)
(* [op |-> ...] Do executes, and what it does with its argument (own or    *)
(* borrow).  A host thread calls exported functions, Calls of them.        *)
(***************************************************************************)
EXTENDS Sockets, Functions

CONSTANTS
  Families,  \* the families of programs (see MCHost)
  Calls,     \* bound: calls a host thread makes
  Holes      \* what the checks leave out: see Hole

VARIABLES
  prog,    \* the program
  stk,     \* the frames of each thread, innermost last
  born,    \* the threads that have been started
  guard,   \* g_pl_ffi_guard: the depth of the frame longjmp goes back to, or 0
  scopes,  \* the PlScopes of each thread, g_pl_scope last: the frame whose block
           \* it is, and the threads recorded
  ffierr,  \* g_pl_ffi_kind and g_pl_ffi_msg of each thread
  told,    \* what the call that has just failed really died of, or NoCause
  owner,   \* the thread that holds each mutex
  frees,   \* how often the argument of the entry just left was freed
  made,    \* calls each host thread has made
  dead     \* the process has ended

hostVars == <<prog, stk, born, guard, scopes, ffierr, told, owner, frees, made, dead>>
vars     == <<hostVars, sockVars>>

NoCause  == <<>>
NoThread == "nobody"
NoFrees  == [own |-> FALSE, times |-> 1, panic |-> FALSE]

Fns(P)    == DOMAIN P.fns
Body(P,f) == P.fns[f].body
Ops(P, f) == {Body(P, f)[i] : i \in DOMAIN Body(P, f)}

(***************************************************************************)
(* scan_global_write: what the body of f reaches.  The walk goes down into *)
(* functions called by name; the name of a call of a class is no function  *)
(* (its init is left out), and what a value of function type, a lock or a  *)
(* spawn calls has no name.                                                *)
(***************************************************************************)
Edge(P, f, g) == \E o \in Ops(P, f) : o.op = "call" /\ o.f = g

\* Mutant of Reached: the direct callees only.
ReachedOnce(P, f) == {f} \cup {g \in Fns(P) : Edge(P, f, g)}

Reached(P, f) ==
  {g \in Fns(P) : \A S \in SUBSET Fns(P) :
     f \in S /\ (\A e \in S, h \in Fns(P) : Edge(P, e, h) => h \in S) => g \in S}

Finds(P, f, ops) == \E g \in Reached(P, f) : \E o \in Ops(P, g) : o.op \in ops

\* E-EXPORT-3 and E-EXPORT-4.  A write is an assignment: a method that changes the
\* value a global holds ("mutate", such as g.append) is none.
check_export(P) ==
  \A f \in P.exports : ~Finds(P, f, {"write"}) /\ ~Finds(P, f, {"spawn", "scope"})

\* E-SEND-3, of every function some spawn starts by its name.
check_spawn(P) ==
  \A f \in Fns(P) : \A o \in Ops(P, f) : o.op = "spawn" => ~Finds(P, o.f, {"write"})

\* What the checks do not see; the families of a run say which they contain.
Hole(P, h) ==
  CASE h = "init"  -> \E f \in Fns(P) : \E o \in Ops(P, f) : o.op = "new"
    [] h = "value" -> \E f \in Fns(P) : \E o \in Ops(P, f) : o.op = "value"
    [] h = "outer" -> \E f \in Fns(P) : \E o \in Ops(P, f) :
                        o.op = "spawn" /\ \E e \in Ops(P, f) : e.op = "write"
    [] h = "method" -> \E f \in Fns(P) : \E o \in Ops(P, f) : o.op = "mutate"
    [] h = "mutex" -> \E f \in Fns(P) : \E o \in Ops(P, f) : o.op = "direct"

Accepted(P) == check_export(P) /\ check_spawn(P)

(***************************************************************************)
(* What the parser and the type checker have made sure of: names are known, *)
(* C code calls exported functions back, and scope: blocks nest.  A call   *)
(* of net.ys may stand in a try whose except clause goes on behind it.     *)
(***************************************************************************)
Operation(P) ==
  [op : {"write", "mutate", "read", "raise", "panic", "exit", "scope", "unscope", "join", "close"}]
    \cup [op : {"listen", "connect", "accept", "recv"}, try : BOOLEAN]
    \cup [op : {"send"}, try : BOOLEAN, m : Messages]
    \cup [op : {"call", "new", "value", "spawn"}, f : Fns(P)]
    \cup [op : {"callout"}, f : P.exports]
    \cup [op : {"mutex", "touch", "direct"}, m : {"mine", "main"}]
    \cup [op : {"lock"}, m : {"mine", "main"}, f : Fns(P)]

\* The scope: blocks that are open before operation pc of a body.
Opened(body, pc) ==
  Cardinality({i \in 1 .. pc - 1 : body[i].op = "scope"})
    - Cardinality({i \in 1 .. pc - 1 : body[i].op = "unscope"})

WellFormed(P) ==
  /\ P.starts \subseteq Thread /\ P.exports \subseteq Fns(P)
  /\ P.calls \in [P.starts -> SUBSET P.exports]
  /\ "main" \in P.starts => P.starts = {"main"} /\ "main" \in Fns(P)
  /\ \A f \in Fns(P) :
       /\ P.fns[f].own \in BOOLEAN
       /\ Body(P, f) \in Seq(Operation(P))
       /\ \A pc \in 1 .. Len(Body(P, f)) + 1 : Opened(Body(P, f), pc) >= 0
       /\ Opened(Body(P, f), Len(Body(P, f)) + 1) = 0

ASSUME FamiliesAssumption == \A P \in Families : WellFormed(P)
ASSUME HostBounds == Calls \in Nat /\ "main" \in Thread /\ Thread \cap {"nobody", "global"} = {}

-----------------------------------------------------------------------------
Top(t)     == Last(stk[t])
InBody(t)  == stk[t] # <<>> /\ Top(t).k = "fn" /\ ~dead
Op(t)      == Body(prog, Top(t).f)[Top(t).pc]
At(t, ops) == InBody(t) /\ Top(t).pc <= Len(Body(prog, Top(t).f)) /\ Op(t).op \in ops
           /\ net[t] = Idle

FnFrame(f)  == [k |-> "fn", f |-> f, pc |-> 1]
Advanced(s) == [s EXCEPT ![Len(s)].pc = @ + 1]
Advance(t)  == stk' = [stk EXCEPT ![t] = Advanced(@)]
Call(t, f)  == stk' = [stk EXCEPT ![t] = Append(Advanced(@), FnFrame(f))]

\* A mutex made by a function is a new one; spawned threads are given main's.
Mutex(t, o) == <<IF o.m = "mine" THEN t ELSE "main", "m">>

Plain(t) ==
  /\ \/ At(t, {"write", "mutate", "read", "touch", "direct"}) /\ Advance(t)
     \/ At(t, {"call", "new", "value"}) /\ Call(t, Op(t).f)
  /\ UNCHANGED <<prog, born, guard, scopes, ffierr, owner, frees, made, dead, sockVars>>
  /\ told' = [told EXCEPT ![t] = NoCause]

(***************************************************************************)
(* The entry of an exported function: it copies the arguments, then calls  *)
(* the thunk under a new guard (pl_ffi_call).  A host thread enters from   *)
(* outside, and the variables of its last call are gone; a function that   *)
(* calls C code may be called back by it.                                  *)
(***************************************************************************)
Entry(t, f) == [k |-> "entry", f |-> f, outer |-> guard[t],
                scope |-> Len(scopes[t]), freed |-> 0]

Enter(t, f, below) ==
  /\ stk'   = [stk EXCEPT ![t] = below \o <<Entry(t, f), FnFrame(f)>>]
  /\ guard' = [guard EXCEPT ![t] = Len(below) + 1]
  /\ told'  = [told EXCEPT ![t] = NoCause]

HostCalls(t) ==
  /\ ~dead /\ stk[t] = <<>> /\ t \in prog.starts \ {"main"} /\ made[t] < Calls
  /\ made' = [made EXCEPT ![t] = @ + 1]
  /\ \E f \in prog.calls[t] : Enter(t, f, <<>>)
  /\ Forget(t)
  /\ UNCHANGED <<prog, born, scopes, ffierr, owner, frees, dead>>

CalledBack(t) ==
  /\ At(t, {"callout"})
  /\ Enter(t, Op(t).f, Advanced(stk[t]))
  /\ UNCHANGED <<prog, born, scopes, ffierr, owner, frees, made, dead, sockVars>>

\* Mutant of Freed: the argument is freed whatever the body did with it.
FreedAlways(f, n) == n + 1

\* gen_export frees the argument it copied unless the body owns it; the body
\* frees an own argument when it is left, but not when a panic jumps over it.
Freed(f, n) == IF prog.fns[f].own THEN n ELSE n + 1

\* Mutant of Slot: the message is one for the whole process.
SlotShared(t) == "main"

\* The thread whose message is set: they are thread-local.
Slot(t) == t

\* Mutant of Left: pl_ffi_call leaves the guard it has set standing.
LeftGuarded(t, below, frame, status) ==
  /\ stk'   = [stk EXCEPT ![t] = below]
  /\ guard' = guard
  /\ frees' = [frees EXCEPT ![t] = [own |-> prog.fns[frame.f].own, panic |-> status = 2,
                                    times |-> Freed(frame.f, frame.freed)]]

\* pl_ffi_call returns to the entry, and the entry to its caller.
Left(t, below, frame, status) ==
  /\ stk'   = [stk EXCEPT ![t] = below]
  /\ guard' = [guard EXCEPT ![t] = frame.outer]
  /\ frees' = [frees EXCEPT ![t] = [own |-> prog.fns[frame.f].own, panic |-> status = 2,
                                    times |-> Freed(frame.f, frame.freed)]]

\* The frame of a function is left in the regular way: its own argument is freed.
WithoutTop(t) ==
  LET below == Front(stk[t])
      n     == Len(below)
  IN  IF n > 0 /\ below[n].k = "entry" /\ prog.fns[Top(t).f].own
      THEN [below EXCEPT ![n].freed = @ + 1]
      ELSE below

Return(t) ==
  /\ InBody(t) /\ Top(t).pc > Len(Body(prog, Top(t).f))
  /\ LET below == WithoutTop(t) IN
       IF below # <<>> /\ Last(below).k = "entry"
       THEN Left(t, Front(below), Last(below), 0)
       ELSE stk' = [stk EXCEPT ![t] = below] /\ UNCHANGED <<guard, frees>>
  /\ told' = [told EXCEPT ![t] = NoCause]
  /\ UNCHANGED <<prog, born, scopes, ffierr, owner, made, dead, sockVars>>

\* The entries on a stack, outermost first.
Entries(s) == {i \in DOMAIN s : s[i].k = "entry"}

(***************************************************************************)
(* raise: the functions in between return early, so the entry is reached   *)
(* in the regular way, keeps the class and the message (pl_ffi_raised) and *)
(* returns 1.  Only entries, and the try around a call of net.ys, are      *)
(* modelled to catch; main and the functions given to spawn and lock may   *)
(* not raise, and no exception leaves a scope: block (E-SCOPE-1;           *)
(* ThreadScope is about those that do).                                    *)
(***************************************************************************)
Raise(t, cause_) ==
  LET i     == Max(Entries(stk[t]))
      frame == stk[t][i]
      freed == [frame EXCEPT !.freed = IF prog.fns[frame.f].own THEN @ + 1 ELSE @]
  IN  /\ Entries(stk[t]) # {}
      /\ Len(scopes[t]) = frame.scope
      /\ Left(t, SubSeq(stk[t], 1, i - 1), freed, 1)
      /\ ffierr' = [ffierr EXCEPT ![Slot(t)] = cause_]
      /\ told'   = [told EXCEPT ![t] = cause_]
      /\ UNCHANGED <<scopes, dead>>

\* Mutant of Panic: g_pl_scope is left as it was at the panic.
PanicKeepsScope(t, cause_) ==
  IF guard[t] = 0
  THEN dead' = TRUE /\ UNCHANGED <<stk, guard, scopes, ffierr, told, frees>>
  ELSE LET frame == stk[t][guard[t]] IN
       /\ Left(t, SubSeq(stk[t], 1, guard[t] - 1), frame, 2)
       /\ scopes' = scopes
       /\ ffierr' = [ffierr EXCEPT ![Slot(t)] = cause_]
       /\ told'   = [told EXCEPT ![t] = cause_]
       /\ UNCHANGED dead

(***************************************************************************)
(* pl_hook_panic, pl_exit: with a guard, back to the pl_ffi_call that set  *)
(* it; the frames above it are gone without anything being dropped,        *)
(* unlocked or waited for.  Without one the process ends.                  *)
(***************************************************************************)
Panic(t, cause_) ==
  IF guard[t] = 0
  THEN dead' = TRUE /\ UNCHANGED <<stk, guard, scopes, ffierr, told, frees>>
  ELSE LET frame == stk[t][guard[t]] IN
       /\ Left(t, SubSeq(stk[t], 1, guard[t] - 1), frame, 2)
       /\ scopes' = [scopes EXCEPT ![t] = SubSeq(@, 1, frame.scope)]
       /\ ffierr' = [ffierr EXCEPT ![Slot(t)] = cause_]
       /\ told'   = [told EXCEPT ![t] = cause_]
       /\ UNCHANGED dead

Raises(t) ==
  /\ At(t, {"raise"})
  /\ Raise(t, <<t, Top(t).f, "raised">>)
  /\ UNCHANGED <<prog, born, owner, made, sockVars>>

Panics(t) ==
  /\ At(t, {"panic", "exit"})
  /\ Panic(t, <<t, Top(t).f, Op(t).op>>)
  /\ UNCHANGED <<prog, born, owner, made, sockVars>>

\* The copy of an argument finds no memory, before the new guard is set.
CopyFails(t) ==
  /\ At(t, {"callout"})
  /\ Panic(t, <<t, Op(t).f, "memory">>)
  /\ UNCHANGED <<prog, born, owner, made, sockVars>>

-----------------------------------------------------------------------------
\* spawn: a thread with a stack, a guard and scopes of its own.
Spawn(t) ==
  /\ At(t, {"spawn"})
  /\ Thread \ born # {}
  /\ LET c == CHOOSE c \in Thread \ born : TRUE IN
       /\ born' = born \cup {c}
       /\ stk'  = [stk EXCEPT ![t] = Advanced(@), ![c] = <<FnFrame(Op(t).f)>>]
       /\ scopes' = IF scopes[t] = <<>> THEN scopes
                    ELSE [scopes EXCEPT ![t][Len(scopes[t])].threads = @ \cup {c}]
  /\ UNCHANGED <<prog, guard, ffierr, told, owner, frees, made, dead, sockVars>>

OpenScope(t) ==
  /\ At(t, {"scope"})
  /\ scopes' = [scopes EXCEPT ![t] = Append(@, [by |-> Len(stk[t]), threads |-> {}])]
  /\ Advance(t)
  /\ UNCHANGED <<prog, born, guard, ffierr, told, owner, frees, made, dead, sockVars>>

\* pl_scope_end: waits for the threads of the innermost frame, and drops it.
CloseScope(t) ==
  /\ At(t, {"unscope"})
  /\ \A c \in Last(scopes[t]).threads : stk[c] = <<>>
  /\ scopes' = [scopes EXCEPT ![t] = Front(@)]
  /\ Advance(t)
  /\ UNCHANGED <<prog, born, guard, ffierr, told, owner, frees, made, dead, sockVars>>

Join(t) ==
  /\ At(t, {"join"})
  /\ \A c \in born \ {t} : stk[c] = <<>>
  /\ Advance(t)
  /\ UNCHANGED <<prog, born, guard, scopes, ffierr, told, owner, frees, made, dead, sockVars>>

\* pl_mutex_new.  Bound: none is made again while it is locked.
NewMutex(t) ==
  /\ At(t, {"mutex"})
  /\ \A u \in Thread : \A i \in DOMAIN stk[u] :
       stk[u][i].k = "lock" => stk[u][i].m # Mutex(t, Op(t))
  /\ owner' = [owner EXCEPT ![Mutex(t, Op(t))] = NoThread]
  /\ Advance(t)
  /\ UNCHANGED <<prog, born, guard, scopes, ffierr, told, frees, made, dead, sockVars>>

Free(m) == owner[m] = NoThread

\* pl_mutex_with: lock, call the function with the contents, unlock.
Lock(t) ==
  /\ At(t, {"lock"})
  /\ Free(Mutex(t, Op(t)))
  /\ owner' = [owner EXCEPT ![Mutex(t, Op(t))] = t]
  /\ stk'   = [stk EXCEPT ![t] = Advanced(@) \o
                 <<[k |-> "lock", m |-> Mutex(t, Op(t))], FnFrame(Op(t).f)>>]
  /\ UNCHANGED <<prog, born, guard, scopes, ffierr, told, frees, made, dead, sockVars>>

\* Mutant of Unlock: the mutex is not unlocked.
UnlockNot(t) ==
  /\ stk[t] # <<>> /\ Top(t).k = "lock" /\ ~dead
  /\ owner' = owner
  /\ stk'   = [stk EXCEPT ![t] = Front(@)]
  /\ UNCHANGED <<prog, born, guard, scopes, ffierr, told, frees, made, dead, sockVars>>

Unlock(t) ==
  /\ stk[t] # <<>> /\ Top(t).k = "lock" /\ ~dead
  /\ owner' = [owner EXCEPT ![Top(t).m] = NoThread]
  /\ stk'   = [stk EXCEPT ![t] = Front(@)]
  /\ UNCHANGED <<prog, born, guard, scopes, ffierr, told, frees, made, dead, sockVars>>

-----------------------------------------------------------------------------
\* A call of net.ys: it begins, goes on in steps, and returns or raises.
StartsNet(t) ==
  /\ At(t, {"listen", "connect", "accept", "send", "recv"})
  /\ \/ Begin(t, Op(t).op, IF Op(t).op = "send" THEN Op(t).m ELSE "")
     \/ BeginShut(t, Op(t).op)
  /\ UNCHANGED hostVars

InNet(t) == ~dead /\ InCall(t) /\ UNCHANGED hostVars

\* Nothing is assumed of how often memory runs out.
NoMemory(t) == ~dead /\ RecvNoMemory(t) /\ UNCHANGED hostVars

\* Where the error is caught, the program goes on with the connection as it is: it
\* may call again, or close.
NetReturns(t) ==
  /\ ~dead
  /\ net[t].fn = "returned" \/ (net[t].fn = "raised" /\ Op(t).try)
  /\ Finish(t) /\ Advance(t)
  /\ UNCHANGED <<prog, born, guard, scopes, ffierr, told, owner, frees, made, dead>>

NetRaises(t) ==
  /\ ~dead /\ net[t].fn = "raised" /\ ~Op(t).try
  /\ Raise(t, <<t, Top(t).f, caught[t].why>>)
  /\ Finish(t)
  /\ UNCHANGED <<prog, born, owner, made>>

Closes(t) ==
  /\ At(t, {"close"})
  /\ Close(t) /\ Advance(t)
  /\ UNCHANGED <<prog, born, guard, scopes, ffierr, told, owner, frees, made, dead,
                 sockerr, writer, net, cause, caught, eof>>

Do(t) ==
  \/ Plain(t) \/ HostCalls(t) \/ CalledBack(t) \/ Return(t)
  \/ Raises(t) \/ Panics(t) \/ CopyFails(t)
  \/ Spawn(t) \/ OpenScope(t) \/ CloseScope(t) \/ Join(t)
  \/ NewMutex(t) \/ Lock(t) \/ Unlock(t)
  \/ StartsNet(t) \/ InNet(t) \/ NetReturns(t) \/ NetRaises(t) \/ Closes(t)

Init ==
  /\ prog \in {P \in Families : Accepted(P) /\ \A h \in {"init", "value", "outer", "mutex", "method"} :
                                    Hole(P, h) => h \in Holes}
  /\ born   = prog.starts
  /\ stk    = [t \in Thread |-> IF t \in prog.starts \cap {"main"}
                                THEN <<FnFrame("main")>> ELSE <<>>]
  /\ guard  = [t \in Thread |-> 0]
  /\ scopes = [t \in Thread |-> <<>>]
  /\ ffierr = [t \in Thread |-> NoCause]
  /\ told   = [t \in Thread |-> NoCause]
  /\ owner  = [m \in Thread \X {"m"} |-> NoThread]
  /\ frees  = [t \in Thread |-> NoFrees]
  /\ made   = [t \in Thread |-> 0]
  /\ dead   = FALSE
  /\ InitSockets

External == PeerActs /\ UNCHANGED hostVars

Next == External \/ \E t \in Thread : Do(t) \/ NoMemory(t)

\* The system runs every thread that can run; it owes the peer nothing.
Spec == Init /\ [][Next]_vars /\ \A t \in Thread : WF_vars(Do(t))

-----------------------------------------------------------------------------
\* What a thread is about to touch: the global, or the contents of a mutex.
Cell(t) == IF Op(t).op \in {"read", "write", "mutate"} THEN <<"global", "m">> ELSE Mutex(t, Op(t))

\* No two threads touch the same datum at once, one of them writing: exported
\* functions and spawned ones leave globals alone, and the contents of a mutex
\* are touched under its lock (check_export, check_spawn, pl_mutex_with).
NoRace ==
  \A t, u \in Thread :
    t # u /\ At(t, {"write", "mutate", "touch", "direct"})
          /\ At(u, {"read", "write", "mutate", "touch", "direct"}) => Cell(t) # Cell(u)

\* g_pl_ffi_guard is the innermost pl_ffi_call that has not returned, so a
\* panic never jumps into a frame that is gone (pl_ffi_call, pl_hook_panic).
\* The scopes from g_pl_scope on are those of the scope: blocks the functions on
\* the stack are in, none of them left over by one that is gone: also after a
\* panic has jumped out of some (pl_ffi_call restores it).
FramesAlive ==
  \A t \in Thread :
    /\ guard[t] = IF Entries(stk[t]) = {} THEN 0 ELSE Max(Entries(stk[t]))
    /\ \A j \in DOMAIN scopes[t] :
         scopes[t][j].by \in DOMAIN stk[t] /\ stk[t][scopes[t][j].by].k = "fn"
    /\ \A i \in DOMAIN stk[t] : stk[t][i].k = "fn" =>
         Cardinality({j \in DOMAIN scopes[t] : scopes[t][j].by = i})
           = Opened(Body(prog, stk[t][i].f), stk[t][i].pc)

\* A call that has failed is reported as what it was.  The class and the message
\* the host reads on its thread are those of its own call (pl_ffi_set), however many
\* threads fail at once; the NetError a thread raises, whose reason is kept for the
\* whole process, tells what its own call met unless another thread's call came
\* between the failure and last_error (pl_sock_fail).
ErrorsTrue ==
  /\ \A t \in Thread : told[t] # NoCause => ffierr[Slot(t)] = told[t]
  /\ NetErrorTrue

\* What a call took it gives back.  The copy of an argument is freed once, by
\* the entry or by the body it was given to: only a panic leaks it, and only if
\* the body owned it (gen_export).  A descriptor a call does not return is closed.
GivenBack ==
  /\ \A t \in Thread : /\ frees[t].times <= 1
                       /\ frees[t].times = 0 => frees[t].own /\ frees[t].panic
  /\ DescriptorsHeld

\* Nobody waits for a mutex whose holder has left the lock without unlocking.
LockHeld ==
  \A t \in Thread : At(t, {"lock"}) =>
    LET m == Mutex(t, Op(t)) IN
      owner[m] # NoThread => \E i \in DOMAIN stk[owner[m]] :
                               stk[owner[m]][i].k = "lock" /\ stk[owner[m]][i].m = m

\* Every call comes to an end: no thread waits for ever for a mutex, for the
\* threads of a scope, or for a peer that says nothing.
CallsEnd == []<>(dead \/ \A t \in Thread : stk[t] = <<>>)
-----------------------------------------------------------------------------
\* Functions that reach no write of a global, nor a method that changes one.
Safe(P)   == {f \in Fns(P) : ~Finds(P, f, {"write", "mutate"})}
Spawns(P) == \E f \in Fns(P) : \E o \in Ops(P, f) : o.op = "spawn"
Alone(P)  == P.starts = {"main"} /\ ~Spawns(P)

(***************************************************************************)
(* What the checks leave to the programmer: what they do not walk into     *)
(* writes no global (an init, a value of function type, the function a     *)
(* lock calls), nor does main when threads are spawned; what is exported   *)
(* or spawned calls no method that changes a global; and the contents of a *)
(* mutex are touched only by the function its lock calls.                  *)
(***************************************************************************)
Sheltered(P) ==
  /\ \A f \in P.exports : ~Finds(P, f, {"mutate"})
  /\ \A f \in Fns(P) : \A o \in Ops(P, f) :
       /\ o.op = "spawn" => ~Finds(P, o.f, {"mutate"})
       /\ o.op \in {"new", "value", "lock"} => o.f \in Safe(P)
       /\ o.op # "direct"
       /\ o.op = "touch" =>
            /\ f \notin P.exports /\ ("main" \in P.starts => f # "main")
            /\ \A g \in Fns(P) : \A e \in Ops(P, g) :
                 e.op \in {"call", "new", "value", "spawn", "lock"} /\ e.f = f =>
                   e.op = "lock" /\ e.m = o.m
  /\ "main" \in P.starts /\ Spawns(P) => "main" \in Safe(P)

\* A mutex that a body locks it has made itself, and no C code calls back; or
\* nothing is exported.
Makes(P, f, pc) == \E i \in 1 .. pc - 1 : Body(P, f)[i].op = "mutex" /\ Body(P, f)[i].m = "mine"
Locks(P)        == \E f \in Fns(P) : \E o \in Ops(P, f) : o.op = "lock"

LockSafe(P) ==
  \/ P.exports = {}
  \/ /\ \A f \in Fns(P) : \A pc \in DOMAIN Body(P, f) :
          Body(P, f)[pc].op = "lock" => Body(P, f)[pc].m = "mine" /\ Makes(P, f, pc)
     /\ Locks(P) => \A f \in Fns(P) : \A o \in Ops(P, f) : o.op # "callout"

=============================================================================
