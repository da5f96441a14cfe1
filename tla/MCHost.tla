------------------------------- MODULE MCHost -------------------------------
\* Small programs for the runtime's threads, guards, locks and sockets.
EXTENDS Host

CONSTANT Chosen  \* the families a run takes

Fn(body)    == [own |-> FALSE, body |-> body]
Do1(o)      == [op |-> o]
To(o, f)    == [op |-> o, f |-> f]
OnMutex(o, m)    == [op |-> o, m |-> m]
LockM(m, f) == [op |-> "lock", m |-> m, f |-> f]
Net(o)      == [op |-> o, try |-> FALSE]
Try(o)      == [o EXCEPT !.try = TRUE]
Says(m)     == [op |-> "send", m |-> m, try |-> FALSE]

Library(hosts, exports, fns) == 
  [starts |-> hosts, exports |-> exports, calls |-> [h \in hosts |-> exports], fns |-> fns]
Program(fns) ==
  [starts |-> {"main"}, exports |-> {}, calls |-> [h \in {"main"} |-> {}], fns |-> fns]

Ends == {"panic", "exit", "raise", "read"}

\* Two hosts; a body calls back through C, in two more functions, or fails.
Nested ==
  { Library({"h1", "h2"}, {"a", "b"},
      "a" :> [own |-> own, body |-> <<first, Do1(last)>>] @@ "b" :> [own |-> ~own, body |-> <<Do1(inner)>>]
        @@ "f" :> Fn(<<To("call", "k")>>) @@ "k" :> Fn(<<Do1(deep)>>)) :
    own \in BOOLEAN, first \in {To("callout", "b"), To("call", "f")}, last \in Ends, inner \in Ends,
    deep \in {"panic", "read", "write"} }

\* A scope reached through a value of function type, left by a panic.
Scoped ==
  { [Library({"h1"}, {"a", "b"},
      "a" :> Fn(<<To("value", "s"), Do1("read")>>) @@ "w" :> Fn(<<Do1("read")>>)
        @@ "s" :> Fn(<<Do1("scope"), To("spawn", "w"), o, Do1("unscope")>>) @@ "b" :> Fn(<<Do1("panic")>>))
      EXCEPT !.calls = "h1" :> {"a"}] :
    o \in {Do1("panic"), Do1("read"), To("callout", "b")} }

\* A mutex a call makes for itself, and one that main shares with its threads.
Locked ==
  { Library({"h1", "h2"}, {"a"},
      "a" :> Fn(<<OnMutex("mutex", "mine"), LockM("mine", "g"), LockM("mine", "g")>>)
        @@ "g" :> Fn(<<OnMutex("touch", "mine"), Do1(o)>>)) : o \in {"panic", "read"} }
  \cup
  { Program("main" :> Fn(o[1] \o <<OnMutex("mutex", "main"), To("spawn", "w"), To("spawn", "w"),
                                   LockM("main", "g")>> \o o[2] \o <<LockM("main", "g")>>)
        @@ "w" :> Fn(<<LockM("main", "g"), Do1(p)>>) @@ "g" :> Fn(<<OnMutex("touch", "main")>>)) :
    o \in {<<<<Do1("scope")>>, <<Do1("unscope")>>>>, <<<<>>, <<Do1("join")>>>>}, p \in {"read", "panic", "write"} }

\* A client and a server of net.ys, called twice, and two threads in net.ys at once.
\* Where an error is caught they go on with the same connection.
Client == <<Net("connect"), Try(Says("m1")), Says("m2"), Try(Net("recv")), Net("recv"), Do1("close")>>
Server == <<Net("listen"), Try(Net("accept")), Try(Net("recv")), Net("recv"), Do1("close")>>
Guest  == <<Try(Net("connect")), Try(Net("recv")), Do1("close")>>

Talking ==
  { Library({"h1"}, {"a"}, "a" :> Fn(Client)), Library({"h1"}, {"a"}, "a" :> Fn(Server)),
    Program("main" :> Fn(<<To("spawn", "w"), Try(Net("listen")), Try(Net("accept"))>>)
              @@ "w" :> Fn(Guest)) }

\* What the checks let through: an init and a value are not walked into, a method that
\* changes a global is no write, main goes on, a mutex leaves main its contents.
Racing ==
  { Library({"h1", "h2"}, {"a"}, "a" :> Fn(<<To(o, "i")>>) @@ "i" :> Fn(<<Do1("write")>>)) :
    o \in {"new", "value"} }
  \cup
  { Program("main" :> Fn(<<To("spawn", "w"), Do1("write"), Do1("join")>>) @@ "w" :> Fn(<<Do1("read")>>)),
    Library({"h1", "h2"}, {"a"}, "a" :> Fn(<<Do1("mutate")>>)),
    Program("main" :> Fn(<<OnMutex("mutex", "main"), To("spawn", "w"), OnMutex("direct", "main"), Do1("join")>>)
              @@ "w" :> Fn(<<LockM("main", "g")>>) @@ "g" :> Fn(<<OnMutex("touch", "main")>>)) }

MCFamilies ==
  UNION {IF "nested" \in Chosen THEN Nested ELSE {}, IF "scoped" \in Chosen THEN Scoped ELSE {},
         IF "locked" \in Chosen THEN Locked ELSE {}, IF "talking" \in Chosen THEN Talking ELSE {},
         IF "racing" \in Chosen THEN Racing ELSE {}}

\* The programs of every family but the last are what the theorems about races
\* and mutexes ask for.
ASSUME MCFamiliesKept ==
  "racing" \notin Chosen => \A P \in MCFamilies : Accepted(P) => Sheltered(P) /\ LockSafe(P)
=============================================================================
