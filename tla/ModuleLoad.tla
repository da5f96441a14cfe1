----------------------------- MODULE ModuleLoad -----------------------------
(***************************************************************************)
(* The module loader (src/module.c): imports are followed depth first, a   *)
(* module is put on the list the compiler works through when all of its    *)
(* imports are, and the first bad import ends the compilation.             *)
(***************************************************************************)
EXTENDS Naturals, Sequences, SequencesExt, FiniteSets

CONSTANTS
  Module,   \* names of modules
  Entry,    \* the one the compiler was started with
  Imports   \* lists of imports a module may have: [mod, call]

ASSUME EntryAssumption == Entry \in Module /\ IsFiniteSet(Module)
ASSUME ImportsAssumption ==
  Imports \subseteq Seq([mod : Module, call : Module])

VARIABLES
  imports,  \* the imports of each file, in the order of the source
  hits,     \* the search places where each module is found
  state,    \* Module.state: 0 not loaded, 1 on the path, 2 done
  deps,     \* Module.deps, Module.dep_alias
  stack,    \* Loader.stack, with the import each module is at
  order,    \* Loader.order
  err       \* the diagnostic
files == <<imports, hits>>
vars  == <<imports, hits, state, deps, stack, order, err>>

Errors == {"self", "twice", "name", "ambiguous", "cycle", "missing"}

TypeOK ==
  /\ imports \in [Module -> Imports]
  /\ hits \in [Module -> 0 .. 2]
  /\ state \in [Module -> 0 .. 2]
  /\ \A m \in Module : \E n \in 0 .. Len(imports[m]) : deps[m] = SubSeq(imports[m], 1, n)
  /\ \A i \in DOMAIN stack : stack[i].mod \in Module
                             /\ stack[i].at = Len(deps[stack[i].mod]) + 1
  /\ order \in Seq(Module)
  /\ err \in Errors \cup {"none"}

-----------------------------------------------------------------------------
Running == err = "none" /\ stack # <<>>
Top     == Last(stack)
This    == imports[Top.mod][Top.at]
AtImport == Running /\ Top.at <= Len(imports[Top.mod])

\* Mutant of Bad: a module that is still loading counts as loaded.
BadShort(m, i) ==
  CASE i.mod = m -> "self"
    [] \E k \in DOMAIN deps[m] : deps[m][k].mod = i.mod -> "twice"
    [] \E k \in DOMAIN deps[m] : deps[m][k].call = i.call -> "name"
    [] hits[i.mod] > 1 -> "ambiguous"
    [] state[i.mod] = 0 /\ hits[i.mod] = 0 -> "missing"
    [] OTHER -> "none"

\* Mutant of Bad: two imports may be called by the same name.
BadName(m, i) ==
  CASE i.mod = m -> "self"
    [] \E k \in DOMAIN deps[m] : deps[m][k].mod = i.mod -> "twice"
    [] hits[i.mod] > 1 -> "ambiguous"
    [] state[i.mod] = 1 -> "cycle"
    [] state[i.mod] = 0 /\ hits[i.mod] = 0 -> "missing"
    [] OTHER -> "none"

\* What is wrong with import i of module m: checked in this order.  path_for
\* looks for the file before load knows that it was loaded.
Bad(m, i) ==
  CASE i.mod = m -> "self"
    [] \E k \in DOMAIN deps[m] : deps[m][k].mod = i.mod -> "twice"
    [] \E k \in DOMAIN deps[m] : deps[m][k].call = i.call -> "name"
    [] hits[i.mod] > 1 -> "ambiguous"
    [] state[i.mod] = 1 -> "cycle"
    [] state[i.mod] = 0 /\ hits[i.mod] = 0 -> "missing"
    [] OTHER -> "none"

\* A module of its own: it joins the path.
Push(m) ==
  /\ state' = [state EXCEPT ![m] = 1]
  /\ stack' = Append(stack, [mod |-> m, at |-> 1])

\* diag_fail: the compiler exits.
Fail ==
  /\ AtImport
  /\ Bad(Top.mod, This) # "none"
  /\ err' = Bad(Top.mod, This)
  /\ UNCHANGED <<files, state, deps, stack, order>>

\* add_dep, and on to the next import of m.
AddDep(m, st) ==
  /\ deps' = [deps EXCEPT ![m] = Append(@, imports[m][Len(@) + 1])]
  /\ stack' = [st EXCEPT ![Len(st)].at = @ + 1]

\* An import that find_module knows.
Known ==
  /\ AtImport
  /\ Bad(Top.mod, This) = "none"
  /\ state[This.mod] # 0
  /\ AddDep(Top.mod, stack)
  /\ UNCHANGED <<files, state, order, err>>

\* An import to load first.
Enter ==
  /\ AtImport
  /\ Bad(Top.mod, This) = "none"
  /\ state[This.mod] = 0
  /\ Push(This.mod)
  /\ UNCHANGED <<files, deps, order, err>>

\* The imports of the module are done: it is listed, and is a dependency of
\* the module that asked for it.
Leave ==
  /\ Running
  /\ ~AtImport
  /\ state' = [state EXCEPT ![Top.mod] = 2]
  /\ order' = Append(order, Top.mod)
  /\ IF Len(stack) = 1 THEN stack' = <<>> /\ UNCHANGED deps
     ELSE AddDep(stack[Len(stack) - 1].mod, Front(stack))
  /\ UNCHANGED <<files, err>>

\* load_modules returns, or the compiler has exited.
Finished == ~Running /\ UNCHANGED vars

-----------------------------------------------------------------------------
Init ==
  /\ imports \in [Module -> Imports]
  /\ hits \in [Module -> 0 .. 2]
  /\ state = [m \in Module |-> IF m = Entry THEN 1 ELSE 0]
  /\ deps = [m \in Module |-> <<>>]
  /\ stack = <<[mod |-> Entry, at |-> 1]>>
  /\ order = <<>>
  /\ err = "none"

Next == Fail \/ Known \/ Enter \/ Leave \/ Finished

Spec == Init /\ [][Next]_vars

-----------------------------------------------------------------------------
\* The list is in order: what a module imports comes before it, and no
\* module is compiled twice.
InOrder ==
  /\ IsInjective(order)
  /\ \A k \in DOMAIN order :
       \A i \in Range(imports[order[k]]) : \E j \in 1 .. k - 1 : order[j] = i.mod

\* The modules the entry reaches: those of every set that holds the entry and
\* what its members import.
Reached ==
  {m \in Module :
     \A S \in SUBSET Module :
       Entry \in S /\ (\A k \in S : \A i \in Range(imports[k]) : i.mod \in S) => m \in S}

\* An order of all of them in which imports point backwards.
Acyclic ==
  \E rank \in [Reached -> 1 .. Cardinality(Reached)] :
    \A m \in Reached : \A i \in Range(imports[m]) : rank[i.mod] < rank[m]

\* A program has every module it imports, at one place, under one name, once.
Sound(m) ==
  /\ \A i \in Range(imports[m]) : hits[i.mod] = 1
  /\ \A j, k \in DOMAIN imports[m] :
       j # k => imports[m][j].mod # imports[m][k].mod /\ imports[m][j].call # imports[m][k].call

\* The loader accepts exactly the programs whose imports are in order, and
\* then the list is the modules the entry reaches.
Exact ==
  /\ err # "none" => ~(Acyclic /\ \A m \in Reached : Sound(m))
  /\ err = "none" /\ stack = <<>> =>
       Acyclic /\ (\A m \in Reached : Sound(m)) /\ Range(order) = Reached

=============================================================================
