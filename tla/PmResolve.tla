----------------------------- MODULE PmResolve -----------------------------
(***************************************************************************)
(* The package manager decides which version of each package to use        *)
(* (resolve in src/tools/pm/resolve.ys): the largest of the lower bounds   *)
(* asked for, found in rounds over the manifests fetched so far.           *)
(*                                                                         *)
(* The world is revealed as it is fetched: what a package declares is      *)
(* chosen when its manifest is read for the first time, and is the same    *)
(* from then on (a repository is fetched once per run, vcs.ensure).        *)
(* Versions are numbered in the order of semver.cmp.  The requirements of  *)
(* a round are taken in any order, not only in that of the files.          *)
(***************************************************************************)
EXTENDS Naturals, FiniteSets

CONSTANTS
  Name,       \* names of packages
  Url,        \* where packages come from
  MaxVer,     \* bound: the last version of any package
  Declared,   \* what a manifest may declare
  MaxRounds,  \* the rounds resolve allows itself
  None        \* "not selected", "the package itself"

Ver == 1 .. MaxVer
Dep == [name : Name, url : Url, min : Ver]

\* manifest.parse refuses a second dep line of the same name.
ASSUME DeclaredAssumption ==
  \A D \in Declared : D \subseteq Dep /\ \A d, e \in D : d.name = e.name => d = e
ASSUME BoundsAssumption == MaxVer \in Nat /\ MaxRounds \in Nat

Package == [name : Name, ver : Ver]
Sel     == [url : Url, ver : Ver, fetched : BOOLEAN, why : Package \cup {None}]
Req     == [name : Name, url : Url, min : Ver, why : Package \cup {None}]

ASSUME NoneAssumption == None \notin Sel /\ None \notin Package

VARIABLES
  root,     \* what the package itself declares
  seen,     \* the manifests read: of which version, and what they declare
  sel,      \* what is selected under each name
  reqs,     \* the requirements left to look at in this round
  rounds,   \* rounds begun
  changed,  \* something changed in this round
  phase
vars == <<root, seen, sel, reqs, rounds, changed, phase>>

\* A tag of a repository: only the manifest that says it is this version of
\* this package is taken.
Source  == [name : Name, url : Url, ver : Ver]
At(n)   == [name |-> n, url |-> sel[n].url, ver |-> sel[n].ver]
Read(t) == \E m \in seen : m.at = t

AsReq(d, who) == [name |-> d.name, url |-> d.url, min |-> d.min, why |-> who]

Selected == {n \in Name : sel[n] # None}
Pending  == {n \in Selected : ~sel[n].fetched}

\* The requirements of the package itself and of all that was ever read.
RootReqs == {AsReq(d, None) : d \in root}
ReqsOf(m) == {AsReq(d, [name |-> m.at.name, ver |-> m.at.ver]) : d \in m.deps}
Ever     == RootReqs \cup UNION {ReqsOf(m) : m \in seen}

\* Mutant of Asked: the requirements of other packages are not collected.
AskedRoot == RootReqs

\* (1) the requirements of the package itself and of what is selected now.
Asked ==
  RootReqs \cup
    UNION {ReqsOf(m) : m \in {m \in seen : m.at.name \in Selected /\ m.at = At(m.at.name)}}

-----------------------------------------------------------------------------
\* A new round, unless there were too many.
NextRound ==
  /\ phase = "round" /\ reqs = {} /\ Pending = {} /\ changed
  /\ rounds < MaxRounds
  /\ rounds' = rounds + 1
  /\ changed' = FALSE
  /\ reqs' = Asked
  /\ UNCHANGED <<root, seen, sel, phase>>

GiveUp ==
  /\ phase = "round" /\ reqs = {} /\ Pending = {} /\ changed
  /\ rounds >= MaxRounds
  /\ phase' = "gave_up"
  /\ UNCHANGED <<root, seen, sel, reqs, rounds, changed>>

Put(r) == sel' = [sel EXCEPT ![r.name] =
            [url |-> r.url, ver |-> r.min, fetched |-> FALSE, why |-> r.why]]

\* (2) a name not met before.
Add(r) ==
  /\ phase = "round" /\ r \in reqs
  /\ sel[r.name] = None
  /\ Put(r)
  /\ changed' = TRUE
  /\ reqs' = reqs \ {r}
  /\ UNCHANGED <<root, seen, rounds, phase>>

\* The same name from two places.
Clash(r) ==
  /\ phase = "round" /\ r \in reqs
  /\ sel[r.name] # None /\ sel[r.name].url # r.url
  /\ phase' = "refused"
  /\ UNCHANGED <<root, seen, sel, reqs, rounds, changed>>

\* Mutant of Raise: the manifest of the old version stays in use.
RaiseStale(r) ==
  /\ phase = "round" /\ r \in reqs
  /\ sel[r.name] # None /\ sel[r.name].url = r.url /\ sel[r.name].ver < r.min
  /\ sel' = [sel EXCEPT ![r.name].ver = r.min]
  /\ changed' = TRUE
  /\ reqs' = reqs \ {r}
  /\ UNCHANGED <<root, seen, rounds, phase>>

\* Mutant of Raise: any other lower bound moves the version, a smaller one too.
RaiseLast(r) ==
  /\ phase = "round" /\ r \in reqs
  /\ sel[r.name] # None /\ sel[r.name].url = r.url /\ sel[r.name].ver # r.min
  /\ Put(r)
  /\ changed' = TRUE
  /\ reqs' = reqs \ {r}
  /\ UNCHANGED <<root, seen, rounds, phase>>

\* A higher lower bound: the version moves, its manifest is to be fetched.
Raise(r) ==
  /\ phase = "round" /\ r \in reqs
  /\ sel[r.name] # None /\ sel[r.name].url = r.url /\ sel[r.name].ver < r.min
  /\ Put(r)
  /\ changed' = TRUE
  /\ reqs' = reqs \ {r}
  /\ UNCHANGED <<root, seen, rounds, phase>>

Keep(r) ==
  /\ phase = "round" /\ r \in reqs
  /\ sel[r.name] # None /\ sel[r.name].url = r.url /\ sel[r.name].ver >= r.min
  /\ reqs' = reqs \ {r}
  /\ UNCHANGED <<root, seen, sel, rounds, changed, phase>>

\* (3) the manifest of a version selected in this round is read.
Fetch(n, deps) ==
  /\ phase = "round" /\ reqs = {} /\ n \in Pending
  /\ \A m \in seen : m.at = At(n) => m.deps = deps
  /\ \A m \in seen : m.at.url = sel[n].url /\ m.at.ver = sel[n].ver => m.at.name = n
  /\ seen' = seen \cup {[at |-> At(n), deps |-> deps]}
  /\ sel' = [sel EXCEPT ![n].fetched = TRUE]
  /\ changed' = TRUE
  /\ UNCHANGED <<root, reqs, rounds, phase>>

\* There is no such tag, no manifest, or one of another name or version.
Refuse(n) ==
  /\ phase = "round" /\ reqs = {} /\ n \in Pending
  /\ ~Read(At(n))
  /\ phase' = "refused"
  /\ UNCHANGED <<root, seen, sel, reqs, rounds, changed>>

\* A round that changed nothing is the last one.
Finish ==
  /\ phase = "round" /\ reqs = {} /\ Pending = {} /\ ~changed
  /\ phase' = "done"
  /\ UNCHANGED <<root, seen, sel, reqs, rounds, changed>>

Over == phase # "round" /\ UNCHANGED vars

Init ==
  /\ root \in Declared
  /\ seen = {}
  /\ sel = [n \in Name |-> None]
  /\ reqs = {}
  /\ rounds = 0
  /\ changed = TRUE
  /\ phase = "round"

Next ==
  \/ NextRound
  \/ GiveUp
  \/ \E r \in reqs : Add(r) \/ Clash(r) \/ Raise(r) \/ Keep(r)
  \/ \E n \in Name : (\E deps \in Declared : Fetch(n, deps)) \/ Refuse(n)
  \/ Finish
  \/ Over

Spec == Init /\ [][Next]_vars

-----------------------------------------------------------------------------
Manifest == [at : Source, deps : Declared]

\* Types; what was fetched was read; and nothing is pending between rounds.
TypeOK ==
  /\ root \in Declared
  /\ seen \subseteq Manifest
  /\ sel \in [Name -> Sel \cup {None}]
  /\ reqs \subseteq Req
  /\ rounds \in 0 .. MaxRounds
  /\ changed \in BOOLEAN
  /\ phase \in {"round", "gave_up", "refused", "done"}
  /\ \A n \in Selected : sel[n].fetched => Read(At(n))

Met(r) == sel[r.name] # None /\ sel[r.name].url = r.url /\ sel[r.name].ver >= r.min

\* Every version selected was asked for, by the one that "why" names
\* (nothing moves unless somebody declares it, package-manager.md 5).
WhyTrue ==
  \A n \in Selected :
    [name |-> n, url |-> sel[n].url, min |-> sel[n].ver, why |-> sel[n].why] \in Ever

\* What resolve returns is the largest of all the lower bounds it was told,
\* those of manifests that were replaced included: everything that any of
\* them asked for is there, from the same place, in that version or later.
AllMet == phase = "done" => \A r \in Ever : Met(r)

\* The rounds only run out on as many versions as there are rounds: lower
\* bounds that go round in a circle do not keep resolve from ending.
EnoughRounds == phase = "gave_up" => Cardinality(seen) >= MaxRounds

=============================================================================
