------------------------- MODULE PmCommands_proofs -------------------------
(***************************************************************************)
(* Proofs about the package manager, for any packages, versions and        *)
(* declarations: the answer meets every requirement that was read, the     *)
(* rounds only run out on as many manifests, and the files of a package    *)
(* are right however often a command is interrupted.                       *)
(***************************************************************************)
EXTENDS PmCommands, FiniteSetTheorems, TLAPS

\* What is left to look at was asked for by somebody.
ReqsInv == reqs \subseteq Ever

\* A requirement that was read is met, or is still to be looked at in this
\* round, or will be in the next one.
MetInv ==
  /\ phase = "round" =>
       \A r \in Ever : Met(r) \/ r \in reqs \/ (reqs = {} /\ changed /\ r \in Asked)
  /\ AllMet

\* Versions only go up, so what is pending was never read.
UpInv ==
  /\ \A m \in seen : /\ sel[m.at.name] # None
                     /\ m.at.url = sel[m.at.name].url
                     /\ m.at.ver <= sel[m.at.name].ver
  /\ \A n \in Pending : ~Read(At(n))

\* A round that changes anything ends with one more manifest read.
RoundsInv ==
  /\ IsFiniteSet(seen)
  /\ rounds <= Cardinality(seen) + 1
  /\ changed /\ Pending = {} => rounds <= Cardinality(seen)

ResolveInv == TypeOK /\ ReqsInv /\ WhyTrue /\ MetInv /\ UpInv /\ RoundsInv /\ EnoughRounds

-----------------------------------------------------------------------------
\* The requirements that a declaration gives rise to.
LEMMA EverFacts ==
  ASSUME TypeOK
  PROVE  Ever \subseteq Req /\ Asked \subseteq Ever
<1>1. RootReqs \subseteq Req
  BY DeclaredAssumption DEF RootReqs, AsReq, TypeOK, Req, Dep
<1>2. ASSUME NEW m \in seen
      PROVE  ReqsOf(m) \subseteq Req
  <2>1. m.at \in Source /\ m.deps \in Declared
    BY DEF TypeOK, Manifest
  <2>2. [name |-> m.at.name, ver |-> m.at.ver] \in Package
    BY <2>1 DEF Source, Package
  <2>3. m.deps \subseteq Dep
    BY <2>1, DeclaredAssumption
  <2> QED
    BY <2>2, <2>3 DEF ReqsOf, AsReq, Req, Dep
<1>3. Ever \subseteq Req
  BY <1>1, <1>2 DEF Ever
<1>4. Asked \subseteq Ever
  BY DEF Asked, Ever
<1> QED
  BY <1>3, <1>4

\* What Put changes, and what it leaves alone.
LEMMA PutFacts ==
  ASSUME TypeOK, NEW r \in Req, Put(r)
  PROVE  /\ r.name \in Name
         /\ sel' \in [Name -> Sel \cup {None}]
         /\ sel'[r.name] # None
         /\ sel'[r.name].url = r.url /\ sel'[r.name].ver = r.min
         /\ sel'[r.name].why = r.why /\ sel'[r.name].fetched = FALSE
         /\ \A n \in Name \ {r.name} : sel'[n] = sel[n]
<1> DEFINE new == [url |-> r.url, ver |-> r.min, fetched |-> FALSE, why |-> r.why]
<1>1. r.name \in Name /\ new \in Sel /\ new # None
  <2>1. r.name \in Name /\ r.url \in Url /\ r.min \in Ver /\ r.why \in Package \cup {None}
    BY DEF Req
  <2>2. new \in Sel
    BY <2>1 DEF Sel
  <2> QED
    BY <2>1, <2>2, NoneAssumption
<1>2. sel' = [sel EXCEPT ![r.name] = new]
  BY DEF Put
<1> HIDE DEF new
<1>3. /\ sel' \in [Name -> Sel \cup {None}]
      /\ sel'[r.name] = new
      /\ \A n \in Name \ {r.name} : sel'[n] = sel[n]
  BY <1>1, <1>2 DEF TypeOK
<1>4. new.url = r.url /\ new.ver = r.min /\ new.why = r.why /\ new.fetched = FALSE
  BY DEF new
<1> QED
  BY <1>1, <1>3, <1>4

\* A name that is selected has all the fields of a selection.
LEMMA SelFacts ==
  ASSUME TypeOK, NEW n \in Selected
  PROVE  n \in Name /\ sel[n] \in Sel /\ sel[n] # None /\ At(n) \in Source
  BY DEF TypeOK, Selected, Sel, At, Source

\* Fetch marks one selection as read and changes nothing else of any.
LEMMA FetchFacts ==
  ASSUME TypeOK, NEW n \in Name, NEW ds \in Declared, Fetch(n, ds)
  PROVE  /\ n \in Pending /\ n \in Selected
         /\ sel' \in [Name -> Sel \cup {None}]
         /\ sel'[n] # None /\ sel'[n].fetched
         /\ sel'[n].url = sel[n].url /\ sel'[n].ver = sel[n].ver /\ sel'[n].why = sel[n].why
         /\ \A k \in Name \ {n} : sel'[k] = sel[k]
         /\ Selected' = Selected
         /\ \A k \in Selected : At(k)' = At(k)
         /\ Pending' = Pending \ {n}
<1>1. n \in Pending /\ n \in Selected /\ sel' = [sel EXCEPT ![n].fetched = TRUE]
  BY DEF Fetch, Pending
<1>2. sel[n] \in Sel
  BY <1>1, SelFacts
<1>3. /\ sel'[n] \in Sel /\ sel'[n].fetched
      /\ sel'[n].url = sel[n].url /\ sel'[n].ver = sel[n].ver /\ sel'[n].why = sel[n].why
  <2>1. sel'[n] = [sel[n] EXCEPT !.fetched = TRUE]
    BY <1>1 DEF TypeOK
  <2> QED
    BY <1>2, <2>1 DEF Sel
<1>4. sel'[n] # None
  BY <1>3, NoneAssumption
<1>5. \A k \in Name \ {n} : sel'[k] = sel[k]
  BY <1>1 DEF TypeOK
<1>6. sel' \in [Name -> Sel \cup {None}]
  BY <1>1, <1>3, <1>5 DEF TypeOK
<1>7. Selected' = Selected
  BY <1>1, <1>4, <1>5 DEF Selected
<1>8. \A k \in Selected : At(k)' = At(k)
  BY <1>3, <1>5 DEF At, Selected
<1>9. Pending' = Pending \ {n}
  BY <1>3, <1>5, <1>7 DEF Pending, Selected
<1> QED
  BY <1>1, <1>3, <1>4, <1>5, <1>6, <1>7, <1>8, <1>9

-----------------------------------------------------------------------------
LEMMA InitType == Init => TypeOK
  BY BoundsAssumption DEF Init, TypeOK, Selected

LEMMA StepType ==
  ASSUME TypeOK, Next
  PROVE  TypeOK'
<1> USE DEF TypeOK
<1>1. CASE NextRound
  <2>1. rounds' \in 0 .. MaxRounds
    BY <1>1, BoundsAssumption DEF NextRound
  <2>2. reqs' \subseteq Req
    BY <1>1, EverFacts DEF NextRound
  <2> QED
    BY <1>1, <2>1, <2>2 DEF NextRound, Selected, Read, At
<1>2. CASE GiveUp
  BY <1>2 DEF GiveUp, Selected, Read, At
<1>3. ASSUME NEW r \in reqs, Add(r) \/ Raise(r)
      PROVE  TypeOK'
  <2>1. /\ Put(r) /\ changed' = TRUE /\ reqs' = reqs \ {r}
        /\ UNCHANGED <<root, seen, rounds, phase>>
    BY <1>3 DEF Add, Raise
  <2>2. r \in Req
    OBVIOUS
  <2>3. ASSUME NEW n \in Selected', sel'[n].fetched
        PROVE  Read(At(n))'
    <3>1. n \in Name /\ n # r.name
      <4>1. sel'[r.name].fetched = FALSE
        BY <2>1, <2>2, PutFacts
      <4> QED
        BY <2>3, <4>1 DEF Selected
    <3>2. sel'[n] = sel[n]
      BY <2>1, <2>2, <3>1, PutFacts
    <3> QED
      BY <2>1, <2>3, <3>1, <3>2 DEF Selected, Read, At
  <2> QED
    BY <2>1, <2>2, <2>3, PutFacts
<1>4. ASSUME NEW r \in reqs, Clash(r) \/ Keep(r)
      PROVE  TypeOK'
  BY <1>4 DEF Clash, Keep, Selected, Read, At
<1>5. ASSUME NEW n \in Name, NEW ds \in Declared, Fetch(n, ds)
      PROVE  TypeOK'
  <2>1. /\ seen' = seen \cup {[at |-> At(n), deps |-> ds]}
        /\ changed' = TRUE /\ UNCHANGED <<root, reqs, rounds, phase>>
    BY <1>5 DEF Fetch
  <2>2. seen' \subseteq Manifest
    BY <2>1, <1>5, FetchFacts, SelFacts DEF Manifest
  <2>3. ASSUME NEW k \in Selected', sel'[k].fetched
        PROVE  Read(At(k))'
    <3>1. k \in Selected /\ At(k)' = At(k)
      BY <1>5, FetchFacts
    <3>2. CASE k = n
      <4>1. [at |-> At(n), deps |-> ds] \in seen' /\ At(k)' = At(n)
        BY <2>1, <3>1, <3>2
      <4> QED
        BY <4>1 DEF Read
    <3>3. CASE k # n
      BY <2>1, <2>3, <3>1, <3>3, <1>5, FetchFacts DEF Read, Selected
    <3> QED
      BY <3>2, <3>3
  <2> QED
    BY <2>1, <2>2, <2>3, <1>5, FetchFacts
<1>6. ASSUME NEW n \in Name, Refuse(n)
      PROVE  TypeOK'
  BY <1>6 DEF Refuse, Selected, Read, At
<1>7. CASE Finish
  BY <1>7 DEF Finish, Selected, Read, At
<1>8. CASE Over
  BY <1>8 DEF Over, vars, Selected, Read, At
<1> QED
  BY <1>1, <1>2, <1>3, <1>4, <1>5, <1>6, <1>7, <1>8 DEF Next

-----------------------------------------------------------------------------
\* Requirements are only added, and only by reading a manifest.
LEMMA EverGrows ==
  /\ UNCHANGED <<root, seen>> => Ever' = Ever
  /\ \A n, ds : Fetch(n, ds) => Ever' = Ever \cup ReqsOf([at |-> At(n), deps |-> ds])
<1>1. UNCHANGED <<root, seen>> => Ever' = Ever
  BY DEF Ever, RootReqs
<1>2. ASSUME NEW n, NEW ds, Fetch(n, ds)
      PROVE  Ever' = Ever \cup ReqsOf([at |-> At(n), deps |-> ds])
  <2>1. root' = root /\ seen' = seen \cup {[at |-> At(n), deps |-> ds]}
    BY <1>2 DEF Fetch
  <2>2. RootReqs' = RootReqs
    BY <2>1 DEF RootReqs
  <2> QED
    BY <2>1, <2>2 DEF Ever
<1> QED
  BY <1>1, <1>2

\* What a step that selects a version (2) has in common.
LEMMA RaiseFacts ==
  ASSUME TypeOK, NEW r \in reqs, Add(r) \/ Raise(r)
  PROVE  /\ r \in Req /\ Put(r)
         /\ phase = "round" /\ changed' = TRUE /\ reqs' = reqs \ {r}
         /\ UNCHANGED <<root, seen, rounds, phase>>
         /\ sel[r.name] = None \/ (sel[r.name].url = r.url /\ sel[r.name].ver < r.min)
  BY DEF Add, Raise, TypeOK

LEMMA StepReqs ==
  ASSUME TypeOK, ReqsInv, Next
  PROVE  ReqsInv'
<1> USE DEF ReqsInv
<1>1. CASE NextRound
  BY <1>1, EverGrows, EverFacts DEF NextRound
<1>2. ASSUME NEW r \in reqs, Add(r) \/ Raise(r) \/ Clash(r) \/ Keep(r)
      PROVE  ReqsInv'
  <2>1. UNCHANGED <<root, seen>> /\ reqs' \subseteq reqs
    BY <1>2 DEF Add, Raise, Clash, Keep
  <2> QED
    BY <2>1, EverGrows
<1>3. ASSUME NEW n \in Name, NEW ds \in Declared, Fetch(n, ds)
      PROVE  ReqsInv'
  <2>1. reqs' = reqs
    BY <1>3 DEF Fetch
  <2> QED
    BY <1>3, <2>1, EverGrows
<1>4. CASE GiveUp \/ (\E n \in Name : Refuse(n)) \/ Finish \/ Over
  <2>1. UNCHANGED <<root, seen, reqs>>
    BY <1>4 DEF GiveUp, Refuse, Finish, Over, vars
  <2> QED
    BY <2>1, EverGrows
<1> QED
  BY <1>1, <1>2, <1>3, <1>4 DEF Next

LEMMA StepWhy ==
  ASSUME TypeOK, ReqsInv, WhyTrue, Next
  PROVE  WhyTrue'
<1>1. CASE UNCHANGED <<root, seen, sel>>
  BY <1>1, EverGrows DEF WhyTrue, Selected
<1>2. ASSUME NEW r \in reqs, Add(r) \/ Raise(r)
      PROVE  WhyTrue'
  <2>1. r \in Req /\ Put(r) /\ r \in Ever /\ Ever' = Ever
    BY <1>2, RaiseFacts, EverGrows DEF ReqsInv
  <2>2. ASSUME NEW n \in Selected'
        PROVE  [name |-> n, url |-> sel'[n].url, min |-> sel'[n].ver,
                why |-> sel'[n].why] \in Ever
    <3>1. CASE n = r.name
      <4>1. sel'[n].url = r.url /\ sel'[n].ver = r.min /\ sel'[n].why = r.why
        BY <3>1, <2>1, PutFacts
      <4>2. r = [name |-> r.name, url |-> r.url, min |-> r.min, why |-> r.why]
        BY <2>1 DEF Req
      <4> QED
        BY <2>1, <3>1, <4>1, <4>2
    <3>2. CASE n # r.name
      <4>1. n \in Selected /\ sel'[n] = sel[n]
        BY <3>2, <2>1, PutFacts DEF Selected
      <4> QED
        BY <4>1 DEF WhyTrue
    <3> QED
      BY <3>1, <3>2
  <2> QED
    BY <2>1, <2>2 DEF WhyTrue
<1>3. ASSUME NEW n \in Name, NEW ds \in Declared, Fetch(n, ds)
      PROVE  WhyTrue'
  <2>1. Ever \subseteq Ever'
    BY <1>3, EverGrows
  <2>2. ASSUME NEW k \in Selected'
        PROVE  /\ k \in Selected
               /\ sel'[k].url = sel[k].url /\ sel'[k].ver = sel[k].ver /\ sel'[k].why = sel[k].why
    BY <1>3, FetchFacts DEF Selected
  <2> QED
    BY <2>1, <2>2 DEF WhyTrue
<1>4. CASE NextRound \/ GiveUp \/ (\E r \in reqs : Clash(r) \/ Keep(r))
           \/ (\E n \in Name : Refuse(n)) \/ Finish \/ Over
  BY <1>4, <1>1 DEF NextRound, GiveUp, Clash, Keep, Refuse, Finish, Over, vars
<1> QED
  BY <1>2, <1>3, <1>4 DEF Next

LEMMA StepMet ==
  ASSUME TypeOK, MetInv, Next
  PROVE  MetInv'
<1>1. CASE NextRound
  <2>1. phase' = "round" /\ sel' = sel /\ reqs' = Asked /\ Ever' = Ever /\ phase = "round"
    BY <1>1, EverGrows DEF NextRound
  <2>2. \A r \in Ever : Met(r)' <=> Met(r)
    BY <2>1 DEF Met
  <2>3. reqs = {}
    BY <1>1 DEF NextRound
  <2> QED
    BY <2>1, <2>2, <2>3 DEF MetInv, AllMet
<1>2. ASSUME NEW r \in reqs, Add(r) \/ Raise(r)
      PROVE  MetInv'
  <2>1. /\ r \in Req /\ Put(r)
        /\ phase = "round" /\ phase' = "round" /\ reqs' = reqs \ {r} /\ Ever' = Ever
        /\ sel[r.name] = None \/ (sel[r.name].url = r.url /\ sel[r.name].ver < r.min)
    BY <1>2, RaiseFacts, EverGrows
  <2>2. Met(r)'
    <3>1. sel'[r.name] # None /\ sel'[r.name].url = r.url /\ sel'[r.name].ver = r.min
      BY <2>1, PutFacts
    <3>2. r.min \in Nat
      BY <2>1, BoundsAssumption DEF Req, Ver
    <3> QED
      BY <3>1, <3>2 DEF Met
  <2>3. ASSUME NEW q \in Ever, Met(q)
        PROVE  Met(q)'
    <3>1. q.name \in Name /\ q.min \in Nat
      BY EverFacts, BoundsAssumption DEF Req, Ver
    <3>2. CASE q.name = r.name
      <4>1. /\ sel[r.name] # None /\ sel[r.name].url = q.url /\ q.min <= sel[r.name].ver
            /\ sel[r.name].ver < r.min
        BY <2>1, <2>3, <3>2 DEF Met
      <4>2. sel[r.name].ver \in Nat /\ r.min \in Nat
        BY <2>1, <4>1, BoundsAssumption DEF TypeOK, Sel, Req, Ver
      <4>3. sel'[r.name] # None /\ sel'[r.name].url = r.url /\ sel'[r.name].ver = r.min
        BY <2>1, PutFacts
      <4>4. sel[r.name].url = r.url
        BY <2>1, <4>1
      <4> QED
        BY <3>1, <3>2, <4>1, <4>2, <4>3, <4>4 DEF Met
    <3>3. CASE q.name # r.name
      <4>1. sel'[q.name] = sel[q.name]
        BY <2>1, <3>1, <3>3, PutFacts
      <4> QED
        BY <2>3, <4>1 DEF Met
    <3> QED
      BY <3>2, <3>3
  <2>4. \A q \in Ever : Met(q) \/ q \in reqs
    BY <2>1 DEF MetInv
  <2>5. \A q \in Ever : Met(q)' \/ q \in reqs'
    BY <2>1, <2>2, <2>3, <2>4
  <2> QED
    BY <2>1, <2>5 DEF MetInv, AllMet
<1>3. ASSUME NEW r \in reqs, Keep(r)
      PROVE  MetInv'
  <2>1. /\ phase = "round" /\ phase' = "round" /\ sel' = sel
        /\ reqs' = reqs \ {r} /\ Ever' = Ever
    BY <1>3, EverGrows DEF Keep
  <2>2. Met(r)
    BY <1>3 DEF Keep, Met
  <2>3. \A q : Met(q)' <=> Met(q)
    BY <2>1 DEF Met
  <2>4. \A q \in Ever : Met(q)' \/ q \in reqs'
    BY <2>1, <2>2, <2>3 DEF MetInv
  <2> QED
    BY <2>1, <2>4 DEF MetInv, AllMet
<1>4. ASSUME NEW n \in Name, NEW ds \in Declared, Fetch(n, ds)
      PROVE  MetInv'
  <2> DEFINE new == [at |-> At(n), deps |-> ds]
  <2>1. /\ phase = "round" /\ phase' = "round" /\ changed' = TRUE
        /\ reqs = {} /\ reqs' = {} /\ root' = root /\ seen' = seen \cup {new}
    BY <1>4 DEF Fetch
  <2>2. Ever' = Ever \cup ReqsOf(new)
    BY <1>4, EverGrows
  <2>3. ASSUME NEW q \in Ever, Met(q)
        PROVE  Met(q)'
    <3>1. q.name \in Selected
      BY <2>3, EverFacts DEF Met, Req, Selected
    <3>2. /\ sel'[q.name] # None
          /\ sel'[q.name].url = sel[q.name].url /\ sel'[q.name].ver = sel[q.name].ver
      BY <1>4, <3>1, FetchFacts DEF Selected
    <3> QED
      BY <2>3, <3>2 DEF Met
  <2>4. \A m \in seen : m.at.name \in Selected /\ m.at = At(m.at.name) =>
          m \in seen' /\ m.at.name \in Selected' /\ m.at = At(m.at.name)'
    BY <1>4, <2>1, FetchFacts
  <2>5. new \in seen' /\ new.at.name \in Selected' /\ new.at = At(new.at.name)'
    <3>1. new.at = At(n) /\ new.at.name = n
      BY DEF At
    <3> QED
      BY <1>4, <2>1, <3>1, FetchFacts
  <2>6. RootReqs' = RootReqs
    BY <2>1 DEF RootReqs
  <2> HIDE DEF new
  <2>7. Asked \subseteq Asked'
    BY <2>4, <2>6 DEF Asked
  <2>8. ReqsOf(new) \subseteq Asked'
    <3> DEFINE InUse == {m \in seen : m.at.name \in Selected /\ m.at = At(m.at.name)}
    <3>1. new \in InUse'
      BY <2>5 DEF At
    <3>2. Asked' = RootReqs' \cup UNION {ReqsOf(m) : m \in InUse'}
      BY DEF Asked
    <3> HIDE DEF InUse
    <3> QED
      BY <3>1, <3>2
  <2>9. \A q \in Ever' : Met(q)' \/ q \in Asked'
    BY <2>1, <2>2, <2>3, <2>7, <2>8 DEF MetInv
  <2> QED
    BY <2>1, <2>9 DEF MetInv, AllMet
<1>5. CASE Finish
  <2>1. phase = "round" /\ phase' = "done" /\ sel' = sel /\ Ever' = Ever /\ reqs = {} /\ ~changed
    BY <1>5, EverGrows DEF Finish
  <2>2. \A q \in Ever : Met(q)
    BY <2>1 DEF MetInv
  <2>3. \A q \in Ever : Met(q)'
    BY <2>1, <2>2 DEF Met
  <2> QED
    BY <2>1, <2>3 DEF MetInv, AllMet
<1>6. CASE GiveUp \/ (\E r \in reqs : Clash(r)) \/ (\E n \in Name : Refuse(n))
  <2>1. phase' \in {"gave_up", "refused"}
    BY <1>6 DEF GiveUp, Clash, Refuse
  <2> QED
    BY <2>1 DEF MetInv, AllMet
<1>7. CASE Over
  <2>1. UNCHANGED <<sel, reqs, changed, phase>> /\ Ever' = Ever /\ phase # "round"
    BY <1>7, EverGrows DEF Over, vars
  <2> QED
    BY <2>1 DEF MetInv, AllMet, Met
<1> QED
  BY <1>1, <1>2, <1>3, <1>4, <1>5, <1>6, <1>7 DEF Next

\* Nothing that UpInv speaks of is touched.
LEMMA UpSame ==
  ASSUME UpInv, UNCHANGED <<seen, sel>>
  PROVE  UpInv'
  BY DEF UpInv, Pending, Selected, Read, At

LEMMA StepUp ==
  ASSUME TypeOK, UpInv, Next
  PROVE  UpInv'
<1>0. \A m \in seen : m.at.name \in Name /\ m.at.ver \in Nat
  BY BoundsAssumption DEF TypeOK, Manifest, Source, Ver
<1>1. ASSUME NEW r \in reqs, Add(r) \/ Raise(r)
      PROVE  UpInv'
  <2>1. /\ r \in Req /\ Put(r) /\ seen' = seen
        /\ sel[r.name] = None \/ (sel[r.name].url = r.url /\ sel[r.name].ver < r.min)
    BY <1>1, RaiseFacts
  <2>2. r.min \in Nat /\ r.name \in Name
    BY <2>1, BoundsAssumption DEF Req, Ver
  <2>3. /\ sel'[r.name] # None /\ sel'[r.name].url = r.url /\ sel'[r.name].ver = r.min
        /\ \A n \in Name \ {r.name} : sel'[n] = sel[n]
    BY <2>1, PutFacts
  <2>4. ASSUME NEW m \in seen, m.at.name = r.name
        PROVE  m.at.url = r.url /\ m.at.ver < r.min
    <3>1. /\ sel[r.name] # None /\ m.at.url = sel[r.name].url
          /\ m.at.ver <= sel[r.name].ver
      BY <2>4 DEF UpInv
    <3>2. sel[r.name].ver \in Nat
      BY <2>2, <3>1, BoundsAssumption DEF TypeOK, Sel, Ver
    <3> QED
      BY <1>0, <2>1, <2>2, <3>1, <3>2
  <2>5. ASSUME NEW m \in seen
        PROVE  /\ sel'[m.at.name] # None /\ m.at.url = sel'[m.at.name].url
               /\ m.at.ver <= sel'[m.at.name].ver
    <3>1. CASE m.at.name = r.name
      BY <1>0, <2>2, <2>3, <2>4, <3>1
    <3>2. CASE m.at.name # r.name
      BY <1>0, <2>3, <3>2 DEF UpInv
    <3> QED
      BY <3>1, <3>2
  <2>6. ASSUME NEW n \in Pending', NEW m \in seen
        PROVE  m.at # At(n)'
    <3>1. CASE n = r.name
      <4>1. At(n)'.name = r.name /\ At(n)'.ver = r.min
        BY <2>3, <3>1 DEF At
      <4> QED
        BY <1>0, <2>2, <2>4, <4>1
    <3>2. CASE n # r.name
      <4>1. n \in Pending /\ At(n)' = At(n)
        BY <2>3, <3>2 DEF Pending, Selected, At
      <4> QED
        BY <4>1 DEF UpInv, Read
    <3> QED
      BY <3>1, <3>2
  <2>7. \A n \in Pending' : ~Read(At(n))'
    BY <2>1, <2>6 DEF Read, At
  <2> QED
    BY <2>1, <2>5, <2>7 DEF UpInv
<1>2. ASSUME NEW n \in Name, NEW ds \in Declared, Fetch(n, ds)
      PROVE  UpInv'
  <2> DEFINE new == [at |-> At(n), deps |-> ds]
  <2>1. seen' = seen \cup {new} /\ n \in Selected
    BY <1>2, FetchFacts DEF Fetch
  <2>2. new.at.name = n /\ new.at.url = sel[n].url /\ new.at.ver = sel[n].ver /\ sel[n].ver \in Nat
    BY <2>1, BoundsAssumption DEF At, Selected, TypeOK, Sel, Ver
  <2> HIDE DEF new
  <2>3. \A k \in Selected : /\ k \in Name /\ sel'[k] # None
                            /\ sel'[k].url = sel[k].url /\ sel'[k].ver = sel[k].ver
    BY <1>2, FetchFacts DEF Selected
  <2>4. ASSUME NEW m \in seen'
        PROVE  /\ sel'[m.at.name] # None /\ m.at.url = sel'[m.at.name].url
               /\ m.at.ver <= sel'[m.at.name].ver
    <3>1. CASE m = new
      BY <2>1, <2>2, <2>3, <3>1
    <3>2. CASE m \in seen
      <4>1. /\ sel[m.at.name] # None /\ m.at.url = sel[m.at.name].url
            /\ m.at.ver <= sel[m.at.name].ver
        BY <3>2 DEF UpInv
      <4>2. m.at.name \in Selected
        BY <1>0, <3>2, <4>1 DEF Selected
      <4> QED
        BY <2>3, <4>1, <4>2
    <3> QED
      BY <2>1, <3>1, <3>2
  <2>5. ASSUME NEW k \in Pending', NEW m \in seen'
        PROVE  m.at # At(k)'
    <3>1. k \in Pending /\ k # n /\ At(k)' = At(k)
      BY <1>2, FetchFacts DEF Pending
    <3>2. CASE m = new
      <4>1. At(k).name = k
        BY DEF At
      <4> QED
        BY <2>2, <3>1, <3>2, <4>1
    <3>3. CASE m \in seen
      BY <3>1, <3>3 DEF UpInv, Read
    <3> QED
      BY <2>1, <3>2, <3>3
  <2>6. \A k \in Pending' : ~Read(At(k))'
    BY <2>5 DEF Read, At
  <2> QED
    BY <2>4, <2>6 DEF UpInv
<1>3. CASE NextRound \/ GiveUp \/ (\E r \in reqs : Clash(r) \/ Keep(r))
           \/ (\E n \in Name : Refuse(n)) \/ Finish \/ Over
  BY <1>3, UpSame DEF NextRound, GiveUp, Clash, Keep, Refuse, Finish, Over, vars
<1> QED
  BY <1>1, <1>2, <1>3 DEF Next

LEMMA StepRounds ==
  ASSUME TypeOK, UpInv, RoundsInv, Next
  PROVE  RoundsInv'
<1>0. Cardinality(seen) \in Nat /\ rounds \in Nat
  BY FS_CardinalityType, BoundsAssumption DEF RoundsInv, TypeOK
<1>1. CASE NextRound
  <2>1. /\ rounds' = rounds + 1 /\ ~changed' /\ seen' = seen
        /\ changed /\ Pending = {}
    BY <1>1 DEF NextRound
  <2> QED
    BY <1>0, <2>1 DEF RoundsInv
<1>2. ASSUME NEW r \in reqs, Add(r) \/ Raise(r)
      PROVE  RoundsInv'
  <2>1. UNCHANGED <<seen, rounds>> /\ r \in Req /\ Put(r)
    BY <1>2, RaiseFacts
  <2>2. r.name \in Pending'
    BY <2>1, PutFacts DEF Pending, Selected
  <2> QED
    BY <2>1, <2>2 DEF RoundsInv
<1>3. ASSUME NEW n \in Name, NEW ds \in Declared, Fetch(n, ds)
      PROVE  RoundsInv'
  <2> DEFINE new == [at |-> At(n), deps |-> ds]
  <2>1. seen' = seen \cup {new} /\ rounds' = rounds /\ n \in Pending
    BY <1>3, FetchFacts DEF Fetch
  <2>2. new \notin seen
    BY <2>1 DEF UpInv, Read
  <2> HIDE DEF new
  <2>3. IsFiniteSet(seen') /\ Cardinality(seen') = Cardinality(seen) + 1
    BY <2>1, <2>2, FS_AddElement DEF RoundsInv
  <2> QED
    BY <1>0, <2>1, <2>3 DEF RoundsInv
<1>4. CASE GiveUp \/ (\E r \in reqs : Clash(r) \/ Keep(r))
           \/ (\E n \in Name : Refuse(n)) \/ Finish \/ Over
  <2>1. UNCHANGED <<seen, sel, rounds, changed>>
    BY <1>4 DEF GiveUp, Clash, Keep, Refuse, Finish, Over, vars
  <2> QED
    BY <2>1 DEF RoundsInv, Pending, Selected
<1> QED
  BY <1>1, <1>2, <1>3, <1>4 DEF Next

LEMMA StepEnough ==
  ASSUME TypeOK, RoundsInv, EnoughRounds, Next
  PROVE  EnoughRounds'
<1>0. Cardinality(seen) \in Nat /\ rounds \in Nat /\ MaxRounds \in Nat
  BY FS_CardinalityType, BoundsAssumption DEF RoundsInv, TypeOK
<1>1. CASE GiveUp
  <2>1. rounds >= MaxRounds /\ changed /\ Pending = {} /\ seen' = seen
    BY <1>1 DEF GiveUp
  <2> QED
    BY <1>0, <2>1 DEF RoundsInv, EnoughRounds
<1>2. CASE Over
  BY <1>2 DEF Over, vars, EnoughRounds
<1>3. CASE \/ NextRound \/ Finish
           \/ \E r \in reqs : Add(r) \/ Raise(r) \/ Clash(r) \/ Keep(r)
           \/ \E n \in Name : Refuse(n) \/ \E ds \in Declared : Fetch(n, ds)
  <2>1. phase' \in {"round", "refused", "done"}
    BY <1>3 DEF NextRound, Finish, Add, Raise, Clash, Keep, Refuse, Fetch
  <2> QED
    BY <2>1 DEF EnoughRounds
<1> QED
  BY <1>1, <1>2, <1>3 DEF Next

LEMMA InitResolve == Init => ResolveInv
<1> SUFFICES ASSUME Init PROVE ResolveInv
  OBVIOUS
<1>1. seen = {} /\ reqs = {} /\ rounds = 0 /\ changed = TRUE /\ phase = "round"
      /\ sel = [n \in Name |-> None]
  BY DEF Init
<1>2. Selected = {} /\ Pending = {}
  BY <1>1 DEF Selected, Pending
<1>3. TypeOK
  BY InitType
<1>4. ReqsInv /\ WhyTrue /\ UpInv /\ AllMet /\ EnoughRounds
  BY <1>1, <1>2 DEF ReqsInv, WhyTrue, UpInv, AllMet, EnoughRounds
<1>5. MetInv
  <2>1. Ever = RootReqs /\ RootReqs \subseteq Asked
    BY <1>1 DEF Ever, Asked
  <2> QED
    BY <1>1, <1>4, <2>1 DEF MetInv
<1>6. RoundsInv
  BY <1>1, FS_EmptySet DEF RoundsInv
<1> QED
  BY <1>3, <1>4, <1>5, <1>6 DEF ResolveInv

LEMMA StepResolve == ResolveInv /\ [Next]_vars => ResolveInv'
<1> SUFFICES ASSUME ResolveInv, [Next]_vars PROVE ResolveInv'
  OBVIOUS
<1>1. CASE Next
  BY <1>1, StepType, StepReqs, StepWhy, StepMet, StepUp, StepRounds, StepEnough DEF ResolveInv
<1>2. CASE UNCHANGED vars
  <2>1. UNCHANGED <<root, seen, sel, reqs, rounds, changed, phase>>
    BY <1>2 DEF vars
  <2>2. Ever' = Ever /\ Selected' = Selected /\ Pending' = Pending
    BY <2>1, EverGrows DEF Selected, Pending
  <2>3. Asked' = Asked
    BY <2>1 DEF Asked, RootReqs, Selected, At
  <2>4. TypeOK' /\ ReqsInv' /\ WhyTrue'
    BY <2>1, <2>2 DEF ResolveInv, TypeOK, ReqsInv, WhyTrue, Read, At
  <2>5. MetInv'
    BY <2>1, <2>2, <2>3 DEF ResolveInv, MetInv, AllMet, Met
  <2>6. UpInv' /\ RoundsInv' /\ EnoughRounds'
    BY <2>1, <2>2, UpSame DEF ResolveInv, RoundsInv, EnoughRounds
  <2> QED
    BY <2>4, <2>5, <2>6 DEF ResolveInv
<1> QED
  BY <1>1, <1>2

-----------------------------------------------------------------------------
\* The state of resolve stays within its types, and what counts as fetched
\* has been read.
THEOREM Types == Spec => []TypeOK
<1>1. ResolveInv => TypeOK
  BY DEF ResolveInv
<1> QED
  BY InitResolve, StepResolve, <1>1, PTL DEF Spec

\* What resolve (resolve.ys) returns satisfies every lower bound it has read,
\* whatever was declared and in whatever order it was met.
THEOREM Answer == Spec => []AllMet
<1>1. ResolveInv => AllMet
  BY DEF ResolveInv, MetInv
<1> QED
  BY InitResolve, StepResolve, <1>1, PTL DEF Spec

\* No version is selected that nobody asked for: the "why" of every selection
\* names a declaration with just that lower bound.
THEOREM Minimal == Spec => []WhyTrue
<1>1. ResolveInv => WhyTrue
  BY DEF ResolveInv
<1> QED
  BY InitResolve, StepResolve, <1>1, PTL DEF Spec

\* resolve gives up after MaxRounds rounds only if it has read as many
\* manifests: it is not circular lower bounds that make it give up.
THEOREM Rounds == Spec => []EnoughRounds
<1>1. ResolveInv => EnoughRounds
  BY DEF ResolveInv
<1> QED
  BY InitResolve, StepResolve, <1>1, PTL DEF Spec

-----------------------------------------------------------------------------
\* The commands.
LockFile == [roots : SUBSET Dep, entries : SUBSET Source]

Installing == {"check", "remove", "make", "write"}
Saving     == {"open lock", "write lock", "open pkg", "write pkg"}

CmdTypeOK ==
  /\ {} \in Declared
  /\ pkg \in Declared \cup {None}
  /\ want \in Declared \cup {None}
  /\ lock \in LockFile
  /\ target \in LockFile
  /\ deps \in (SUBSET Source) \cup {NoDir}
  /\ at \in {"idle", "plan", "compile"} \cup Installing \cup Saving
  /\ hurt \in BOOLEAN

\* The lower bounds a lock was made for are met by its entries.
Meets(lk) ==
  \A d \in lk.roots : \E e \in lk.entries : e.name = d.name /\ e.url = d.url /\ e.ver >= d.min

\* What a command holds on its way: the resolver works on the declarations it
\* will save, the lock it installs was made for them or is the one there is,
\* and the files are written in the order deps/, lock, manifest.
WorkInv ==
  /\ at = "plan" => want # None /\ root = want
  /\ at \in Installing /\ want = None => target = lock /\ lock.roots = pkg
  /\ at \in Installing \cup Saving /\ want # None => target.roots = want
  /\ at \in {"remove", "write"} => deps # NoDir
  /\ at \in Saving => want # None /\ deps # NoDir /\ deps = target.entries
  /\ at \in {"open pkg", "write pkg"} => lock = target
  /\ at = "compile" => cmd = "build"
  /\ at # "idle" => last = "none"

MeetsInv == Meets(lock) /\ Meets(target)

\* deps/ holds what the lock lists, except while a command makes it anew.
HeldInv ==
  at \in {"idle", "plan", "check", "compile"} /\ ~hurt => Held = lock.entries

InstallInv == CmdTypeOK /\ WorkInv /\ HeldInv

-----------------------------------------------------------------------------
LEMMA NextRoot == Next => root' = root
  BY DEF Next, NextRound, GiveUp, Add, Clash, Raise, Keep, Fetch, Refuse, Finish, Over, vars

LEMMA ResetResolve ==
  ASSUME NEW m \in Declared, Reset(m)
  PROVE  ResolveInv'
<1>1. Init'
  BY DEF Reset, Init
<1>2. Init' => ResolveInv'
  BY InitResolve, PTL
<1> QED
  BY <1>1, <1>2

\* Commands start resolve anew and let it run: what holds of it alone holds
\* under the commands.
LEMMA CmdResolve ==
  ASSUME ResolveInv, {} \in Declared, [CmdNext]_all
  PROVE  ResolveInv'
<1>1. ASSUME UNCHANGED vars
      PROVE  ResolveInv'
  BY <1>1, StepResolve
<1>2. ASSUME Next
      PROVE  ResolveInv'
  BY <1>2, StepResolve
<1>3. ASSUME \E m \in Declared : Reset(m)
      PROVE  ResolveInv'
  BY <1>3, ResetResolve
<1>4. \A c, m : Plan(c, m) => \E d \in Declared : Reset(d)
  BY DEF Plan
<1>5. \A w \in BOOLEAN : Ends(w) => \E m \in Declared : Reset(m)
  BY DEF Ends
<1>6. \A c : Install(c) => UNCHANGED vars
  BY DEF Install, resolver
<1>7. \A c : Synced(c) => UNCHANGED vars \/ \E m \in Declared : Reset(m)
  BY <1>4, <1>6 DEF Synced
<1>8. Done => UNCHANGED vars \/ \E m \in Declared : Reset(m)
  BY <1>5 DEF Done, resolver
<1>9. CASE cmd_add \/ cmd_update
  <2>1. \E m \in Declared : Reset(m)
    BY <1>9, <1>4 DEF cmd_add, cmd_update
  <2> QED
    BY <2>1, <1>3
<1>10. CASE cmd_sync
  BY <1>10, <1>7, <1>1, <1>3 DEF cmd_sync
<1>11. CASE cmd_build
  <2>1. UNCHANGED vars \/ \E m \in Declared : Reset(m)
    BY <1>11, <1>7 DEF cmd_build, resolver
  <2> QED
    BY <2>1, <1>1, <1>3
<1>12. CASE Resolve
  BY <1>12, <1>2 DEF Resolve
<1>13. CASE Refused \/ Compile \/ Interrupt
  <2>1. \E m \in Declared : Reset(m)
    BY <1>13, <1>5 DEF Refused, Compile, Interrupt
  <2> QED
    BY <2>1, <1>3
<1>14. CASE Installed \/ CloseManifest
  <2>1. UNCHANGED vars \/ \E m \in Declared : Reset(m)
    BY <1>14, <1>8 DEF Installed, CloseManifest, resolver
  <2> QED
    BY <2>1, <1>1, <1>3
<1>15. CASE \/ cmd_clean \/ Edit \/ Planned \/ Checked \/ run_rm \/ mkdir_p \/ WriteFiles
            \/ OpenLock \/ CloseLock \/ OpenManifest \/ Rest \/ UNCHANGED all
  <2>1. UNCHANGED vars
    BY <1>15 DEF cmd_clean, Edit, Planned, Checked, run_rm, mkdir_p, WriteFiles, OpenLock,
           CloseLock, OpenManifest, Rest, all, resolver
  <2> QED
    BY <2>1, <1>1
<1> QED
  BY <1>9, <1>10, <1>11, <1>12, <1>13, <1>14, <1>15 DEF CmdNext

-----------------------------------------------------------------------------
\* The steps of a command, grouped by what they do to its variables.
LEMMA PlanStep ==
  ASSUME InstallInv, Idle, NEW c, NEW m, Plan(c, m)
  PROVE  InstallInv'
<1>1. /\ m \in Declared /\ at' = "plan" /\ want' = m /\ root' = m /\ last' = "none"
      /\ target' = NoLock
      /\ UNCHANGED <<pkg, lock, deps, hurt>>
  BY DEF Plan, Reset, files
<1>2. NoLock \in LockFile /\ m # None
  BY <1>1, FileAssumption DEF NoLock, LockFile
<1>3. CmdTypeOK'
  BY <1>1, <1>2 DEF InstallInv, CmdTypeOK
<1>4. WorkInv'
  BY <1>1, <1>2 DEF WorkInv, Installing, Saving
<1>5. HeldInv'
  BY <1>1 DEF InstallInv, HeldInv, Held, Idle
<1> QED
  BY <1>3, <1>4, <1>5 DEF InstallInv

LEMMA SyncedStep ==
  ASSUME InstallInv, Idle, NEW c, Synced(c)
  PROVE  InstallInv'
<1>1. CASE Plan(c, pkg)
  BY <1>1, PlanStep
<1>2. CASE lock_satisfies /\ Install(c)
  <2>1. /\ at' = "check" /\ want' = None /\ target' = lock /\ last' = "none" /\ lock.roots = pkg
        /\ UNCHANGED <<pkg, lock, deps, hurt>>
    BY <1>2 DEF Install, lock_satisfies, files
  <2>2. CmdTypeOK'
    BY <2>1 DEF InstallInv, CmdTypeOK, Installing
  <2>3. WorkInv'
    BY <2>1 DEF WorkInv, Installing, Saving
  <2>4. HeldInv'
    BY <2>1 DEF InstallInv, HeldInv, Held, Idle
  <2> QED
    BY <2>2, <2>3, <2>4 DEF InstallInv
<1> QED
  BY <1>1, <1>2 DEF Synced

\* A command that ends where the files agree.
LEMMA EndsStep ==
  ASSUME InstallInv, NEW w \in BOOLEAN, Ends(w), UNCHANGED <<lock, deps>>,
         pkg' \in Declared \cup {None}, hurt' \in BOOLEAN,
         ~hurt' => Held = lock.entries
  PROVE  InstallInv'
<1>1. at' = "idle" /\ want' = None /\ target' = NoLock
  BY DEF Ends
<1>2. NoLock \in LockFile
  BY DEF NoLock, LockFile
<1>3. CmdTypeOK'
  BY <1>1, <1>2 DEF InstallInv, CmdTypeOK
<1>4. WorkInv'
  BY <1>1 DEF WorkInv, Installing, Saving
<1>5. HeldInv'
  BY <1>1 DEF HeldInv, Held
<1> QED
  BY <1>3, <1>4, <1>5 DEF InstallInv

LEMMA DoneStep ==
  ASSUME InstallInv, Done, UNCHANGED <<lock, deps>>, pkg' \in Declared \cup {None},
         Held = lock.entries, last = "none"
  PROVE  InstallInv'
<1>1. CASE cmd = "build"
  <2>1. hurt' = FALSE /\ at' = "compile" /\ UNCHANGED <<cmd, want, target, last>>
    BY <1>1 DEF Done
  <2>2. CmdTypeOK'
    BY <2>1 DEF InstallInv, CmdTypeOK
  <2>3. WorkInv'
    BY <1>1, <2>1 DEF WorkInv, Installing, Saving
  <2>4. HeldInv'
    BY <2>1 DEF HeldInv, Held
  <2> QED
    BY <2>2, <2>3, <2>4 DEF InstallInv
<1>2. CASE cmd # "build"
  <2>1. hurt' = FALSE /\ Ends(TRUE)
    BY <1>2 DEF Done
  <2> QED
    BY <2>1, EndsStep
<1> QED
  BY <1>1, <1>2

\* What resolve answered becomes a lock that meets what it was asked.
LEMMA PlannedStep ==
  ASSUME InstallInv, ResolveInv, Planned
  PROVE  InstallInv' /\ (Meets(target))'
<1> DEFINE lk == [roots |-> want, entries |-> {At(n) : n \in Selected}]
<1>1. /\ at = "plan" /\ phase = "done" /\ target' = lk /\ at' = "check"
      /\ UNCHANGED <<pkg, lock, deps, want, last, hurt>>
  BY DEF Planned, files
<1>2. want = root /\ want # None /\ root \in Declared /\ last = "none"
  BY <1>1 DEF InstallInv, WorkInv, ResolveInv, TypeOK
<1>3. ASSUME NEW k \in Selected
      PROVE  At(k) \in Source
  BY DEF Selected, At, Source, ResolveInv, TypeOK, Sel
<1>4. lk \in LockFile
  <2>1. want \in SUBSET Dep
    BY <1>2, DeclaredAssumption
  <2>2. {At(n) : n \in Selected} \in SUBSET Source
    BY <1>3
  <2> QED
    BY <2>1, <2>2 DEF LockFile
<1>5. CmdTypeOK'
  BY <1>1, <1>4 DEF InstallInv, CmdTypeOK, Installing
<1>6. WorkInv'
  BY <1>1, <1>2 DEF WorkInv, Installing, Saving
<1>7. HeldInv'
  BY <1>1 DEF InstallInv, HeldInv, Held
<1>8. ASSUME NEW d \in want
      PROVE  \E e \in {At(n) : n \in Selected} : e.name = d.name /\ e.url = d.url /\ e.ver >= d.min
  <2>1. AsReq(d, None) \in Ever
    BY <1>2 DEF Ever, RootReqs
  <2>2. Met(AsReq(d, None))
    BY <2>1, <1>1 DEF ResolveInv, MetInv, AllMet
  <2>3. d \in Dep
    BY <1>2, DeclaredAssumption
  <2>4. d.name \in Selected /\ sel[d.name].url = d.url /\ sel[d.name].ver >= d.min
    BY <2>2, <2>3 DEF Met, AsReq, Selected, Dep
  <2>5. At(d.name).name = d.name /\ At(d.name).url = d.url /\ At(d.name).ver >= d.min
    BY <2>4 DEF At
  <2> QED
    BY <2>4, <2>5
<1>9. (Meets(target))'
  <2>1. \A d \in lk.roots : \E e \in lk.entries : e.name = d.name /\ e.url = d.url /\ e.ver >= d.min
    BY <1>8
  <2> QED
    BY <1>1, <2>1 DEF Meets
<1> QED
  BY <1>5, <1>6, <1>7, <1>9 DEF InstallInv

\* The steps that make deps/ anew.
LEMMA DepsStep ==
  ASSUME InstallInv, Checked \/ run_rm \/ mkdir_p \/ WriteFiles
  PROVE  InstallInv'
<1>1. CASE Checked
  <2>1. at = "check" /\ (at' = "make" \/ (at' = "remove" /\ deps # NoDir)) /\ UNCHANGED <<pkg, lock, deps, want, target, last, hurt>>
    <3>1. at = "check" /\ UNCHANGED <<pkg, lock, deps, want, target, last, hurt>>
      BY <1>1 DEF Checked, files
    <3>2. at' = IF deps = NoDir THEN "make" ELSE "remove"
      BY <1>1 DEF Checked
    <3> QED
      BY ONLY <3>1, <3>2
  <2>2. CmdTypeOK'
    BY <2>1 DEF InstallInv, CmdTypeOK, Installing
  <2>3. WorkInv'
    BY <2>1 DEF InstallInv, WorkInv, Installing, Saving
  <2>4. HeldInv'
    BY <2>1 DEF HeldInv
  <2> QED
    BY <2>2, <2>3, <2>4 DEF InstallInv
<1>2. CASE run_rm
  <2>1. /\ at = "remove" /\ deps # NoDir
        /\ UNCHANGED <<pkg, lock, want, target, last, hurt>>
    BY <1>2 DEF run_rm, InstallInv, WorkInv
  <2>2. \/ deps' \in SUBSET Source /\ deps' # NoDir /\ at' = "remove"
        \/ deps' = NoDir /\ at' = "make"
    BY <1>2, <2>1, FileAssumption DEF NoDir, run_rm, InstallInv, CmdTypeOK
  <2>3. CmdTypeOK'
    BY <2>1, <2>2 DEF InstallInv, CmdTypeOK, Installing
  <2>4. WorkInv'
    BY <2>1, <2>2 DEF InstallInv, WorkInv, Installing, Saving
  <2>5. HeldInv'
    BY <2>1, <2>2 DEF HeldInv
  <2> QED
    BY <2>3, <2>4, <2>5 DEF InstallInv
<1>3. CASE mkdir_p \/ WriteFiles
  <2>1. /\ at \in {"make", "write"} /\ at' = "write"
        /\ deps' \in SUBSET Source
        /\ UNCHANGED <<pkg, lock, want, target, last, hurt>>
    BY <1>3, FileAssumption DEF mkdir_p, WriteFiles, command, InstallInv, CmdTypeOK, WorkInv, LockFile
  <2>2. deps' # NoDir
    BY <2>1, FileAssumption DEF NoDir
  <2>3. CmdTypeOK'
    BY <2>1 DEF InstallInv, CmdTypeOK, Installing
  <2>4. WorkInv'
    BY <2>1, <2>2 DEF InstallInv, WorkInv, Installing, Saving
  <2>5. HeldInv'
    BY <2>1 DEF HeldInv
  <2> QED
    BY <2>3, <2>4, <2>5 DEF InstallInv
<1> QED
  BY <1>1, <1>2, <1>3

\* The steps that save.
LEMMA SaveStep ==
  ASSUME InstallInv, Installed \/ OpenLock \/ CloseLock \/ OpenManifest \/ CloseManifest
  PROVE  InstallInv'
<1>h. deps # NoDir /\ deps = lock.entries => Held = lock.entries
  BY DEF Held
<1>1. CASE Installed
  <2>1. at = "write" /\ deps = target.entries /\ deps # NoDir /\ last = "none"
        /\ UNCHANGED <<pkg, lock, deps>>
    BY <1>1 DEF Installed, InstallInv, WorkInv, files
  <2>2. CASE want = None
    <3>1. Done /\ target = lock
      BY <1>1, <2>1, <2>2 DEF Installed, InstallInv, WorkInv, Installing
    <3>2. pkg' \in Declared \cup {None}
      BY <2>1 DEF InstallInv, CmdTypeOK
    <3> QED
      BY <3>1, <3>2, <2>1, <1>h, DoneStep
  <2>3. CASE want # None
    <3>1. at' = "open lock" /\ UNCHANGED <<want, target, last, hurt>>
      BY <1>1, <2>3 DEF Installed
    <3>2. CmdTypeOK'
      BY <2>1, <3>1 DEF InstallInv, CmdTypeOK, Saving
    <3>3. WorkInv'
      BY <2>1, <2>3, <3>1 DEF InstallInv, WorkInv, Installing, Saving
    <3>4. HeldInv'
      BY <3>1 DEF HeldInv
    <3> QED
      BY <3>2, <3>3, <3>4 DEF InstallInv
  <2> QED
    BY <2>2, <2>3
<1>2. CASE OpenLock
  <2>1. at = "open lock" /\ at' = "write lock" /\ lock' \in Cut(target)
        /\ UNCHANGED <<pkg, deps, want, target, last, hurt>>
    BY <1>2 DEF OpenLock
  <2>2. lock' \in LockFile
    <3>1. NoLock \in LockFile
      BY DEF NoLock, LockFile
    <3>2. target \in LockFile
      BY DEF InstallInv, CmdTypeOK
    <3>3. \A R \in SUBSET target.roots : [roots |-> R, entries |-> {}] \in LockFile
      BY <3>2 DEF LockFile
    <3>4. \A E \in SUBSET target.entries : [target EXCEPT !.entries = E] \in LockFile
      BY <3>2 DEF LockFile
    <3> QED
      BY <2>1, <3>1, <3>3, <3>4 DEF Cut
  <2>3. CmdTypeOK'
    BY <2>1, <2>2 DEF InstallInv, CmdTypeOK, Saving
  <2>4. WorkInv'
    BY <2>1 DEF InstallInv, WorkInv, Installing, Saving
  <2>5. HeldInv'
    BY <2>1 DEF HeldInv
  <2> QED
    BY <2>3, <2>4, <2>5 DEF InstallInv
<1>3. CASE CloseLock
  <2>1. at = "write lock" /\ at' = "open pkg" /\ lock' = target
        /\ UNCHANGED <<pkg, deps, want, target, last, hurt>>
    BY <1>3 DEF CloseLock
  <2>2. CmdTypeOK'
    BY <2>1 DEF InstallInv, CmdTypeOK, Saving
  <2>3. WorkInv'
    BY <2>1 DEF InstallInv, WorkInv, Installing, Saving
  <2>4. HeldInv'
    BY <2>1 DEF HeldInv
  <2> QED
    BY <2>2, <2>3, <2>4 DEF InstallInv
<1>4. CASE OpenManifest
  <2>1. at = "open pkg" /\ at' = "write pkg" /\ pkg' = None
        /\ UNCHANGED <<lock, deps, want, target, last, hurt>>
    BY <1>4 DEF OpenManifest
  <2>2. CmdTypeOK'
    BY <2>1 DEF InstallInv, CmdTypeOK, Saving
  <2>3. WorkInv'
    BY <2>1 DEF InstallInv, WorkInv, Installing, Saving
  <2>4. HeldInv'
    BY <2>1 DEF HeldInv
  <2> QED
    BY <2>2, <2>3, <2>4 DEF InstallInv
<1>5. CASE CloseManifest
  <2>1. /\ at = "write pkg" /\ pkg' = want /\ Done /\ UNCHANGED <<lock, deps>>
        /\ deps # NoDir /\ deps = target.entries /\ lock = target /\ last = "none"
    BY <1>5 DEF CloseManifest, InstallInv, WorkInv, Saving
  <2>2. pkg' \in Declared \cup {None}
    BY <2>1 DEF InstallInv, CmdTypeOK
  <2> QED
    BY <2>1, <2>2, <1>h, DoneStep
<1> QED
  BY <1>1, <1>2, <1>3, <1>4, <1>5

LEMMA InstallStep ==
  ASSUME InstallInv, ResolveInv, CmdNext
  PROVE  InstallInv'
<1>1. CASE cmd_add \/ cmd_update
  <2>1. Idle /\ \E c, m : Plan(c, m)
    BY <1>1 DEF cmd_add, cmd_update, Ready
  <2> QED
    BY <2>1, PlanStep
<1>2. CASE cmd_sync
  <2>1. Idle /\ Synced("sync")
    BY <1>2 DEF cmd_sync, Ready
  <2> QED
    BY <2>1, SyncedStep
<1>3. CASE cmd_build
  <2>1. Idle
    BY <1>3 DEF cmd_build, Ready
  <2>2. CASE Synced("build")
    BY <2>1, <2>2, SyncedStep
  <2>3. CASE ~Synced("build")
    <3>1. cmd' = "build" /\ at' = "compile" /\ last' = "none" /\ UNCHANGED <<pkg, lock, deps, want, target, hurt>>
      BY <1>3, <2>3 DEF cmd_build, files
    <3>2. CmdTypeOK'
      BY <3>1 DEF InstallInv, CmdTypeOK
    <3>3. WorkInv'
      BY <3>1 DEF WorkInv, Installing, Saving
    <3>4. HeldInv'
      BY <3>1, <2>1 DEF InstallInv, HeldInv, Held, Idle
    <3> QED
      BY <3>2, <3>3, <3>4 DEF InstallInv
  <2> QED
    BY <2>2, <2>3
<1>4. CASE cmd_clean \/ Edit
  <2>1. /\ at = "idle" /\ last' = "none" /\ UNCHANGED <<lock, want, target, at>>
        /\ pkg' \in Declared \cup {None} /\ deps' \in (SUBSET Source) \cup {NoDir}
        /\ hurt' = TRUE \/ (UNCHANGED <<deps, hurt>>)
        /\ hurt' \in BOOLEAN
    BY <1>4 DEF cmd_clean, Edit, Ready, Idle, InstallInv, CmdTypeOK
  <2>2. CmdTypeOK'
    BY <2>1 DEF InstallInv, CmdTypeOK
  <2>3. WorkInv'
    BY <2>1 DEF WorkInv, Installing, Saving
  <2>4. HeldInv'
    BY <2>1 DEF InstallInv, HeldInv, Held
  <2> QED
    BY <2>2, <2>3, <2>4 DEF InstallInv
<1>5. CASE Resolve
  <2>1. at = "plan" /\ root' = root /\ UNCHANGED <<files, command>>
    BY <1>5, NextRoot DEF Resolve
  <2>2. CmdTypeOK'
    BY <2>1 DEF InstallInv, CmdTypeOK, files, command
  <2>3. WorkInv'
    BY <2>1 DEF InstallInv, WorkInv, files, command, Installing, Saving
  <2>4. HeldInv'
    BY <2>1 DEF InstallInv, HeldInv, Held, files, command
  <2> QED
    BY <2>2, <2>3, <2>4 DEF InstallInv
<1>6. CASE Planned
  BY <1>6, PlannedStep
<1>7. CASE Refused
  <2>1. Ends(FALSE) /\ at \in {"plan", "check"} /\ UNCHANGED <<pkg, lock, deps, hurt>>
    BY <1>7 DEF Refused, files
  <2>2. pkg' \in Declared \cup {None} /\ hurt' \in BOOLEAN /\ (~hurt' => Held = lock.entries)
    BY <2>1 DEF InstallInv, CmdTypeOK, HeldInv
  <2> QED
    BY <2>1, <2>2, EndsStep
<1>8. CASE Checked \/ run_rm \/ mkdir_p \/ WriteFiles
  BY <1>8, DepsStep
<1>9. CASE Installed \/ OpenLock \/ CloseLock \/ OpenManifest \/ CloseManifest
  BY <1>9, SaveStep
<1>10. CASE Compile
  <2>1. Ends(TRUE) /\ at = "compile" /\ UNCHANGED <<pkg, lock, deps, hurt>>
    BY <1>10 DEF Compile, files
  <2>2. pkg' \in Declared \cup {None} /\ hurt' \in BOOLEAN /\ (~hurt' => Held = lock.entries)
    BY <2>1 DEF InstallInv, CmdTypeOK, HeldInv
  <2> QED
    BY <2>1, <2>2, EndsStep
<1>11. CASE Interrupt
  <2>1. Ends(FALSE) /\ hurt' = TRUE /\ UNCHANGED <<pkg, lock, deps>>
    BY <1>11 DEF Interrupt, files
  <2>2. pkg' \in Declared \cup {None}
    BY <2>1 DEF InstallInv, CmdTypeOK
  <2> QED
    BY <2>1, <2>2, EndsStep
<1>12. CASE Rest
  BY <1>12 DEF Rest, all, resolver, files, command, vars, InstallInv, CmdTypeOK, WorkInv, HeldInv, Held
<1> QED
  BY <1>1, <1>2, <1>3, <1>4, <1>5, <1>6, <1>7, <1>8, <1>9, <1>10, <1>11, <1>12 DEF CmdNext

-----------------------------------------------------------------------------
\* Without pieces of files, a lock that can be read was made by a command or
\* is empty, and so its entries meet what it was made for.
LEMMA MeetsStep ==
  ASSUME ~LongFiles, InstallInv, MeetsInv, ResolveInv, CmdNext
  PROVE  MeetsInv'
<1>1. \A lk : lk = NoLock => Meets(lk)
  BY DEF Meets, NoLock
<1>2. CASE UNCHANGED lock /\ (target' = target \/ target' = lock \/ target' = NoLock)
  <2>1. Meets(lock') /\ Meets(target')
    BY <1>1, <1>2 DEF MeetsInv
  <2> QED
    BY <2>1 DEF MeetsInv, Meets
<1>3. CASE Planned
  <2>1. (Meets(target))'
    BY <1>3, PlannedStep
  <2>2. (Meets(lock))'
    BY <1>3 DEF Planned, files, MeetsInv, Meets
  <2> QED
    BY <2>1, <2>2 DEF MeetsInv
<1>4. CASE OpenLock \/ CloseLock
  <2>1. (lock' = NoLock \/ lock' = target) /\ target' = target
    BY <1>4 DEF OpenLock, CloseLock, Cut
  <2>2. Meets(lock') /\ Meets(target')
    BY <1>1, <2>1 DEF MeetsInv
  <2> QED
    BY <2>2 DEF MeetsInv, Meets
<1>5. ASSUME NEW c, NEW m, Plan(c, m)
      PROVE  UNCHANGED lock /\ target' = NoLock
  BY <1>5 DEF Plan, files
<1>6. ASSUME NEW c, Synced(c)
      PROVE  UNCHANGED lock /\ (target' = NoLock \/ target' = lock)
  BY <1>5, <1>6 DEF Synced, Install, files
<1>7. ASSUME NEW w, Ends(w)
      PROVE  target' = NoLock
  BY <1>7 DEF Ends
<1>8. Done => target' = NoLock \/ target' = target
  BY <1>7 DEF Done
<1>9. CASE cmd_add \/ cmd_update \/ cmd_sync \/ cmd_build
  <2>1. UNCHANGED lock /\ (target' = target \/ target' = lock \/ target' = NoLock)
    BY <1>9, <1>5, <1>6 DEF cmd_add, cmd_update, cmd_sync, cmd_build, files
  <2> QED
    BY <2>1, <1>2
<1>10. CASE Refused \/ Compile \/ Interrupt \/ Installed \/ CloseManifest
  <2>1. UNCHANGED lock /\ (target' = target \/ target' = NoLock)
    BY <1>10, <1>7, <1>8 DEF Refused, Compile, Interrupt, Installed, CloseManifest, files
  <2> QED
    BY <2>1, <1>2
<1>11. CASE \/ cmd_clean \/ Edit \/ Resolve \/ Checked \/ run_rm \/ mkdir_p \/ WriteFiles
            \/ OpenManifest \/ Rest
  <2>1. UNCHANGED <<lock, target>>
    BY <1>11 DEF cmd_clean, Edit, Resolve, Checked, run_rm, mkdir_p, WriteFiles, OpenManifest,
           Rest, all, files, command
  <2> QED
    BY <2>1, <1>2
<1> QED
  BY <1>3, <1>4, <1>9, <1>10, <1>11 DEF CmdNext

LEMMA AgreedStep ==
  ASSUME InstallInv, MeetsInv, Agreed, CmdNext
  PROVE  Agreed'
<1> DEFINE Good == /\ lock'.roots = pkg' /\ Held' = lock'.entries
                   /\ \A d \in pkg' : \E e \in lock'.entries :
                        e.name = d.name /\ e.url = d.url /\ e.ver >= d.min
<1>0. Agreed' = (last' \in {"add", "update", "sync"} => Good)
  BY DEF Agreed
<1>1. CASE last' = "none"
  BY <1>1, <1>0
<1>2. CASE UNCHANGED <<last, pkg, lock, deps>>
  BY <1>2 DEF Agreed, Held
<1>3. ASSUME Done, UNCHANGED <<lock, deps>>, lock.roots = pkg', deps # NoDir, deps = lock.entries,
             last = "none"
      PROVE  Agreed'
  <2>1. Good
    BY <1>3 DEF Held, MeetsInv, Meets
  <2> QED
    BY <2>1, <1>0
<1>4. CASE cmd_add \/ cmd_update \/ cmd_sync \/ cmd_build \/ cmd_clean \/ Edit
  <2>1. last' = "none"
    BY <1>4 DEF cmd_add, cmd_update, cmd_sync, cmd_build, cmd_clean, Edit, Synced, Plan, Install
  <2> QED
    BY <2>1, <1>1
<1>5. CASE \/ Resolve \/ Planned \/ Checked \/ run_rm \/ mkdir_p \/ WriteFiles
           \/ OpenLock \/ CloseLock \/ OpenManifest
  <2>1. at # "idle" /\ last' = last
    BY <1>5 DEF Resolve, Planned, Checked, run_rm, mkdir_p, WriteFiles, OpenLock, CloseLock,
           OpenManifest, command
  <2>2. last = "none"
    BY <2>1 DEF InstallInv, WorkInv
  <2> QED
    BY <2>1, <2>2, <1>1
<1>6. CASE Refused \/ Interrupt
  <2>1. last' = "none"
    BY <1>6 DEF Refused, Interrupt, Ends
  <2> QED
    BY <2>1, <1>1
<1>7. CASE Compile
  <2>1. cmd = "build" /\ last' = cmd
    BY <1>7 DEF Compile, Ends, InstallInv, WorkInv
  <2> QED
    BY <2>1, <1>0
<1>8. CASE Installed
  <2>1. at = "write" /\ deps = target.entries /\ deps # NoDir /\ last = "none"
        /\ UNCHANGED <<pkg, lock, deps>>
    BY <1>8 DEF Installed, InstallInv, WorkInv, files
  <2>2. CASE want = None
    <3>1. Done /\ target = lock /\ lock.roots = pkg
      BY <1>8, <2>1, <2>2 DEF Installed, InstallInv, WorkInv, Installing
    <3> QED
      BY <3>1, <2>1, <1>3
  <2>3. CASE want # None
    <3>1. last' = last
      BY <1>8, <2>3 DEF Installed
    <3> QED
      BY <3>1, <2>1, <1>1
  <2> QED
    BY <2>2, <2>3
<1>9. CASE CloseManifest
  <2>1. /\ Done /\ UNCHANGED <<lock, deps>> /\ pkg' = want
        /\ deps # NoDir /\ deps = target.entries /\ lock = target /\ last = "none"
        /\ target.roots = want
    BY <1>9 DEF CloseManifest, InstallInv, WorkInv, Installing, Saving
  <2>2. lock.roots = pkg' /\ deps = lock.entries
    BY <2>1
  <2> QED
    BY <2>1, <2>2, <1>3
<1>10. CASE Rest
  BY <1>10, <1>2 DEF Rest, all, files, command
<1> QED
  BY <1>4, <1>5, <1>6, <1>7, <1>8, <1>9, <1>10 DEF CmdNext

-----------------------------------------------------------------------------
CmdInv == ResolveInv /\ InstallInv

LEMMA InitCmd == CmdInit => CmdInv /\ MeetsInv /\ Agreed
<1> SUFFICES ASSUME CmdInit PROVE CmdInv /\ MeetsInv /\ Agreed
  OBVIOUS
<1>1. ResolveInv
  BY InitResolve DEF CmdInit
<1>2. {} \in Declared
  BY DEF CmdInit, Init
<1>3. NoLock \in LockFile
  BY DEF NoLock, LockFile
<1>4. CmdTypeOK
  BY <1>2, <1>3 DEF CmdInit, CmdTypeOK
<1>5. WorkInv
  BY DEF CmdInit, WorkInv, Installing, Saving
<1>6. HeldInv
  BY DEF CmdInit, HeldInv, Held, NoLock
<1>7. MeetsInv /\ Agreed
  BY DEF CmdInit, MeetsInv, Meets, NoLock, Agreed
<1> QED
  BY <1>1, <1>4, <1>5, <1>6, <1>7 DEF CmdInv, InstallInv

LEMMA StepCmd == CmdInv /\ [CmdNext]_all => CmdInv'
<1> SUFFICES ASSUME CmdInv, [CmdNext]_all PROVE CmdInv'
  OBVIOUS
<1>1. ResolveInv'
  BY CmdResolve DEF CmdInv, InstallInv, CmdTypeOK
<1>2. CASE CmdNext
  BY <1>1, <1>2, InstallStep DEF CmdInv
<1>3. CASE UNCHANGED all
  <2>1. InstallInv'
    BY <1>3 DEF CmdInv, InstallInv, CmdTypeOK, WorkInv, HeldInv, Held, all, resolver, vars, files, command
  <2> QED
    BY <1>1, <2>1 DEF CmdInv
<1> QED
  BY <1>2, <1>3

LEMMA StepAgreed ==
  ASSUME ~LongFiles
  PROVE  CmdInv /\ MeetsInv /\ Agreed /\ [CmdNext]_all => (MeetsInv /\ Agreed)'
<1> SUFFICES ASSUME CmdInv, MeetsInv, Agreed, [CmdNext]_all
             PROVE  (MeetsInv /\ Agreed)'
  OBVIOUS
<1>1. CASE CmdNext
  BY <1>1, MeetsStep, AgreedStep DEF CmdInv
<1>2. CASE UNCHANGED all
  BY <1>2 DEF MeetsInv, Meets, Agreed, Held, all, files, command
<1> QED
  BY <1>1, <1>2

\* The answer of resolve meets every lower bound it has read, selects nothing
\* unasked for and gives up only on as many manifests as there are rounds, in
\* every command, whatever was interrupted before.
THEOREM CommandsResolve == CmdSpec => [](AllMet /\ WhyTrue /\ EnoughRounds)
<1>1. CmdInv => AllMet /\ WhyTrue /\ EnoughRounds
  BY DEF CmdInv, ResolveInv, MetInv
<1> QED
  BY InitCmd, StepCmd, <1>1, PTL DEF CmdSpec

\* However commands are refused, interrupted and repeated, package.lock does
\* not name what is not in deps/, unless one was interrupted or deps/ was
\* cleaned and nothing was installed since.
THEOREM DepsFollowLock == CmdSpec => []NothingMissing
<1>1. CmdInv => NothingMissing
  BY DEF CmdInv, InstallInv, HeldInv, NothingMissing, Idle
<1> QED
  BY InitCmd, StepCmd, <1>1, PTL DEF CmdSpec

\* Where an interrupted write leaves no piece of a lock, a command that ends
\* well leaves the declarations, the lock and deps/ in agreement, and what is
\* there meets every declaration.
THEOREM FilesAgree ==
  ASSUME ~LongFiles
  PROVE  CmdSpec => []Agreed
<1>1. CmdInv /\ MeetsInv /\ Agreed /\ [CmdNext]_all => (CmdInv /\ MeetsInv /\ Agreed)'
  BY StepCmd, StepAgreed
<1> QED
  BY InitCmd, <1>1, PTL DEF CmdSpec
=============================================================================
