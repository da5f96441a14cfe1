----------------------------- MODULE PmCommands -----------------------------
(***************************************************************************)
(* The commands of the package manager (src/tools/pm/main.ys) around       *)
(* resolve: they read package.pkg and package.lock, resolve when the lock  *)
(* was made for other declarations, make deps/ anew, and save the lock and *)
(* then the manifest.  A command may be refused at every check and may be  *)
(* interrupted anywhere; the files stay as they are and the next command   *)
(* starts from them.                                                       *)
(*                                                                         *)
(* A file is written by opening it, which empties it, and closing it       *)
(* (pl_write_file).  An empty package.pkg is refused by every command for  *)
(* want of a name; an empty package.lock is a lock of nothing.  What a     *)
(* version contains never changes: tags do not move.                       *)
(***************************************************************************)
EXTENDS PmResolve

CONSTANTS
  MaxRead,   \* bound: only the first sync reads more manifests than this
  LongFiles  \* whether a lock reaches the disk in pieces

ASSUME FileAssumption ==
  LongFiles \in BOOLEAN /\ None \notin Declared /\ None \notin Source

VARIABLES
  known,    \* what packages are known to declare: the same in every command
  pkg,      \* package.pkg: its dep lines, or None if it is empty
  lock,     \* package.lock: its root lines and its pkg lines
  deps,     \* deps/: the packages in it, or NoDir
  cmd,      \* the command that runs
  want,     \* the declarations it will save, or None if it only installs
  target,   \* the lock it installs
  at,       \* where it is
  last,     \* the command that ended well, if nothing happened since
  hurt      \* interrupted or cleaned, and not installed anew since
resolver == <<vars, known>>
files    == <<pkg, lock, deps>>
command  == <<cmd, want, target, at, last, hurt>>
all      == <<resolver, files, command>>

NoDir  == {None}
NoLock == [roots |-> {}, entries |-> {}]

Idle     == at = "idle"
Ready    == Idle /\ pkg # None
MayRead  == Cardinality(known) <= MaxRead
Names(D) == {d.name : d \in D}

\* resolve starts over: nothing of an earlier command is left in it.
Reset(m) ==
  /\ root' = m /\ seen' = {} /\ sel' = [n \in Name |-> None] /\ reqs' = {}
  /\ rounds' = 0 /\ changed' = TRUE /\ phase' = "round"
  /\ UNCHANGED known

\* plan(m): resolve, and then install and save.
Plan(c, m) ==
  /\ m \in Declared /\ Reset(m)
  /\ cmd' = c /\ want' = m /\ target' = NoLock /\ last' = "none" /\ at' = "plan"
  /\ UNCHANGED <<files, hurt>>

\* install(lock) alone.
Install(c) ==
  /\ cmd' = c /\ want' = None /\ target' = lock /\ last' = "none" /\ at' = "check"
  /\ UNCHANGED <<resolver, files, hurt>>

Ends(well) ==
  /\ Reset({})
  /\ cmd' = "none" /\ want' = None /\ target' = NoLock /\ at' = "idle"
  /\ last' = IF well THEN cmd ELSE "none"

cmd_add ==
  \E d \in Dep :
    /\ Ready /\ MayRead /\ known # {}
    /\ d.name \notin Names(pkg)
    /\ Plan("add", pkg \cup {d})

\* The newest tag may be any version; update NAME takes one dependency, an
\* indirect one becomes a line of its own, from the place the lock names.
cmd_update ==
  /\ Ready /\ MayRead /\ known # {}
  /\ \/ \E newest \in [Names(pkg) -> Ver] :
          Plan("update", {[d EXCEPT !.min = newest[d.name]] : d \in pkg})
     \/ \E d \in pkg, v \in Ver : Plan("update", (pkg \ {d}) \cup {[d EXCEPT !.min = v]})
     \/ \E e \in lock.entries, v \in Ver :
          /\ e.name \notin Names(pkg)
          /\ Plan("update", pkg \cup {[name |-> e.name, url |-> e.url, min |-> v]})

\* Mutant of lock_satisfies: a lock with a line for every declaration will do.
lock_covers == pkg \subseteq lock.roots

\* The lock was made from the declarations of today.
lock_satisfies == lock.roots = pkg

Synced(c) == IF lock_satisfies THEN Install(c) ELSE Plan(c, pkg)

cmd_sync == Ready /\ MayRead /\ Synced("sync")

\* build takes deps/ as it is, when there is one.
cmd_build ==
  /\ Ready /\ MayRead
  /\ IF lock.entries # {} /\ deps = NoDir THEN Synced("build")
     ELSE /\ cmd' = "build" /\ at' = "compile" /\ last' = "none"
          /\ UNCHANGED <<resolver, files, want, target, hurt>>

cmd_clean ==
  /\ Ready /\ MayRead /\ deps # NoDir
  /\ deps' = NoDir
  /\ last' = "none" /\ hurt' = TRUE
  /\ UNCHANGED <<resolver, pkg, lock, cmd, want, target, at>>

\* The user edits package.pkg, or takes it back from the repository.
Edit ==
  /\ Idle /\ MayRead
  /\ pkg' \in Declared \ {pkg}
  /\ last' = "none"
  /\ UNCHANGED <<resolver, lock, deps, cmd, want, target, at, hurt>>

-----------------------------------------------------------------------------
\* resolve, among manifests that say today what they said yesterday.
Resolve ==
  /\ at = "plan" /\ phase = "round"
  /\ Next
  /\ \A m \in seen', k \in known :
       m.at.url = k.at.url /\ m.at.ver = k.at.ver => m = k
  /\ known' = known \cup seen'
  /\ \/ cmd = "sync" /\ lock = NoLock /\ ~hurt /\ known' = seen'
     \/ Cardinality(known') <= MaxRead
  /\ UNCHANGED <<files, command>>

\* The answer becomes a lock.
Planned ==
  /\ at = "plan" /\ phase = "done"
  /\ target' = [roots |-> want, entries |-> {At(n) : n \in Selected}]
  /\ at' = "check"
  /\ UNCHANGED <<resolver, files, cmd, want, last, hurt>>

\* resolve gave up or refused; a source has no module that can be imported;
\* the commit is not what the lock says, or one of its modules has the name
\* of a file of the user.
Refused ==
  /\ \/ at = "plan" /\ phase \in {"refused", "gave_up"}
     \/ at = "check" /\ target.entries # {}
  /\ Ends(FALSE)
  /\ UNCHANGED <<files, hurt>>

\* Mutant of Checked: deps/ is removed before the commits are checked.
CheckedLate ==
  /\ at = "check"
  /\ deps' = NoDir
  /\ at' = IF deps = NoDir THEN "make" ELSE "check"
  /\ UNCHANGED <<resolver, pkg, lock, cmd, want, target, last, hurt>>

\* All is checked.
Checked ==
  /\ at = "check"
  /\ at' = IF deps = NoDir THEN "make" ELSE "remove"
  /\ UNCHANGED <<resolver, files, cmd, want, target, last, hurt>>

\* deps/ is removed, one entry after the other, and made anew.
run_rm ==
  /\ at = "remove"
  /\ \/ \E e \in deps : deps' = deps \ {e} /\ UNCHANGED at
     \/ deps = {} /\ deps' = NoDir /\ at' = "make"
  /\ UNCHANGED <<resolver, pkg, lock, cmd, want, target, last, hurt>>

mkdir_p ==
  /\ at = "make"
  /\ deps' = {} /\ at' = "write"
  /\ UNCHANGED <<resolver, pkg, lock, cmd, want, target, last, hurt>>

WriteFiles ==
  /\ at = "write"
  /\ \E e \in target.entries \ deps : deps' = deps \cup {e}
  /\ UNCHANGED <<resolver, pkg, lock, command>>

\* A command that comes to its end has made deps/ anew; build goes on.
Done ==
  /\ hurt' = FALSE
  /\ IF cmd = "build"
     THEN at' = "compile" /\ UNCHANGED <<resolver, cmd, want, target, last>>
     ELSE Ends(TRUE)

\* apply_ goes on to save the lock, install alone is over.
Installed ==
  /\ at = "write" /\ deps = target.entries
  /\ IF want = None THEN Done
     ELSE at' = "open lock" /\ UNCHANGED <<resolver, cmd, want, target, last, hurt>>
  /\ UNCHANGED files

\* What is in the file between its opening and its closing.
Cut(lk) == {NoLock} \cup
  IF LongFiles
  THEN {[roots |-> R, entries |-> {}] : R \in SUBSET lk.roots}
         \cup {[lk EXCEPT !.entries = E] : E \in SUBSET lk.entries}
  ELSE {}

OpenLock ==
  /\ at = "open lock"
  /\ lock' \in Cut(target)
  /\ at' = "write lock"
  /\ UNCHANGED <<resolver, pkg, deps, cmd, want, target, last, hurt>>

CloseLock ==
  /\ at = "write lock"
  /\ lock' = target
  /\ at' = "open pkg"
  /\ UNCHANGED <<resolver, pkg, deps, cmd, want, target, last, hurt>>

OpenManifest ==
  /\ at = "open pkg"
  /\ pkg' = None
  /\ at' = "write pkg"
  /\ UNCHANGED <<resolver, lock, deps, cmd, want, target, last, hurt>>

CloseManifest ==
  /\ at = "write pkg"
  /\ pkg' = want
  /\ Done
  /\ UNCHANGED <<lock, deps>>

Compile ==
  /\ at = "compile"
  /\ Ends(TRUE)
  /\ UNCHANGED <<files, hurt>>

\* Killed, or a file that cannot be read or written: nothing is undone.
Interrupt ==
  /\ ~Idle
  /\ Ends(FALSE)
  /\ hurt' = TRUE
  /\ UNCHANGED files

\* Nobody calls.
Rest == Idle /\ UNCHANGED all

CmdInit ==
  /\ Init /\ root = {}
  /\ known = {}
  /\ pkg \in Declared /\ lock = NoLock /\ deps = NoDir
  /\ cmd = "none" /\ want = None /\ target = NoLock
  /\ at = "idle" /\ last = "none" /\ hurt = FALSE

CmdNext ==
  \/ cmd_add \/ cmd_update \/ cmd_sync \/ cmd_build \/ cmd_clean \/ Edit
  \/ Resolve \/ Planned \/ Refused
  \/ Checked \/ run_rm \/ mkdir_p \/ WriteFiles \/ Installed
  \/ OpenLock \/ CloseLock \/ OpenManifest \/ CloseManifest \/ Compile
  \/ Interrupt \/ Rest

CmdSpec == CmdInit /\ [][CmdNext]_all

-----------------------------------------------------------------------------
Held == IF deps = NoDir THEN {} ELSE deps

\* A command that ends well leaves package.pkg, package.lock and deps/ in
\* agreement, whatever was interrupted before it: the lock was made for the
\* declarations, deps/ holds what it lists, and that meets every lower bound.
Agreed ==
  last \in {"add", "update", "sync"} =>
      /\ lock.roots = pkg /\ Held = lock.entries
      /\ \A d \in pkg :
           \E e \in lock.entries : e.name = d.name /\ e.url = d.url /\ e.ver >= d.min

\* Neither a command that is refused nor one that is under way when the
\* compiler is called lets package.lock point at what is not in deps/
\* (main.ys, the comments of install and apply_), unless one was
\* interrupted or deps/ was cleaned since.
NothingMissing == (Idle \/ at = "compile") /\ ~hurt => Held = lock.entries

=============================================================================
