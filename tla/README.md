# TLA+ models of yashirolang

yashirolang is a Python-like, statically typed language without a garbage
collector.  `ysc` (src/, C) checks types and ownership, removes the run-time
checks it can prove superfluous, emits LLVM IR, has the C compiler make one
object file per module, and links them with a small runtime (runtime/, C).  A
package manager (tools/pm), a standard library (lib) and a copy of the compiler
in its own language (selfhost) are written in the language.  The promises of
the language are in docs/ja/spec/safety-spec.md: no use after move (S1), no use
after free (S2), no double free (S3), no leak (S4), bounds and overflow checks
(S5), no None where a type excludes it (S6), errors that are handled or
declared (S8); and those of threads in docs/ja/spec/language-spec.md and
docs/ja/design/concurrency.md.

The models follow those promises: they cover the stages of the compiler and the
parts of the runtime they rest on, and the protocols where an order of steps
nobody tested can break them.

Paths below are relative to the repository (`src/` in PROJECT.json, so that the
compiler is in src/src/).

## 1. Inventory

| component | state | operations | interacts with | what is hard | what makes it correct | modelled |
|---|---|---|---|---|---|---|
| Threads and `scope:` (runtime/hosted.c 473-860; rules in sema.c, ownck.c; drops in codegen.c) | `PlThread` (result, `joined`, `scoped`), the frames `PlScope`, the thread-local `g_pl_scope` | spawn, join, scope begin/end, return of a thread | codegen emits the calls around drops of locals; `check_spawn` decides what may be passed | every interleaving of threads, handles that travel, frames popped before their threads are joined, exceptions that leave a scope | no `PlThread` used after free; borrows outlived by their lenders; all threads of a scope joined at its end; all waits end | yes |
| Ownership checker (src/ownck.c) | flow (`valid/maybe/moved` per place), loans, borrow roots, break/continue flows | one transfer function per statement, merges, loop fixpoint | feeds codegen; mirrors what the emitted code does | paths that meet, loops, aliases of aliases, exceptions | an accepted function has no bad execution; straight code is not rejected without need; the fixpoint is reached | partly |
| rc[T] / weak[T] (runtime/core.c 1860-1990, codegen.c) | counts in `PlRc`, fields, weak fields | new, retain, release, weak new/release, upgrade, the emitted drops | user `drop` methods run in the middle of a release | reentrancy of releases, order of the two counts, values being dropped | counts equal references, no dangling reference, one free, only cycles leak | partly |
| Module loader (src/module.c) | table of modules, their state, the order, the path of importing modules | search, load, dependency, alias and duplicate checks | gives sema and codegen the order | cycles, duplicates, aliases, order of the diagnostics | exactly the well-formed graphs are accepted, imports first | yes |
| Compilation driver (main.c) | the .ll, .o and executable files, the job table, processes | load, generate, spawn, wait, inline fallback, link, clean | module loader, the C compiler | partial failure, compilers that are killed, interrupted builds whose files stay | success only if the program is made of today's sources; a build ends | partly |
| Bounds prover (src/prove.c), loop versions (codegen.c 3814-4389) | intervals of integer locals, two relations to list lengths | one transfer per statement, loops widened to a fixpoint; a guard in front of loops | removes overflow, range and bounds checks | boundaries of each width, stale facts, loops | a removed check could not have failed | partly |
| sema.c: control flow and narrowing | scopes, narrowed variables, handled errors, reachability | one walk over each body | decides what codegen may assume | values that change in loops, errors that leave several tries | no unreachable block is reached, no None where excluded | partly |
| codegen.c: lowering | blocks, slots, scopes | statements to blocks, drops on every way out, dispatch of errors | what ownck and sema accepted | the ways out of several scopes at once | every owned value freed exactly once | partly |
| Lexer, parser, rewritings of sema (lexer.c, parser.c, sema.c) | indent stack, tokens, trees | tokenize, parse, rewrite | gives the rest a smaller language | layout, precedence, hidden variables, evaluation order | the tree is what was written; the rewritten program does what was written | partly |
| `mutex[T]`, exported functions and their panic guard (hosted.c 650-670, 1530-1550; gen_export; check_export, scan_global_write) | lock, guard, `g_pl_scope`, last error per thread | `with` a lock, call, call back, panic, unwind | scope frames, sockets | a panic under the guard skips unlocks and joins; what the checks let threads share | no data race, locks released, errors told to the right caller | yes |
| Sockets (hosted.c, lib/net.ys) | descriptors, process-wide error slots, buffers | listen, connect, accept, send, recv, close, last_error | threads share the slots | partial sends, timeouts racing answers | an error is this call's error; a stream is not torn; no descriptor leaks | partly |
| Package manager (tools/pm) | package.pkg, package.lock, deps/; the selection while it resolves | resolve in rounds; add, update, sync, build, clean | git and the shell | rounds, requirements of versions no longer selected, round limit; interruptions between the files it writes | the selection meets what was asked and nothing else; the three files agree | yes |
| lists and strings of the runtime, standard library, TLS and HTTP | - | - | - | sequential or third-party | - | no |
| selfhost, diagnostics, Python bindings, kernel, benchmarks | - | - | - | a port of the C compiler; text output | - | no |

PROJECT.json has the same list as `components` with a note on what each model
leaves out, and the points where each can go wrong as `hazards`, with source
lines and the properties that would catch it.

## 2. Modules

| module | models | built on |
|---|---|---|
| ForkJoin | abstract: tasks are started inside scopes; a scope closes, and a task ends, only after the tasks of its scopes | - |
| ThreadScope | threads, handles, frames and borrows | INSTANCE ForkJoin (refinement) |
| OwnFlow | flow states, joins, loans: the data of ownck | - |
| OwnLoop | check_while for an arbitrary body | OwnFlow |
| OwnStep | one simple statement: what ownck makes of it, what the compiled code does | OwnFlow |
| OwnPath | one path through an accepted body | OwnStep |
| OwnBlock | the statements around those: branches, loops, jumps, tries, as operators of their bodies, for ownck and for the executions | OwnStep |
| OwnBody | all bodies, of any length and depth, by what they mean | OwnBlock |
| OwnCheck | ownck on the text of function bodies, and their executions | OwnBlock |
| RcBox | rc/weak counts, emitted drops, user drop methods | - |
| ModuleLoad | the module loader | - |
| Driver | main and run_jobs, files and processes | ModuleLoad |
| PmResolve | the package manager's choice of versions | - |
| PmCommands | the commands around it, and the files they leave | PmResolve |
| Interval | the intervals of the prover | - |
| Lang | bodies over integers and lists, and what compiled code does with them | Interval |
| Prove | the walk of the prover over them | Lang |
| LoopVersions | the guard and the unchecked version of counting loops | Prove |
| Flow | what sema makes of the control flow of a body | - |
| Lower | how codegen lowers it to blocks and drops, and their execution | Flow |
| Sockets | hosted.c's sockets and lib/net.ys | - |
| Host | threads, exported calls, panics, mutexes | Sockets |
| Lexer, Parser, Statements | the front end, from text to tree | each on the one before |
| Rewrite | what sema rewrites in the tree | Statements |
| Meaning | what a tree does when it runs, written or rewritten | Rewrite |
| Printed | how a tree is written (reference) | Parser |
| Frontend | the pipeline of the stages | Meaning, Printed |
| MC* | instances for TLC (OwnLoop needs none) | the module of their name; MCProve: LoopVersions |
| *_proofs | theorems, section 5 | the module of their name; ScopeBlocks: ThreadScope_proofs; Driver_proofs speaks of ModuleLoad too, PmCommands_proofs of PmResolve, Host_proofs of Sockets, ScopeBlocks_proofs of ForkJoin, Own_proofs of OwnFlow, OwnLoop, OwnStep, OwnPath, OwnBlock and OwnBody |

Two kinds of models:

- **protocols** (ThreadScope, Host and Sockets, RcBox, ModuleLoad, Driver,
  PmResolve, PmCommands): one action per runtime call, handler or step, so that
  TLC interleaves them;
- **passes** (OwnCheck, Prove and LoopVersions, Flow and Lower, the front end): a
  pass is an operator translated function by function, and a second operator
  says what the compiled or written program does.  The state is the program
  text: TLC grows it by one statement or construct at a time, so that the
  reachable states are *all* programs of a family (a menu of statements, the
  constructs, a size), and the properties compare the two sides on each.  This
  is bounded-exhaustive checking of an algorithm against a reference semantics.

### ThreadScope

One action per runtime call or emitted sequence, each indexed by the thread
that performs it:

| action | code |
|---|---|
| Spawn | pl_thread_spawn, pl_scope_register (hosted.c:598, 820), what check_spawn lets pass (ownck.c:1299-1383) |
| Return | pl_thread_trampoline (hosted.c:590), the drops at the end of a body |
| Consume | a move of a local (ownck.c:2030) |
| BeginScope, EndScope, NextItem, LeaveScope | pl_scope_begin, pl_scope_end and the drops after it (hosted.c:837-859, codegen.c:5261-5285) |
| StartJoin, FinishJoin | pl_thread_join up to pthread_join, and after it (hosted.c:622-640) |
| Escape | an exception that leaves a scope (sema.c:3065-3104) |

pl_scope_end is three actions, because other threads run between them: it pops
the frame (EndScope), takes its items one by one, each unmarked before it is
waited for (NextItem, then FinishJoin as for any join), and the block's locals
are dropped when no item is left (LeaveScope).

The constant `Rules` lists three obligations that the documents state of every
program: handles are joined once, and inside their scope; exceptions are caught
in the scope they are raised in.  The compiler enforces them only in part, so a
rule not in `Rules` is one the program breaks whenever it likes.  ScopeSafety
assumes all three, ScopeHandles only the two about handles; section 6 says what
happens without each.

What the compiler does not refuse a program may do in every run: lend a local
while no scope is open (check_spawn asks for one only of what is borrowed
itself), and move, overwrite or drop early a local that a thread has borrowed
(Consume makes it "moved").

### OwnFlow, OwnLoop, OwnStep, OwnPath, OwnBlock, OwnBody, OwnCheck

OwnFlow has the three states of a local, `st_join`, `flow_join` with its dead
flows, `flow_clear`, `flow_move` and `invalidate_loans`.  OwnLoop is
`check_while` with the body abstracted to "sends back any flow", which is what
the first proofs are about.  OwnStep has the transfer functions of the simple
statements (move_expr, check_use, bind_alias, assign_to, ...: `Checked`), what such
a statement does to the memory (`After`) and what can go wrong in it (`Fault`).
OwnPath follows one path: any statements in any order, each accepted, and points
where other paths meet it, at which the checker goes on with a flow that covers
this one's.

OwnBlock has stmt() of everything that contains statements or jumps: ND_IF,
while_once and check_while with its rounds, ND_TRY, break, continue, return, each
as an operator of what the checker makes of the body (`If(e, then, else)`, ...),
and next to it where the executions of the emitted blocks go (`RunIf`, ...): which
memory states reach the end, the breaks, the continues, the raised errors.  An
except clause catches some classes of errors only, so an error it could catch may
also leave the statement.

OwnBlock also keeps `seen`, which the checker does not have: the loan tables that
went with breaks and continues, the flow and the loans at the calls that may
raise, and `lost`.  `lost` is set where the checker goes on with something that
does not hold on every path: the loan table, which is not merged but is that of
the path walked last, gives an alias that counts as valid another owner than one
of the paths does; or an except clause is walked from before the try although the
body had given something away.  Nothing the checker concludes depends on `seen`.

OwnCheck and OwnBody put these together in two ways.  In OwnCheck a program is
text, a sequence of nodes that TLC writes; `Analysis` and `Execution` walk it,
recursively.  In OwnBody a body is the pair of functions it denotes, and the state
is the set of bodies built so far, from single statements outwards; so what holds
of every built body holds of every program, and there is nothing to recurse over.

### RcBox

A release that ends a value runs user code, so the thread's remaining work is a
stack of tasks (`todo`).  `pl_rc_release`, `pl_rc_weak_release`, `pl_rc_upgrade`
and so on are operators of the same name; Drop, DropWeak, Finish and StoreNew
are what remains after a drop method ends: the drop of the fields, the end of
pl_rc_release (the weak reference it holds for itself), and the store of an
assignment whose old value had to be dropped first.  The order in which the
fields are dropped is left open.

### ModuleLoad and Driver

The recursion of `load` is a path of modules, each with the index of the import
it is at.  Enter is the call, Leave the return, Bad the six checks an import
must pass, in the order of the code: which of two mistakes is reported depends
on it.  The import lists are chosen in Init, so that one run covers every
program.  Driver runs this machine as its first stage and goes on to the exit
of the process: Generate writes the .ll files, Spawn, RunHere and Wait are the
loop of run_jobs (start what may be started, compile in the driver itself when
fork fails, else wait), JobEnds is a compiler that succeeds, fails or is killed
and leaves a broken file, Link and Clean end the build.  A file holds the version
of the sources it was made from; Interrupt and Again end a build anywhere and
start the next one on changed sources and on the files that are left.

### PmResolve and PmCommands

`resolve` repeats three steps until nothing changes: collect the requirements of
the package itself and of what is selected (`Asked`), go through them (Add,
Clash, Raise, Keep), and read the manifests of what was selected (Fetch,
Refuse).  What a manifest declares is chosen when it is read for the first time
and fixed from then on.  A version that another one replaces within the same
round is never fetched, and its requirements never count: `Ever`, what the
properties quantify over, is the requirements of manifests that were read.

PmCommands runs the commands of main.ys one after the other, each with its own
resolution (Plan restarts the resolver, Resolve is a step of it, Planned takes
its answer): checks, the removal and making of deps/ entry by entry, the lock,
the manifest.  A file is written by opening it, which empties it, and closing
it.  Interrupt ends a command anywhere and undoes nothing; Edit is the user, who
changes package.pkg between commands.

### Interval, Lang, Prove, LoopVersions

Interval has iv_add to iv_meet, the saturation at the ends of the machine word
and prove_cmp.  Lang is the language of the bodies (integers, the lengths of
lists, calls that change lengths) with every check that codegen emits, each
removable by its place in the program; an operation that fails without its check
is "bad".  Prove is prove_func: the environment (intervals, "below the length of
this list", "equal lengths"), what kills a fact, both branches of a condition,
the fixpoint of loops with its widening, and the marks.  LoopVersions is
vz_analyze with its guard, and what the unchecked version does when the guard
lets it run.

### Flow and Lower

Flow is the type checker's view of a body: scopes, narrowing (what is known not
to be None, taken back by assignments), handled errors, return on every path,
the fields of a constructor.  Lower is gen_stmt on the same bodies: it emits
labels, branches and drops as codegen does (emit_drops_until for every jump out
of a scope, the block that passes an error on, the dispatch of a try), and
executes the result on an abstract machine in which a moved slot holds null.
Events of that machine ("freed twice", "leak", "None used", "unreachable
reached", "error not handled here") are what the properties exclude.

### Host and Sockets

Do(t) is the next operation of a thread; a panic unwinds to the innermost
pl_ffi_call of its own thread, as longjmp does, and takes with it what the code
takes (the scope frames, the copies of the arguments, the lock that pl_mutex_with
releases in its landing block or does not).  `Accepted(P)` is the walk of ownck
over the program (scan_global_write, check_export, check_spawn), including the
calls it does not follow; Holes names which of those gaps a run allows.
`WellFormed(P)` is what the parser and the type checker have made sure of before.
A thread is a stack of frames (functions, entries, locks) and a list of scopes:
each is recorded with the frame whose block it is, which the code knows from its
own program counter and the model from `by`.  Only entries catch: an error passes
the functions between them as an early return (`Raise`), and like the code it
does not touch the scopes, which is why no error leaves a `scope:` block here
(E-SCOPE-1; ThreadScope has the errors that do).  A write of a global that is an
assignment is what the walk looks for; a method that changes a global's value
("mutate", `g.append(1)`) is not found by it (ownck.c:1198).

The socket actions are system calls with the outcomes they may have: refused, part
of a message, timeout, end, no memory.  A call of net.ys that fails reads the
reason back in two more steps (ReadMessage, ReadFlag: last_error), between which
other threads may fail or succeed, and raises; `writer` is the thread whose call
wrote the reason last.  It closes nothing: closing is the program's job
(net.ys:22-24).  The call may stand in a try, and then the program goes on with the
same connection as it is, and may send, receive or accept on it again; `cuts` are
the places in a stream where a send raised inside a message.  A descriptor whose
Conn or Listener is overwritten or goes out of sight stays open (Assign, Forget,
`dropped`).  A method of a closed connection raises without a system call
(BeginShut).  recv may find no memory for its buffer, and then returns None without
a reason (RecvNoMemory, hosted.c:1498); listen closes its descriptor again when
the port cannot be read (PortFails).

Bounds of these two: `Calls` of a host thread, the `Messages`, one Conn and one
Listener variable per thread, and no second pl_mutex_new for a mutex somebody is
inside of (`NewMutex`; a mutex is named by the thread that makes it).

### Front end

A text is a sequence of pieces (blanks, line breaks, digits, characters of
operators, words).  Lexer, Parser and Statements are read_*, emit_indent_tokens
and the recursive-descent functions, with the rewriting they do while they read.
Rewrite is the part of sema that replaces nodes: cursors, guards, patterns,
keyword arguments, old().  Meaning executes trees, the written ones by the
language specification and the rewritten ones by gen_stmt and gen_expr; Printed
prints a tree in a given layout, by the specification's grammar.  Frontend is the
pipeline, from one stage to the next or to the error that refuses the file.

## 3. Runs

| run | bound | distinct states | what it shows |
|---|---|---|---|
| ScopeSafety | 3 threads, at most 2 blocks each, 3 in all, all rules | 1,755,438 | BorrowAlive, ScopeJoined; ForkJoinSpec (refinement) |
| ScopeHandles | 3 threads, 1 block each, 2 in all, only `join_once` and `join_inside` | 373,890 | NoUseAfterFree though locals dangle and exceptions leave scopes; ScopesEnd (liveness) |
| OwnSound | seven families, up to 5 statements (6 for chains of aliases) | 1,373,407 | NoUseAfterMove, NoUseAfterFree, Exact |
| OwnLoop | one owner, two slots, arbitrary bodies | 8,609 | EntrySound, RoundsBounded |
| RcCounts | 3 boxes, 2 locals per frame, drop methods nested once | 2,071,189 | Counted, NoDangling, Reclaimed |
| LoadSafety | every program of 3 modules (lists of up to 2 imports, an alias included), 2 jobs at once, 2 versions of the sources | 902,144 | InOrder, Exact, ExitTrue; BuildEnds (liveness) |
| PmSelect | 3 packages, two of them in 2 versions, one offered by two places; 8 import lists; 4 rounds; any sequence of commands | 4,407,944 | WhyTrue, AllMet, EnoughRounds, Agreed, NothingMissing |
| Prove | eleven families, 3 or 4 statements, words of 4 bits, lists of up to 2 elements | 123,584 | NoNeededCheckRemoved, KnowledgeTrue, FastIsExact |
| LowerSound | eight families, 4 or 5 statements | 1,620,550 | NoUndefined, OwnedFreed, NoNone, CaughtRight |
| DropTwice | one family of 3 statements | - | DroppedOnce violated, section 6 |
| HostSafety | four families of programs, 4 threads, 2 calls of each host, 2 descriptors, messages of 2 units | 327,720 | NoRace, LockHeld, FramesAlive, ErrorsTrue, GivenBack, StreamTrue; CallsEnd (liveness) |
| Frontend | printed trees in two layouts, 1100 programs, 700 layouts, numbers in four bases | 10,828 | ReadsBack, RunsAsWritten, LexedRight, NothingImpossible |

Why the bounds are enough for the questions asked:

- ScopeSafety: a handle needs a spawner, a thread that runs and a third thread
  that receives the handle or the borrow.  Two blocks of one thread are a nested
  frame and the outer one it restores, or two blocks one after the other; with
  three in all another thread, or two, have blocks beside them.  `MaxTotal` bounds
  the blocks of all threads together.  The theorems have neither bound.
- ScopeHandles checks liveness, for which a smaller instance must do: two
  blocks, so that a scope's end waits for a thread that ends a scope itself.
- OwnSound: five statements are enough for a loop with an inner branch that
  moves, jumps and uses.  Straight lines of four statements reach every pair of
  effects on a pair of places, followed by a use.  Mixed has every statement in
  every construct, four of them: a try, a call in it that may raise, a move, and
  a use behind.
- RcCounts: three boxes reach a cycle, a chain of two under a third, and an
  upgrade of a box whose owner is being dropped.  `SYMMETRY` over the boxes is
  sound: the properties are invariants and no box is named.  Drop methods deeper
  than MaxDepth are empty; they still drop their fields.
- LoadSafety: three modules contain self imports, cycles of two and three,
  diamonds and repeated imports.  Two jobs at once are fewer than three modules,
  so jobs wait for a slot; the builds of import graphs without a mistake are the
  only ones that go on to them.  Two versions of the sources are one interrupted
  build and its successor.  `Plain` keeps the second build to programs without
  aliases and repeated imports, which differ in loading only.  `Orphans` is empty:
  section 6.
- PmSelect: three packages reach a circle of lower bounds, a diamond, a replaced
  version whose own requirements outlive it, and a clash of places.  `MaxRounds`
  is 4 instead of 64 so that giving up happens.  MaxRead keeps commands after the
  first from revealing new manifests beyond two: they re-read what is known.
  `LongFiles` is FALSE: a lock of a few lines leaves stdio in one write; section 6
  says what happens if it does not.
- Prove: with 4-bit words every overflow, every end of a range and every wrap is
  a few steps from zero; the arithmetic of the intervals is proved for every width
  (section 5).  Four
  statements are enough for a fact, a construct around it, what kills it, and the
  check it would remove.
- LowerSound: two tries inside each other, an owned value between them and a call
  that fails are four statements; a loop left by break inside a branch, with an
  owned value in each scope, five.
- HostSafety: two hosts and a third thread for what they share; two calls, so
  that what the first one left behind meets the second.  Of the talking programs a
  client sends again after a send that may have failed inside a message and reads
  again after a read that may have timed out, a server reads again likewise, and in
  a third program two threads are in net.ys at once, so that each failure may be
  written over by the other thread before it is read.  Messages of two units are
  the smallest that can be cut.
- Frontend: expressions two operators deep reach every pair of operators on either
  side.  `Buffer` is 7 instead of 63 digits, `MaxInt` 127, `MaxDepth` 5 open blocks
  instead of 100, so that `MaxInt` and `MaxDepth` are met from both sides; `Buffer`
  is met by binary numbers of just that length, and longer ones are left out
  (section 6).  `MaxRounds` bounds
  the loops of the programs that are run, `MaxVer` the versions.
- Deadlock is checked in LoadSafety, PmSelect and RcCounts.  Elsewhere
  CHECK_DEADLOCK is FALSE, as the system stops: threads are done, a program has
  reached its size, or is compiled.

Fairness:

- ThreadScope `FairSpec`: weak fairness, per thread, of Return, EndScope,
  NextItem, FinishJoin and LeaveScope.  The operating system schedules every
  thread that can run, and the code between two runtime calls is taken to
  terminate.  Nothing is assumed of Spawn, BeginScope, StartJoin, Consume or
  Escape: these are the program's choices.
- Host: weak fairness per thread of Do(t), for the same reason.  Nothing is
  assumed of the peer; a program that waits for it has a timeout set.  Nothing is
  assumed of how often memory runs out (NoMemory) either.
- Driver: weak fairness of the driver's own steps, and of each compilation: a C
  compiler ends, well or badly.  Nothing is assumed of Interrupt or Again.

Every property has a mutant in PROJECT.json: a change of the code such as a
missing retain, a join that does not wait, a loop body looked at once, a guard
that looks at one end only, for which TLC finds the property violated under the
run's own configuration.

## 4. What the properties say

- **NoUseAfterFree** (ThreadScope): whenever a thread may still write its
  result, a frame still lists it, or somebody waits for it, its PlThread has not
  been freed.
- **BorrowAlive**, **ScopeJoined**: the two halves of the promise under which
  `check_spawn` lets borrows into threads: no block drops, at its end, a local
  that was lent inside a scope while a borrower runs, however far the loan was
  passed on, and what a block has started has ended when it is left.  That the
  program itself moves a local away from its borrower, or lends it while no scope is
  open, is neither refused by the compiler nor covered by BorrowAlive (section 6).
- **ForkJoinSpec**: seen through its frames, the runtime *is* structured
  fork/join; a refinement, so it also says what a step may not do.
- **ScopesEnd**: every join and every end of a scope comes to an end.
- **NoUseAfterMove, NoUseAfterFree** (OwnCheck): S1 and S3, and S2, for accepted
  programs in which nothing was `lost` (`Kept`), and in the families that claim
  them for all accepted programs; **Exact**: the converse on straight lines, and
  that the loop analysis reaches its fixpoint.
- **EntrySound, RoundsBounded**: of the loop fixpoint.
- **Counted, NoDangling, Reclaimed**: rc and weak counts are the references and the
  drops under way there are; no reference is to a freed box or a dropped value; at the end only cycles
  are left.
- **InOrder, Exact** (ModuleLoad): the order lists imports first and nothing
  twice; the loader accepts exactly the well-formed programs (no circle among the
  imports that the entry reaches, each found at one place, once, under one name),
  and its order is then all they reach.
- **ExitTrue, BuildEnds** (Driver): success means a program of today's sources,
  of all of them, with nothing left over; whatever fails, a build ends.
- **AllMet, WhyTrue, EnoughRounds** (PmResolve): the answer is an upper bound of
  every lower bound read, and each of its versions is one of them, so it is the
  largest; the limit of rounds is reached only after as many manifests.  The
  message for it (resolve.ys:107) suspects circular requirements: these alone
  never lead there.
- **Agreed, NothingMissing** (PmCommands): a command that ends well leaves the
  three files in agreement whatever was interrupted before it; a command that is
  refused breaks nothing, and the compiler never sees a lock without its deps/.
- **NoNeededCheckRemoved, KnowledgeTrue** (Prove): a check that was removed could
  not have failed; what is known at the end of a body is true of every execution.
  **FastIsExact**: the unchecked version of a loop ends in the same states.
- **NoUndefined, OwnedFreed, NoNone, CaughtRight** (Lower): of a body the type
  checker accepts, no unreachable block is reached, whatever it owns is freed
  exactly once on every way out, no None is used, and an error goes to the
  innermost try that names its class.
- **NoRace, LockHeld, FramesAlive, ErrorsTrue, GivenBack, StreamTrue, CallsEnd**
  (Host, Sockets): data is touched by one thread at a time; a mutex somebody waits
  for is held by somebody inside the lock; the guard is the innermost call that has
  not returned, and a thread has the scopes of the blocks its functions are in and
  no others; what a host reads is the error of its own call, and a NetError tells
  what its call met unless the call of another thread wrote the reason in between
  (or recv had no memory); an argument is freed once, and an open descriptor is in
  the program's hands or was dropped by it; a peer is handed messages in one piece,
  broken off only where a send raised, also when the program tries again on the same
  connection, and what `recv` calls the end is the end; every call ends.
- **ReadsBack, RunsAsWritten, LexedRight, NothingImpossible** (Frontend): a printed
  tree is read back; a rewritten program prints and ends as the written one;
  blocks follow indents and numbers have their value or are refused; no
  UNREACHABLE() is reached.

In Lower, Prove, LoopVersions and Frontend the state is a program, written
statement by statement or chosen.  The step Compile ends the writing, and the
properties of these four are action properties `[][Compile => ...]_vars`: they say
what the compiler makes of every program that is handed to it.

## 5. Proofs

`tlapm` proves, for all values of the constants:

| module | theorem | says |
|---|---|---|
| ThreadScope_proofs | TypeCorrect | Spec => []TypeOK |
| | NeverUsedAfterFree | Spec => []NoUseAfterFree, if `join_once` and `join_inside` are in Rules, even when locals dangle and exceptions leave scopes |
| ScopeBlocks_proofs | ScopesJoin | Spec => []ScopeJoined, if `caught` is in Rules as well |
| | BorrowsLive | Spec => []BorrowAlive, under the rules of ScopesJoin: whatever the program moves, overwrites or lends outside a scope |
| | ImplementsForkJoin | Spec => ForkJoinSpec, under the rules of ScopesJoin: the refinement |
| Own_proofs | JoinLeast | flow_join is the least flow that covers both of its arguments |
| | LoopSound | Spec => []EntrySound |
| | RoundsAreBounded | Spec => []RoundsBounded: a loop over k locals needs at most k rounds |
| | StepSound | an accepted simple statement has no fault in a memory the checker is right about, and the checker is right about the one it leaves |
| | PathsSafe | PathSpec => []PathSafe: no accepted path of any length has a fault, if aliases still valid where paths meet have one loan |
| | StraightExact | StraightSpec => [](PathSafe /\ PathExact): without branches the checker reports exactly the statements that go wrong |
| | BodiesSafe | BodySpec => []BodySafe: no accepted body of branches, loops, jumps, raising calls and tries, of any length and depth, has a fault, if its loops reach their fixpoint and nothing is lost where paths meet |
| RcBox_proofs | RcTypes | Spec => []TypeOK, if all styles are gentle: no count falls below zero |
| | CountsAreReferences | Spec => []Counted, likewise |
| | NothingDangles | Spec => []NoDangling, likewise |
| | OnlyCyclesLeft | Spec => []Reclaimed, likewise |
| Driver_proofs | LoadedInOrder | Spec => []InOrder, for any set of modules and imports |
| | AcceptsExactly | Spec => []Exact |
| | LoadedEveryTime | DriverSpec => [](InOrder /\ Exact): in every build, after any interruption |
| | BuildsWhatItSays | DriverSpec => []ExitTrue, if the driver inherits no children |
| Host_proofs | HostTypes | Spec => []HostType |
| | GuardsAlive | Spec => []FramesAlive |
| | CallsGiveBack | Spec => []GivenBack |
| | StreamsTrue | Spec => []StreamTrue |
| | ErrorsOwn | Spec => []ErrorsTrue, for any number of threads in net.ys at once |
| | RaceFreedom | Spec => []NoRace, if every accepted program is sheltered |
| | HeldLocks | Spec => []LockHeld, if every accepted program is lock-safe |
| PmCommands_proofs | Types, Answer, Minimal, Rounds | Spec => []TypeOK, []AllMet, []WhyTrue, []EnoughRounds, for any packages, versions, declarations and limit |
| | CommandsResolve | CmdSpec => [](AllMet /\ WhyTrue /\ EnoughRounds): also when the resolver is restarted by command after command, and interrupted |
| | DepsFollowLock | CmdSpec => []NothingMissing |
| | FilesAgree | CmdSpec => []Agreed, if locks are written in one piece (~LongFiles) |
| Interval_proofs | AddSound, SubSound, MulSound, DivSound | for any width of the word: the interval of a sum, difference, product, quotient, remainder or negation holds every result that is a machine integer; it is exact only if nothing overflows, and the whole machine where a result may wrap |
| | LatticeSound, CutSound, CompareSound | joining and widening lose no value; refining by a true comparison loses none; a decided comparison is decided rightly |

**ThreadScope: handles.** NoUseAfterFree is not inductive: that a join may free a
PlThread depends on nobody else waiting for it and no frame listing it.
`HandleInv` adds UnbornInv (what is not yet spawned has no PlThread, handle or
frame), FrameInv (frames belong to the thread that opened them), WaitInv (whoever
waits for a thread has taken its handle, or has unmarked it in the frame it is
closing; no two wait for the same) and BoxInv (a handle that exists and is not in
a frame keeps its PlThread; a handle in a frame is held by the thread that owns
the frame; what left its frame is being waited for).  One lemma per part, one
case per action.  Assumptions: MaxThreads > 0, Rules a set of known rules, None
not a thread or a block.

**ThreadScope: blocks and borrows.** `BlockInv` adds ChainInv (the block a thread
is in, its frame pointer and the frame it is closing fit together), NestInv
(parents have smaller numbers, the frame a block restores is its parent's, all
blocks between an open block and its parent have been left) and OpenInv (frames
in use are open; a thread's frame belongs to a thread with a smaller number) to
ScopeJoined; JoinedStep is where LeaveScope meets a thread that has not ended.
For BorrowAlive, `LoanInv` says that a running borrower of a local that was lent
inside a scope is recorded either in a scope of the lender, inside the block that
owns the local, or in a scope of a thread that borrows it too, and that the local
is live or was moved by the program, so not gone with a block.  When a block is left, FirstLoan follows the chain of
borrowers down to the first one, by well-founded descent on the thread numbers,
and finds it recorded in a scope that has been joined.  A conjunct not needed
for the runs, FreshInv (blocks not yet opened have no locals), makes it inductive.

**ThreadScope implements ForkJoin.** Spawn maps to Start, Return to Finish,
LeaveScope to Close, one lemma each; every other action maps to a stutter.  The
guards of the abstract actions are BlockInv: what Finish and Close require of the
tasks of a scope is ScopeJoined after the step.

**OwnLoop.** JoinCovers and JoinLeast are facts about the lattice; JoinGrows
says that a join that changes the entry makes one more local "maybe", which
bounds the rounds by the finiteness of Local.

**OwnPath.** The invariant is `Right`: a local the checker takes for valid holds
its own value, or points into the owner its loan names; nothing is said of the
others, so "maybe" may hold anything.  StepSound is the induction step behind
NoUseAfterMove and NoUseAfterFree, one lemma per statement (EatStep, BindStep,
AssignStep, SetStep, StoreStep ...): the alias of an alias has the same loan, so that
invalidate_loans of one owner reaches every alias that points into it, and only an
owned value moves.  Meets (MeetStep) needs a flow that covers this path's, which is
what JoinCovers gives for merges and LoopSound for loop heads, and that aliases still
valid have kept their loans.  OwnPath says how the facts at the meeting points are
used; that they are there in a whole body is BodiesSafe.

StraightExact adds `Gone` to Right: on a single path a local that is not valid is
moved or freed, which is false as soon as paths meet ("maybe").  It needs, again
statement by statement, that the checker forgets no more than the memory loses:
the aliases that invalidate_loans takes are those that now dangle.

**OwnBody.** BodySpec builds bodies from the inside, so an invariant of the set of
bodies is proved once for each way to build one, which is induction over programs
without an induction principle.  The invariant (`Proper`) has the typing of both
functions and four parts.  `Sound` is the point: from a set of memories in all of
which the checker is right, and if the body is accepted, has its fixpoints and
loses nothing, no execution has a fault, and at each way out the checker is right
again: at the end with the flow behind the body, at the breaks and continues with
the flows collected for them and the loans seen there, at the raised errors with
what was known at some call.  The other parts are what Sound of a composed body
needs of its parts: `Grows` (a diagnostic or a loss, once noted, stays, and what was
collected only grows), `Uniform` (flow and loans behind a body depend on those
before it, not on what was collected) and `Strict` (nothing happens where nothing
arrives).

The loop is where these meet.  The head states are the least set closed under a
round (AtHead), so it is enough that the set of *all* memories that agree with the
entry of the last round is closed (LoopSafe).  The rounds are quiet: a diagnostic
in one is not kept, and only the last, walked once more with diagnostics, is
known to be free of them.  That this last round starts from an entry which covers
what it sends back is the fixpoint, hence the hypothesis ~crash, and Uniform makes
the two walks from it the same.  LoopSound is the same argument for flows alone;
here the loans come with it, which a round hands to the next.

`lost` is the hypothesis that the code does not enforce: without it the theorem is
false, which `Rebound` and `Tried` show (section 6).  Most of it is needed: if any
of these parts is dropped, TLC finds an accepted program in the families of
OwnSound that goes wrong: the loans the else branch starts with; the loans of the
two branches at their end; the flow, and the loans, at the calls in a try; the
loans of its two ends; the loans at a loop head.  Two parts only the proof needs,
and no program is known that goes wrong without them: the loans at the breaks of a
loop, and that a last round which changes a loan takes no more for valid than
comes back.

OwnPath and OwnBody have no run of their own: the first ranges over any number of
statements and the second over sets of functions.  OwnSound runs the
same operators, of OwnStep and OwnBlock, on programs as text; its properties are
BodySafe, for the programs of its families.

**RcBox.** The counts are not inductive alone: they are wrong in the middle of a
release, and right again only if what is on the task stack is what remains to be
done.  `Sound` is therefore an operator of the boxes, the references, the weak
fields and a stack of tasks, which also speaks of the moments between two
operations of one action (`Release`, `WeakRelease` and `Code` are lemmas about
these).  Strong: a count is the number of holders that are not stale, and of
values that wait to be stored.  Weak: the weak fields that refer to the box and
the drops of its value that have not ended, each of which holds a weak reference
for itself (core.c:1917).  Life: counts, value and freeing fit together.  Tasks:
a drop is of a dropped value and there is one of each; what waits to be stored
waits for the drop above it; a holder is changed by one task.  Left: locals of
code that is over and fields of dropped values are empty or are about to be.
Each operation has a lemma (AssignStep, UpgradeStep, ReturnStep, ...); Return,
whose stack of drops is as long as the locals are many, is the largest.
Assumptions: Box and Name are finite; and the styles are gentle, i.e. either no
field is overwritten, or only main overwrites fields (none through another field)
and drop methods do not read any.  The run's `Steal` (section 6) is a style that
is not, and it breaks NoDangling, so the hypothesis cannot go; TLC evaluates that
the run's own styles are gentle (MCStylesGentle).

**ModuleLoad.** `OrderInv`: a module is listed iff it is done; the modules of
the path are in progress and distinct; the imports behind the current one are
done and the current one is next on the path; InOrder follows when a module
leaves the path.  `ExactInv` adds what the loader has found out: the dependencies
of a module are the imports behind it (DepsInv), nothing was wrong with any of
them (PassedInv), all that is loaded is reached from the entry (LoadedInv).  When
the path is empty, what is done is closed under imports and so is all that is
reached, and the order is a ranking of it.  When an import is refused, BadImport
has the reason for each of the checks; for a cycle the reason is the path itself,
along which every ranking would have to fall and come back.

**Driver.** Exact and InOrder survive a new build, because Again starts the loader
afresh (`Fresh`).  `BuildInv` counts jobs: `running` is the number of modules whose
process has not been waited for, `done + running = started`, and the first
`started` modules of the order are those that are not due.  A module that has been
waited for without failing has an object file of this build's sources.  The loop
therefore ends with every job waited for, and the link sees all of them.
Assumption: Orphans = {}; with an inherited child, `done` counts an end that was
nobody's (section 6).

**Sockets.** `SockInv`: every open descriptor is held by one thread or was dropped
by the program, and every held one is open with the right kind; what a peer was
handed is in `Parts`, i.e. only the end of a message or a cut is followed by the start of
one, and is `Whole` unless a thread is sending on it; how far a send is agrees with
the last unit the peer has (`Progress`), which is why a send that fails inside a
message leaves a cut exactly there and the next one may start anew; the end of a
stream stays the end while the call returns.  One lemma for each system call.

**Host: frames.** `HostInv` says of the stack, guard and scopes of each thread that
they are `Good`: Shape (an entry has its function above it, only functions enter
and lock), Guards (the guard is the innermost entry and each entry remembers the
one outside it), Scopes (sorted by the frames they belong to, as many as each
function has open blocks, and each entry remembers how many belong to frames below
it).  The lemmas GoodAdvance, GoodOpen, GoodClose, GoodPush, GoodPop, GoodCut say
how the operations keep that; GoodCut is the panic, which cuts stack and scopes at
the entry's record.  An error keeps the scopes as they are, and this is right
because none is open above the entry (Raise).  GivenBack needs in addition that
the argument of an entry has not been freed yet; StreamTrue and the descriptors
follow from SockInv.

**Host: errors.** The error of an exported call is kept per thread, that of the last
socket call for the whole process (hosted.c:1127).  ErrorsOwn is proved for any number
of threads in net.ys.  Its invariant `TellsTrue` says of each thread that is on its way
from a failure to its NetError: as long as no other thread's call has written the
reason since (`writer`), the reason kept is that of its own call, and so is what it has
read of it.  Two exceptions are the code's and are in ErrorsTrue: a recv without memory
leaves no reason (the cause "memory"), and a name that does not resolve leaves the
flag of an older failure standing.

**Host: races.** `RaceInv`: unless the program is one thread only, every function on
a stack is one in whose reach the walk found no write of a global; a function that
touches the contents of a mutex runs directly above the frame of its lock; the
mutexes of the lock frames of a thread are owned by it and distinct.  The walk is
scan_global_write's: it follows calls by name.  What it does not follow is in the
hypothesis: `Sheltered(P)` says that an `init`, a function value or the function a
lock calls writes no global, nor does main beside threads, that exported and spawned
functions reach no method that changes one, and that the contents of a mutex are
touched only in the function that its lock calls.  Programs outside of
it are accepted and do race (section 6).

**Host: locks.** `LockInv` has two cases.  If nothing is exported, a panic ends the
process, so that only pl_mutex_with itself takes a lock frame away, and unlocks.  If
something is, a panic may jump over the unlock, and the mutex stays locked; then
HeldLocks asks (`LockSafe`) that each function lock only a mutex it has made itself,
and that no C code call back while it does, so that nobody else can wait for it.
TLC evaluates on every run that the accepted programs of the instance are sheltered
and lock-safe (MCFamiliesKept), so the hypotheses are those of real programs and
the runs check the same ones.

**PmResolve.** `ResolveInv`.  MetInv: a requirement that was read is met, or is
among those left in this round, or will be asked for in the next.  That holds
because meeting a requirement is never undone (versions only go up).  UpInv: a
version that is still to be read was never read before, as everything read
under its name is smaller.  RoundsInv: hence each round that changes something
adds one manifest, which gives EnoughRounds.
Assumptions: a manifest has at most one line per name (manifest.ys:94), None is
neither a package nor a selection.

**PmCommands.** ResolveInv survives the commands: a command restarts the resolver
(ResetResolve), a step of it is a step of PmResolve, the rest leaves it alone
(CmdResolve).  `InstallInv` says what a command holds on its way: the resolver
works on the declarations it will save; what it installs was made for them, or is
the lock there is; deps/ is complete before the lock is written, the lock before
the manifest (WorkInv); between commands deps/ is what the lock lists unless one
was hurt (HeldInv, which is NothingMissing).  Agreed needs MeetsInv, too: the
entries of every lock meet the lower bounds it was made for.  It is this last
invariant that a lock written in pieces breaks.

**Interval.** The run Prove has words of 4 bits; what it takes from arithmetic is
proved for any MaxInt > 0 with MinInt = -MaxInt - 1 (WidthAssumption).  `Covers` is
what the prover relies on for the answer of an operation.  A cut-off operation is
`Clamp` of the exact one (AddSat, SubSat, MulSat): of MulSat this is not obvious, as
mul_ovf reports overflow for MinInt * 1, where cutting off is right all the same.
A product lies between products of the ends (ProductEnds), and Clamp is monotone.
The walk over programs that uses these operations is recursive and is
model-checked only.

**Only model-checked:** liveness (ScopesEnd, BuildEnds, CallsEnd; out of the
prover's reach, as is ENABLED); NoUseAfterMove, NoUseAfterFree and Exact as
statements about program text, because the walk of OwnCheck over it is recursive:
BodiesSafe proves the first two of the bodies such text denotes, StraightExact the
third for code without branches, and that three rounds are enough for the loops of
a family stays with TLC (with a longer chain of aliases they are not, section 6);
and everything about Prove, LoopVersions, Lower and Frontend, whose operators are
recursive: the prover does not accept them, nor induction over the programs they
walk.  All other properties of passing runs are theorems.

## 6. Where the code and its documents disagree

Met while modelling.  All were confirmed with the compiler or by a run; the models
exclude the programs concerned from the passing runs and the notes say how.

**With a run: DropTwice.**  Of a call that fails with no try around it, emit_call_to
drops all scopes, parameters included, and branches to err.propagate, where
gen_func drops the parameters again (codegen.c:5713).

Instances to set in the configurations, each refuted by TLC in a few seconds:

| set | refutes | what it shows |
|---|---|---|
| `Rules <- NoJoinOnce` in ScopeHandles | NoUseAfterFree | sema.c:3306 says ownck prevents a second join; it does not |
| Rules without `join_inside` | NoUseAfterFree | a handle recorded in a scope and joined after it is a use after free (hosted.c:855) |
| Rules without `caught` | ScopeJoined | an exception that no clause matches leaves the scope without joins (sema.c:3080) |
| `Families <- Rebound` in OwnSound | NoUseAfterFree | loans are not merged where branches meet; the last branch wins (ownck.c:2384) |
| `Families <- Tried` | NoUseAfterMove | an except clause is analysed from the state before the try (ownck.c:2436) |
| `Families <- Chained`, a fourth slot `"t"` | Exact | ownck.c:2238 argues that three rounds are enough; four chained aliases need one more.  RoundsAreBounded gives the bound for a fixed body |
| `Styles <- Steal` in RcCounts | NoDangling | a field assignment drops the old value before storing the new; a drop method that reads the field sees it (codegen.c:5465) |
| `Families <- Reassigning` in Prove | NoNeededCheckRemoved | assigning a list keeps what was known of the old one's length (prove.c:985) |
| `Families <- Twice` in Prove | FastIsExact | vz_sites counts the induction variable and its alias separately, so (v - 1) * (j + 1) passes (codegen.c:4051) |
| `Chosen = {"racing"}`, `Holes` any of "init", "value", "outer", "mutex", "method" in HostSafety | NoRace | a constructor's `init` and function values are not followed by scan_global_write; main writes a global its thread reads; `mutex(x)` does not move x (ownck.c:1725); `g.append(1)` is not taken for a write of the global g (ownck.c:1198) |
| `Orphans = {"x"}` in LoadSafety | ExitTrue | wait() also returns children the driver inherited, which are counted as finished jobs (main.c:495) |
| `LongFiles = TRUE` in PmSelect | Agreed | a lock cut off behind its root lines is taken for complete by lock_satisfies (main.ys:187; hosted.c:307 writes in place) |

Seen as well, and left out of the families:

- ownck.c: a local that is lent while no scope is open (1367), or that is moved or
  overwritten while it is lent (1382 checks the spawn only), may be gone before its
  thread.  ThreadScope has both, and BorrowAlive excepts them.
- prove.c: `if i >= 0 and i < len(xs) and shrink(xs)` keeps `i < len(xs)`; a call in
  the condition of a while is not reflected behind the loop; the handlers of a try
  are walked with what is known at the end of its body (prove.c:1166).
- sema.c: has_break does not look into match, try and unsafe (5386); what was
  narrowed before a loop stays narrowed though the body assigns it later; a guard
  is rewritten with names a comprehension in it may bind (4584); a match with a
  guard and a pattern like -1 has an empty group, and the compiler crashes (4738).
- codegen.c: an error no inner try names leaves the scopes between the tries
  undropped; error objects bound by `as` are not dropped; temporaries of arguments
  are not flushed when a call fails; the increment over a range in a comprehension
  wraps unchecked (1745); `x.f.f = v` loses the reference it overwrites (5464;
  RcCounts has the operation: the counts are too high and never too low).
- ownck.c: bind_alias forgets the borrow root of a variable that becomes an owner
  in one branch (2113); `unsafe:` blocks are not looked at; the element of a
  comprehension is looked at once (1857).
- hosted.c: a mutex reached through a list can be locked again by its own holder;
  pl_sock_recv without memory returns None and sets no reason, though the
  comment says that the reason of a None is in pl_sock_error (1493, 1498);
  pl_sock_resolve leaves an older timeout flag, though timed_out is to tell timeouts
  from the rest (net.ys:47); of two threads that fail at once one raises the other's
  reason (net.ys:66 warns of it).  Sockets has these three, and ErrorsTrue excepts
  them.  A listener whose set_timeout fails
  leaks the accepted descriptor; pl_write_file ignores a failing fputs or fclose,
  as run_rm does remove_all; an interrupted write of package.pkg leaves an empty
  manifest, which every command refuses.
- lexer.c: digits after the 63rd are dropped, so `0b1` and 63 zeros is 2^62
  (205-215).  parser.c: an f-string ends at an escaped NUL (203); `requires (a) > 0`
  is read as a call; `pragma` inside a body is not readable.

## 7. What is left out, and why

- ThreadScope: calls are inlined, the locals of a block are one value, panics
  end the process (Host has them).
- OwnCheck: rc loans (E-BORROW-10, ownck.c:1007), lists, mut arguments and call
  effects, match, lambdas, the depth of scopes (E-BORROW-6), comprehensions, unsafe.
- RcBox: one class with an rc and a weak field; the borrow counters of the
  runtime are never used by emitted code; the depth of the stack is not measured
  (a long chain of boxes recurses once per box, core.c:1920).
- ModuleLoad: names are opaque, so the renaming of entry files is left out
  (module.c:92).  Driver: options, -c, -S, the dump stages, Windows, and a wait() that
  fails (main.c:496 stops waiting then).
- PmResolve, PmCommands: git is reduced to "this tag has this manifest, or not";
  tags do not move.  verify and list change nothing.
- Prove: `&`, `>>`, intervals of bool, rows of lists of lists.
- Flow and Lower: types of expressions, generics, interfaces, closures, vtables,
  layouts.
- Host: TLS, HTTP and file I/O.
- Sockets: set_timeout (a timeout is set from the start), recv_all and pl_sock_start; a
  Conn that two threads share; Close closes both descriptors of a thread.
- Front end: pragma, tabs, the text of names and escapes, positions.
- Components marked `not_modelled` in PROJECT.json: sequential library code, text
  output, a port of the C compiler, and a demonstration kernel.

## 8. Plan

Done: everything in section 2.  What is left, in this order:

1. proofs: Lang's operations against Interval.
2. OwnEffects: rc loans and call effects in OwnCheck, and lists.
3. The runtime's lists and the standard library's dict against their reference.

Running it: `tlc -workers 2 -config <run>.cfg <module>` with the module
PROJECT.json gives for the run; `tlapm <module>.tla` for the `_proofs` modules.
A run takes from a second to about two minutes and a half.
