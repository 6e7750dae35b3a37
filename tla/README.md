# waitlock in TLA+

`waitlock` lets shell scripts take a mutex or a semaphore by name. There is no
server: every invocation is a process of its own, and invocations share nothing
but a directory of lock files and the kernel's process table. This directory
holds TLA+ specifications of how such runs get along, TLC models that check
them on small instances, and proofs that TLAPS checks for all instances.

Line numbers are those of `src/` (`lock.c` is `src/src/lock/lock.c`, and so on).

## 1. The system

| Part | State | Operations | With whom |
|---|---|---|---|
| command line (`core.c`) | `opts` | `parse_args`, the CPU count | the environment, a surrounding waitlock through `WAITLOCK_SLOT` |
| lock directory discovery (`lock.c:11`) | directories | `access`, `mkdir` | runs of the same and of other users |
| acquisition, hold, release (`lock.c`, `waitlock.c`) | the lock directory; per process `lock_fd`, `lock_path`, the counters of a scan | `acquire_lock`, `release_lock`, the pause of `main` | other runs, through the directory, `kill(pid, 0)`, `flock` |
| backoff (`lock.c:231-337`) | `wait_ms` | naps, doubling, jitter, cap | the clock, and whoever gives up a slot meanwhile |
| `--check` (`lock.c:397`) | counters of one walk | `check_lock`, which also removes files it takes for corrupted | runs that are taking and releasing locks |
| `--list` (`lock.c:467`) | none | `list_locks`: reads, looks for the process, filters | the same |
| `--done` (`lock.c:675`) | counters of one walk | `done_lock`: SIGTERM to live holders, removal of dead ones' files | the same, and their handlers |
| record and text fallback (`lock.c:563-672`, `checksum.c`) | one file | write, read, CRC32 | all of the above |
| exec mode (`process.c:132`) | `child_pid`, the command | fork, exec, `waitpid`, escalation | the command, the handler |
| signals (`signal.c`) | `should_exit`, `received_signal` | `signal_handler` | interrupts all of the above |
| `ProcessCoordinator` | two pipes, a role, a child | handshake, send, receive, wait, destroy | the tests, which line up a parent and a child with it |
| `PipeCoordinator`, syslog, debug output, tests | – | – | nothing calls the first; the others only write or call |

**What makes it hard.** A run decides with several system calls what another may
change between any two of them. `acquire_lock` reads a record, looks for the
process and unlinks *the name*; `release_lock` unlinks by name; a write may fail
half-way; a run may die anywhere and leave its file; a stale file is noticed
only by the next run; a timeout may elapse at any of these points; a second
`open` and a blocking `flock` follow the claim. `--check` and `--done` walk the
directory while it changes. In exec mode the handler runs between any two
statements of the parent. Directories are found by `access` and made by `mkdir`,
and only runs that settle in the same one exclude each other. Naps grow, but
have to shrink towards the deadline. The two ends of the coordinator share pipes
that cut and join messages, and either process may be gone at any time.

**What makes each part correct.**

* command line: the limit is at least one in any order of options, and what a
  surrounding waitlock hands down does no harm;
* discovery: runs that are called alike use one directory, users who must not
  share do not, and "no directory" has a reason;
* backoff: answered in time, neither late nor with a free lock overlooked;
* acquisition: never more holders than slots; every file belongs to someone who
  will remove it; a timeout is answered; files of the dead do not keep anybody out;
* `--check`: never says *available* while the slots are held throughout;
* `--done`: reaches everyone who holds the lock throughout, and nobody whom no
  record of a matching name leads it to;
* exec mode: the command runs under a lock file and a live parent; a signal to
  the run is a signal to the command; the run ends when it should;
* `--list`: shows every steady holder and calls nobody stale who lives;
* records: what is half written is never taken for a holder's record;
* coordinator: bytes arrive in order and once, the end is told after the last of
  them, a byte makes one wait for a signal succeed at most, every receive ends, descriptors are not leaked, `pc_destroy` ends the
  child and harms nobody else.

The complete list of hazards, each at the line where it bites and with the
properties that look at it, is in `PROJECT.json`.

## 2. The modules

```
Arguments        parse_args, token by token
Backoff          the arithmetic of one nap and of the next wait
  Invocation     one invocation from its command line to its answer, on a clock
    InvocationProofs
LockDirectory    how runs of several users come by a directory
  LockDirectoryProofs
LockFiles        the directory: paths, matching of names, reading, unlink
  WaitLock       runs that take, hold and release a lock, and die
    ClaimAudit   WaitLock with a history variable: which claims were clean
    LockTools    WaitLock with --check, --done and --list at work on the directory
    WaitLockProofs, ClaimAuditProofs, RaceProofs, LockToolsProofs
Semaphore        what is promised: at most Limit holders of a name
ExecMode         inside the hold of one run in exec mode
  ExecModeProofs
Channel          what a coordinator promises: two streams of bytes
  ProcessCoordinator   two processes and two pipes
    ProcessCoordinatorProofs
MC...            instances for TLC
```

`WaitLock` implements `Semaphore` (`ImplementsSemaphore`; `ClaimAudit`:
`ImplementsCleanSemaphore`), and `ExecMode` implements the hold, release and
death of `WaitLock` (`HoldsLikeWaitLock`). So the chain from the statements of
`exec_with_lock` to the promise of the README has three links.
`ProcessCoordinator` implements `Channel` (`ImplementsChannel`). `Invocation` and
`LockDirectory` see `acquire_lock` from outside: the first with a clock and a
lock that is free or not, the second with directories in which one run at a time
holds a mutex.

### LockFiles

A path is a descriptor and a slot. A descriptor is a sequence of tokens, so that
one may be the prefix of another or contain a dot: the three commands match
names in three different ways (`AcquireMatches`, `CheckMatches`, `DoneMatches`).
The directory is a *set of files*; a file is its path, its creator and a count,
so that two files created at one path at different times differ. `Unlink`
removes whatever stands at the path, as `unlink(2)` does. A file is *written* or
not: an empty or partial record falls through to the text reader, which accepts
anything with checksum zero, and the checksum then refuses it.

### WaitLock

Each variable is a field or a local of the C code, or the directory:
`files`/`written`, `opts`, `pc`, `todo` (what `readdir` has still to return),
`active_locks`, `at` (`check_path` while scanning, `lock_path` after), `seen`
(`info.pid`), `lock_fd`, `flocked`, `ret`; `expired` stands for the comparison
of the clock with the timeout.

| `pc` | code | leaves by |
|---|---|---|
| `loop` | top of the loop, 154-173 | `GiveUp`, `BeginScan` |
| `scan` | `readdir` loop, 179-185 | `Visit`, `Busy`, `AwaitSlot`, `BeginClaim` |
| `exists` | `process_exists`, 186 | `CountLive`, `Condemn` |
| `reap` | `unlink(check_path)`, 189 | `Reap` |
| `claim` | `open(O_CREAT\|O_EXCL)`, 208 | `Create`, `SlotTaken` |
| `write` | `write` of the record, 213 | `Write`, `WriteFails` |
| `undo` | `unlink(lock_path)`, 219 | `Undo` |
| `open`, `flock` | 223-225 | `Open`, `Flock` |
| `wait` | 231-337 | `Sleep`, `GiveUp` |
| `held` | `pause` or `waitpid` | `CommandEnds`, `Die` |
| `close`, `unlink` | `release_lock`, 341-394 | `ReleaseClose`, `ReleaseUnlink` |
| `zombie`, `ended` | dead, before and after the parent's `wait` | `ParentWaits` |

One action is one system call on the shared directory or process table with the
local work around it. `Die` at any place of `KillPoints` is SIGKILL or a caught
signal outside exec mode (whose handler raises it
again). A command that was already running keeps the inherited descriptor and
with it the flock (`OrphanEnds`). A process that died but was not yet waited for
still *exists* for `kill(pid, 0)`. Process ids (`PidOf`) and machines (`HostOf`)
are constants, so that reuse of ids and a shared directory can be instantiated.

### ClaimAudit

Between reading a record and unlinking the name, another run may have removed
the old file and created a new one there, so `MutualExclusion` does **not** hold
of the code (run `stolen_lock`). `ClaimAudit` says exactly what does hold.
`clean[p]` remembers whether nobody was inside that window, or believed it owned
the slot, when `p` created its file. Then `p` keeps its file (`CleanClaimKept`),
is alone in its slot (`CleanRunIsAlone`), and the holders with clean claims are
a semaphore (`ImplementsCleanSemaphore`): the window is the *only* way to lose.

### LockTools

A tool is a record: where it is, the entries to visit, the record it read and
its counters. Reading takes two steps, because the binary reader and the text
fallback open the path separately. `steady[t]` (history) holds the runs that
held the lock with their file in place ever since the tool started, `hit[t]` the
runs it has signalled, `shown[t]` what a `--list` has printed: a run and whether
it was called active or stale. `Scripts` are the combinations of command lines the
runs of an instance are given; it narrows `Options`, so that TLC can be given three
runs of chosen kinds, and says nothing about the code. `ToolTypeOK` also says that `--done` never counts
more releases than locks it found, which its answer relies on.

### ExecMode

From a successful `acquire_lock` to the return of `exec_with_lock`: `fork`, the
assignment of `child_pid`, the call of `waitpid`, its return or interruption, the
escalation (SIGTERM, one second, SIGKILL), and the release; the command before
and after `execvp`; and `Deliver`, the handler between any two steps. `signal()`
is left to the implementation by C89, and both meanings are modelled: `bsd`
keeps the handler and restarts system calls, `sysv` resets it and interrupts
them. On the platforms the man page lists it is `bsd`: there `waitpid` never
fails with EINTR, and the escalation (`process.c:196-208`) cannot be reached.
`sigchld_ignored` is inherited from the caller; `waitpid` then fails with ECHILD.

### Arguments, Backoff, Invocation

A command line is a sequence of tokens; what `atoi` and `atof` make of a token,
its length and whether its characters are allowed are functions of it. `Read`
takes one token, as the loop of `parse_args` does: `Option` for `argv[i]`,
`Argument` where an option still wants one (which may begin with a dash), and
then `Accept` for what follows the loop: `-c` and `-x`, the descriptor from
standard input cut at 255 characters, the checks, `preferred_slot`. `Backoff`
holds the three expressions of the wait.

`Invocation` puts them on a clock of microseconds:

| `pc` | code | leaves by |
|---|---|---|
| `parse` | `parse_args`, the modes of `main` | `ReadToken`, `Refuse`, `Settle` |
| `loop` | `lock.c:154-229` | `GiveUp`, `Busy`, `Claim`, `InVain` |
| `pause` | `lock.c:231-331` | `Pause` |
| `asleep` | `usleep`, then the doubling and the jitter | `Wake` |
| `held` | `main` or `exec_with_lock` | `Nest`: the command is waitlock again and inherits `WAITLOCK_SLOT` |

Between a look at the directory and the end of a nap, others take the last slot
or give one up (`OthersMove`). Every step may be late by a value of `Delay`.
`Written` keeps 16 bits of the limit and the slot, as `struct lock_info` does.
`ExportedSlot` is what `process.c:162` makes of the path of the lock file: the
number after the *first* `.slot`, which may be in the directory or in the
descriptor (`EmbeddedSlot` says of which tokens); then the run is `Misled`, and what
it hands on has nothing to do with its slot.

### LockDirectory

A directory is missing, or writable for its maker, or for everyone where an
administrator made it so; root writes everywhere. `Candidates(r)` is the fixed
list, or the one directory that was asked for. `Access` and `Make` are the two
system calls; `lost` (history) keeps the candidates another run created between
them. `Acquire` and `Release` of one mutex, which excludes only those who hold it
in the same directory, tie the choice to the promise.

### Channel and ProcessCoordinator

A pipe is named for its reader. `fds` are the ends each process has open; a fork
copies them, an exit closes them. `call` is the call a process is in: a send with
what is left of its message, a receive with or without a timeout, the wait, and
the three phases of `pc_destroy` (`term`, `grace`, `reap`). A write puts in what
fits, a signal may end it half-way, and what was put in stays. A read returns
any part of what is there. So messages may be longer than a pipe writes at once;
shorter ones, which the kernel does not cut, behave like those that happened to
fit. Data may contain any byte, the `R` of the ready signal too, and the receiver
cannot tell the two apart: `signalled`, `stray` and `readied` (history) count the
signals and the like bytes of data that were put into a pipe, and the waits that
succeeded. `pid` says whose number `child_pid` is: the child's, nobody's or a
stranger's; where SIGCHLD is ignored (`sigchld_ignored`) the child is reaped as soon
as it ends. `Channel` knows only bytes on their way, whether
somebody may still write, and the last answer; the mapping takes `open[x]` to
"some process has the write end of `x`".

## 3. The runs

| Run | Instance | What it shows |
|---|---|---|
| `pair` | 2 runs, 1 slot, all modes and timeouts, a failing write each, killed anywhere; 81 k states | two runs are a mutex; every elapsed timeout is answered; complete files of the dead are reclaimed |
| `crowd` | 3 commands, 2 slots, a failing write each, kills before a claim; 1.07 M | the race for slots is safe until somebody lets go; nothing is left behind, even where locks are stolen; types |
| `audit` | 3 commands, 1 slot, failing writes, killed after the claim; 310 k | the three properties of clean claims |
| `tools` | 3 runs in 3 combinations, the third with the process id of the first; 2 slots, `db` and `db.slot0`, one tool of any kind, killed at `write` and `held`; 4.9 M | `--check` overlooks no steady holder; `--done` reaches them, and signals only whom a matching record leads it to; `--list` shows them and calls only the dead stale |
| `exec` | one run in exec mode, 2 catchable signals and SIGKILL, 3 arrivals, both meanings of `signal()`; 800 | the file and the parent outlast the command; signals end the run; it refines `WaitLock` |
| `directory` | two runs of one user, one of another, one of root; 5 directories in every state they may be in, with and without `--lock-dir`; 1.3 M | alike runs share a directory unless one lost a race; users stay apart; `E_NODIR` has a reason |
| `invocation` | every command line of up to 4 of 12 tokens, 3 environments, one with a `.slot` in the name of the directory, 2 standard inputs, steps 0 or 0.4 ms late, least and most jitter, one nested invocation; 480 k | nested runs with a larger limit are not refused; `--check` agrees with the record; the wait ends in time and overlooks nothing |
| `coordinator` | a message of two bytes, the second an `R`, and the ready signal, pipes of two bytes, 3 bytes from the child and 1 from the parent, SIGCHLD ignored or not; 540 k | the channel is implemented; no byte passes twice for the signal; receives end; no descriptor is leaked; `pc_destroy` ends the child, and signals a stranger only if the child was reaped before |

and the runs whose property is what the documentation says and the code breaks:

| Run | Documentation | What TLC finds |
|---|---|---|
| `stolen_lock` | "Single lock holder" | reap of a file that is no longer the one that was read; two holders |
| `split_mutex` | "Single lock holder" | two runs find a directory missing, the loser of `mkdir` goes on to the next candidate; two holders |
| `orphan_file` | "Locks released when process dies" | death between `open` and `write`: the empty file occupies its slot for ever |
| `orphan_command` | "Run commands while holding locks" | a signal between `fork` and `child_pid = pid`: the command runs on without a lock |

**Bounds.** Two runs are the smallest number that contend; the window of
`lock.c:189` needs a third (one judges, one releases and goes, one creates), which
is why `pair` refines the semaphore and `stolen_lock` does not. `MaxHolders = 2`
makes the walk over slots and the count of holders matter. `MaxWriteFailures = 1`
lets every run come back from a failed write once; it is a bound on the
environment, not a part of the code. `MaxSignals = 3` allows a second signal
after each handler was reset and a third in the release. A run takes part once:
a second invocation is another run. Runs are symmetric where no
liveness is checked and the property does not name one. Deadlock is checked in
all passing runs; `Finished` is the state in which every run has ended or holds
for good. In `tools` two runs hold at once, in the slots of one lock or of two, and
a third is born with the number of the first when that is gone: it takes the lock,
or leaves it at once (`-t 0`), so that a record outlives its writer while somebody
else has its number. `db.slot0` is a name that continues `db` after a dot and that
the entry `db.slot0.lock` continues in turn, so `--done` of either meets runs of the
other; TLC reaches both, and a signal to a run that only has the number of a dead
writer. There holders may be killed because the blocking `flock` on
another's file (below) otherwise is a wait without end.

In `directory`, two alike runs are what a race needs, and a user more and root
what rights need; the lists of candidates have every kind of them (root's, an
administrator's, anybody's, a home, a working directory). In `invocation`, four
tokens reach every pair of an option with an argument and a descriptor or a
second option; 65536 is the smallest limit that does not fit the record, and 65
µs and 20 ms are a timeout shorter than the shortest nap and one that takes
several naps. Random numbers are two values for which the jitter is least and
greatest. In `coordinator` the pipe is no longer than the message, so that
writes are partial and reads return half of a message, or the end of one
together with the next. `MaxBytes` bounds what is asked to be sent.

**Fairness.** Each run's own code is weakly fair (`WF(Step(p))`: a process that
can go on is scheduled), time passes (`Expire`) and parents collect their
children (`ParentWaits`). That a run starts, that a command ends, that somebody
is killed or a write fails is never assumed. A blocked `flock` disables `Step`,
so no fairness helps it. In `ExecMode` the parent and `execvp` are weakly fair,
and a command that obeys signals ends when it has got one. In `Invocation` the
invocation itself is weakly fair and its clock with it; nobody has to give up a
slot. In `ProcessCoordinator` only a receive that can return does return
(`select` keeps its time, a read of a pipe with data or without writers does not
block), and a child that was sent SIGKILL ends; neither process has to call
anything.

`RaceIsSafe` is `MutualExclusion` for as long as no run that got the lock has
let go: the part of the promise that O_EXCL alone carries, with any number of
racing runs.

## 4. The proofs

All proofs are for every value of the constants: any number of runs,
descriptors, slots, write failures, signals, users, directories, tokens,
messages. Their assumptions are the ASSUMEs of the modules, which say what kind
of thing each constant is, and the named ones of single theorems (`OneMachine`,
`NoKillBeforeSuccess`, `AtMostTwoRuns`, `OwnNumbers`).

*WaitLockProofs.* `TypeCorrect`. `TypeOK` is not inductive, because `Undo`
counts a failed write after the fact; `UndoCounted` says that a run that is about
to undo has a failure left. `NoLeftovers`: where nobody is killed who has
a lock file, every file belongs to a live run that will unlink that path. It needs nothing stronger: a
file enters only in `Create`, with its creator in `write`, and a creator leaves
`Claimed` only by unlinking the path it is at, whosever file that is.
`LeftoversOfTheDead` says the same without a hypothesis, for runs killed anywhere
and on any machines: every file belongs to such a live run or to a dead one, so no
path through `acquire_lock` forgets a file.

*ClaimAuditProofs.* `CleanClaimsAreKept`, `CleanRunsAreAlone`,
`CleanClaimsImplementSemaphore`, from the assumption `OneMachine` (all runs have
the same `HostOf`); process ids may be reused. The invariant `AuditInv` is

* `UniqueNames`: no two files at one path, which O_EXCL gives;
* `CleanClaimKept` and `CleanRunIsAlone` themselves;
* `OthersHarmless`: a run that has read a record at the path of a clean claim has
  read the claimant's own and not condemned it. This is why the others hold: to
  unlink the file a run must first find its creator dead, and the creator is alive;

with the types. It is inductive because a file can only leave by an unlink at
its path, and every run that is about to unlink there is excluded by one of the
conjuncts: `Reap` by `OthersHarmless`, `Undo` and `ReleaseUnlink` by
`CleanRunIsAlone`. The semaphore follows: clean holders of a descriptor have
different slots below `-m` (`OwnDescriptor`), so there are at most `MaxHolders`.
`CleanClaimsNeverBlock`: such a run does not wait in `flock` either. Nobody else
has its file open (`CleanFilePrivate`): another run would have to open it by the
path, which `CleanRunIsAlone` excludes, or have it open from before, which
`Numbered` excludes, because a run that creates a file at a path again creates
another file.

*RaceProofs.* Three groups.

`RacesAreSafe`, from `OneMachine` and `NoKillBeforeSuccess` (nobody is killed
between the writing of its record and its success). `RaceInv` says that until
somebody lets go (`NobodyLetGo`, which `ResultFits` shows never to become true
again) live runs keep the files they own, under different names, and that a record
is complete only when its owner is past the write and has not let go. Then every
process a scan looks up is there, nothing is condemned (`NothingStale`), no name is
unlinked but by its owner, and the holders of a descriptor sit in different slots
below `-m`. On two machines live records are judged stale (section 5); and a run
killed after its write and before its success leaves a whole record that two others
may judge stale at once, one of them removing the new file of the other: TLC finds
it with three runs. A run killed before that leaves a half-written file, which
nobody removes and which does no such harm.

`PairImplementsSemaphore`, `PairExcludes` and `PairNeverBlocks`, from `OneMachine`
and `AtMostTwoRuns`: for two runs the refinement holds with any options, with
deaths anywhere, with reused process ids and commands that outlive their parents,
and the blocking `flock` never blocks. `PairInv` says why it takes a third run to
steal a lock. A run that is about to remove a stale file is alone (`JudgedDead`):
the record it read was complete, so its owner was past the write (`RecordsLater`);
the owner is the other run, and it has ended. Therefore a claim is never removed
but by its claimant (`ClaimPresent`), and what a run opens is its own file
(`OwnFileOpen`).

`NeverBusyAmongTheDead` and `SlotsAreReclaimed`, from `OwnNumbers`, for any number
of runs: the safety half of `StaleLocksReclaimed`, that is what it would say of
every step on the way. A run that begins when all others have ended counts nobody
(`CountsNobody`) and is never answered BUSY; and where no half-written file is in
the directory, its scan removes every file of its descriptor (`Reclaims`), so that
it finds every slot free that it tries. The two hypotheses are needed: a record that
carries the run's own process id is counted as live (TLC finds it on two runs with
one number), and a half-written file is in the way for ever (run `orphan_file`).

*LockToolsProofs.* `ToolTypesKept`, `ListIsTrue`, `DoneReachesAll`,
`DoneGoesByRecords`, `CheckSeesHolders`: for any number of runs and of commands at
once, with runs killed anywhere and entries removed under their names. Lemmas on
sequences say which entries a descriptor matches (`DoneFindsOwn`, `CheckFindsOwn`). `SteadyInv` is the core: a command that is busy with the entry
of a run that has held all along has read that run's own record (the file is
there, whole, and the only one of its name), so it never takes it for garbage;
`VisitSteps` concludes that the one step by which it leaves the entry behind is the
one that counts, lists or signals. Each theorem adds what that step is worth:
`ListInv`; `DoneInv`, with `LivePidsDiffer` (live processes have different
numbers), so that the signal reaches the holder and not another; `CheckInv`, which
counts. `OneMachine` is assumed for `DoneReachesAll` and `DoneGoesByRecords`.
Neither dots in descriptors nor reused process ids are assumed away, although both
lead `--done` to runs it was not meant for: `DoneGoesByRecords` says whom it can
reach at all. A record that is acted on is that of a run that was born (`SeenFits`),
under a name `--done` matches; if another live run has the number, the writer has
ended, because two live processes of a machine differ in theirs (`LivePidsDiffer`).
`CheckSeesHolders` speaks of descriptors without a dot, because of the others
`--check` finds no entry (section 5); the other descriptors may have dots.
`ToolsAmongTheDead` needs no hypothesis: a command that starts when all runs have
ended never answers BUSY, shows nothing active and signals nobody, and a `--done`
leaves no file of its descriptor (`AmongTheDead`: what is left of them is still to
be read, or is being removed). It is the way out of the half-written file that no
run reclaims; `--check` removes only the half-written ones and passes over whole
records of the dead.

*ExecModeProofs.* `CommandsAreCovered`: with `Phases` (the parent is past
`waitpid` only when the command has ended; only a parent that has no child dies
of a caught signal), for any signals in any number; and `TypesKept`.
`ExecImplementsHold` is the step simulation that joins the two modules: with
`DescriptorsKept` (the parent has the file open until it closes it or is gone, the
command until it ends; the file is there until it is unlinked) each step is mapped
to one of `CommandEnds`, `ReleaseClose`, `ReleaseUnlink`, `Killed`, `OrphanEnds` of
`WaitLock`, or to none. The death of the parent takes the flock with it or leaves it
with the command, which are the two alternatives of `Die`. `NoSignalLost`: a signal
that was passed on has reached the command or found it ended, the safety half of
`ForwardedSignalEnds`.

*LockDirectoryProofs.* `TypesKept`, `NoDirHasReasons`, `UsersKeptApart`,
`OneHolderWithoutRace`, from `DirectoryInv`: a run has passed only candidates
that are no good to it or that it lost (`WalkedPast`), it stays with a directory
it may write to (`FoundWritable`), and each directory has one holder. Directories
are only ever made, never removed, so whatever a run has passed stays of no use
to it; therefore two alike runs that lost no race stop at the same candidate,
the first that is of use to their user.

*InvocationProofs.* `TypesKept`, `CheckAndAcquireAgree`, `TimeoutIsInTime`, `FreeLockIsTaken`, `AlwaysLooksAgain`, `NestedIsNotRefused`, for
command lines of any length and any delays. `Sound` says of a parse under way that the limit is
at least one and the timeout at least -1; every token keeps it. The clock needs
`NapLeavesTime`: a nap leaves a tenth of what remained, or is a millisecond
long. From this `NotMuchLate` follows: whoever finds the deadline passed comes
from a nap of a millisecond, or from one whose tenth was eaten by a late step.
`NestedIsNotRefused` compares two parses of one command line. `SlotsHandedDown` says
that what a run finds in `WAITLOCK_SLOT`, where no `.slot` misled the exporter, is
the slot that one holds, and it prefers that; no option changes the preference
(`ReadPrefers`); and a parse that is accepted without a preference, with a limit
above the slot, is accepted with it (`PreferenceHarmless`). `SlotNumbersAssumption`
says that the numbers the program writes into the environment can be read back.

*ProcessCoordinatorProofs.* `TypesKept`, `OnlyTheChildIsSignalled`,
`ZombieIsDoomed`, `EndsAreClosed`, `ReadiesAreWritten` and `ChannelImplemented`.
The invariant has four parts: `KinInv` (the two processes: who may be in which
call, whose number `child_pid` is, and that a parent past its second signal has
killed the child or found it dead), `EndsInv` (a process that sends has the end
it writes to; one that prepares has the first pipe, one that destroys nothing),
`PipeType`, and `CountInv`: the waits of a peer that succeeded and the bytes `R` still
in its pipe are no more than were put in, by signals and in data. That count is what
makes `ReadiesAreWritten` inductive, because a receive may swallow a signal and a
wait may swallow data. Nothing is assumed about messages. For `ChannelImplemented` each step of the coordinator is
mapped to a step of the channel: the two preparations open the two streams,
whatever closes descriptors shuts, a fork changes nothing because the copies are
of descriptors the parent has.

**Model-checked only.** Liveness, which the prover does not reach:
`TimeoutHonoured`, `StaleLocksReclaimed`, `ForwardedSignalEnds`,
`InterruptedWaitEnds`, `Answered`, `ReceiveEnds`, `DestroyEndsChild`. Of the second
and third, and of the `flock` in the first, the parts that are safety are proved as
said above; what stays with TLC is that runs, commands and clocks go on.

## 5. What was met on the way

Besides the violations above, TLC or reading showed:

* `lock.c:225`: the `flock` after the claim blocks. Where a third run stole the
  name, a run opens *another's* file and waits in `flock` past its own timeout.
  `TimeoutHonoured` therefore holds of two runs (`PairNeverBlocks`) and not of three,
  unless the run claimed a name nobody was examining (`CleanClaimsNeverBlock`).
* `lock.c:186`: the record has a hostname, but processes are looked up by number
  on the local machine; runs on two machines that share the directory
  (`README.md:373`) reap each other's live locks. This is the `OneMachine`
  assumption of the proofs.
* `lock.c:416`: `--check` cuts the entry at its first dot, so a descriptor with a
  dot is always *available*.
* `signal.c:37`: outside exec mode SIGTERM and SIGINT leave the lock file to the
  next run; the man page (299-300) promises a release. The loop of
  `waitlock.c:95-100` is left by no signal.
* the man page (302-303) speaks of SIGUSR1 and SIGUSR2; no handler is installed
  for them, so they kill the run.
* `signal.c:15`: between the return of `waitpid` and `child_pid = 0` the handler
  signals a process id that may have been given to somebody else.
* `lock.c:199`: without `-t` an occupied lock is answered BUSY at once; the man
  page (45) and `README.md:429` call the default an infinite timeout.
* `lock.c:180`: `acquire_lock` counts every entry that begins with the
  descriptor, so the holder of `db_old` makes `db` busy; the man page (121) calls
  the descriptor a unique identifier.
* `lock.c:434`: `--check`, which is to test "without acquiring it", removes a file
  that is just being written; the run goes on to hold a lock without a file.
* `lock.c:710`: `--done db` also signals the holder of `db.old`, and
  `--done db.slot0` the holder of slot 0 of `db`.
* `lock.c:725`: a record may outlive its process, and its number be used again:
  `--done` then signals the new process, whoever that is, and `acquire_lock` (186)
  counts it as a holder. `DoneFollowsRecords` says that `--done` goes astray in these
  two ways and no other.
* `lock.c:430`: `--check` compares the holders with the limit of the last record it
  read; where limits differ, its answer depends on the order of the entries.
* `lock.c:208`: a descriptor of more than 244 characters is accepted (the limit is
  255, man page 121), but the name of its file does not fit: every `open` fails,
  and the run waits for ever or until its timeout.
* `lock.c:160`: with `-t 0` the time is up before the first look, so a free lock is
  answered TIMEOUT.
* `core.c:278`: `preferred_slot` is parsed, checked and then used by nobody, while
  the man page (125-138) says the slot of `WAITLOCK_SLOT` is attempted first. With
  a limit not above it, a nested run is refused for it.
* `core.c:247`: a longer line of standard input is cut at 255 characters without
  a word; the same descriptor as an argument is refused.
* `core.c:259`: an empty descriptor is accepted; in `acquire_lock` it matches every
  entry of the directory.
* `core.c:91`: a negative `WAITLOCK_TIMEOUT` is refused even where `-t` would take
  its place.
* `process.c:162`: a directory or a descriptor that contains `.slot` exports the
  wrong `WAITLOCK_SLOT`: with `-d /tmp/x.slot9 -m 2` it is 9, and a nested run with
  the same limit is refused.
* `lock.c:68`: the last candidate, `./waitlock`, depends on the working directory:
  alike runs started in different places do not exclude each other.
* `lock.c:515`: `--stale-only` shows nothing unless `--all` is given too, against
  the man page (69) and `README.md:266`.
* the text form of a record is never written, and a file of that form is never
  valid, since its checksum is not filled in.
* `process_coordinator.c:225`: `pc_destroy` waits with `WNOHANG` right after
  SIGKILL and may leave the zombie its comment (223) says it avoids; `child_pid`
  is not cleared by a successful wait (276), so `pc_destroy` may then signal a
  stranger. `StrangerSpared` and `ZombieOnlyAfterKill` state what does hold.
* `process_coordinator.c:167-181`: `pc_wait_for_signal` takes one byte off the pipe
  that data comes through as well (99-128). An `R` in a message passes for the ready
  signal, and any other byte it meets is lost. `ReadyWasWritten` says that each wait
  that succeeds has used up such a byte of its own.
* where SIGCHLD is ignored the child is reaped when it ends, and its number, which
  `child_pid` keeps, may be a stranger's when `pc_destroy` signals it
  (`process_coordinator.c:216`).
* `process_coordinator.c:118`: a send that fails half-way leaves its first
  bytes in the pipe, and a sender whose reader has gone dies of SIGPIPE.

## 6. What is left out, and the plan

Left out for good: the wording of messages, syslog, command lines of processes
(they only appear in messages), the columns of `--list`, the help texts, the
value of the CRC (a record is complete or it is refused) and the writer of the
text form, which nothing calls. `PipeCoordinator` is a set of accessors over one
pipe without state of its own that nothing calls either; tests and debugging
programs were read for what they expect. All runs of one instance use the
descriptors and the largest `-m` given; an entry of the directory that no
waitlock could have made does not occur. The text reader and the binary reader
are one step in `acquire_lock`, which ignores what either fails to read. Tools
are on the machine of the runs. In `ProcessCoordinator` the error texts are left
out, and so is a select that is interrupted and starts its time anew, which only
makes a receive longer. Directories are not removed, and rights do not change,
while runs look for one.

Some steps are coarser than in the code. Opening a file and reading it are one step
each time (`Visit`, `ReadBinary`): what another run writes or unlinks in between
shows as if it came before or after both. `ReadEntry` passes over an entry that is
gone, which a buffered `readdir` may still return; the open that then fails is in the
model where the entry goes after `ReadEntry`. A process that dies of a signal of
`--done` is dead when `kill` returns (`Terminate`); in the code it may live on for a
moment, so the model has it that such a run still acts before the signal. No property
speaks of what these steps run together. Where a build finds no `flock`
(`HAVE_FLOCK`), `portable_lock` uses `fcntl` (`lock.c:80-90`), which a command does
not inherit; only `flock` is modelled.

What could be proved next: for the coordinator the safety half of
`DestroyEndsChild` and `ReceiveEnds`, that no call waits for what cannot come any
more.
