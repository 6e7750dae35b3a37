------------------------------ MODULE WaitLock -------------------------------
(***************************************************************************)
(* Runs of waitlock that take a lock: acquire_lock, the hold of main or of *)
(* exec_with_lock, release_lock, and the death of a run at any point.      *)
(*                                                                         *)
(* Runs share nothing but the lock directory and the process table, so a   *)
(* step is one system call on either of them, with the local work around   *)
(* it.  Every run is one process: it starts once and ends once.            *)
(***************************************************************************)
EXTENDS LockFiles

CONSTANTS
    PidOf,       \* the process id each run gets; the kernel may reuse one
    HostOf,      \* the machine each run is on; /var/lock may be shared
    Options,     \* the command lines: mode, descriptor, -m and --timeout
    KillPoints   \* the places where a run may be killed

Acquiring == {"loop", "scan", "exists", "reap", "claim", "write", "undo", "wait"}
Claimed   == {"write", "undo", "open", "flock", "held", "close", "unlink"}
Holding   == {"open", "flock", "held", "close", "unlink"}
Live      == Acquiring \cup Claimed
Label     == {"unborn", "zombie", "ended"} \cup Live
Result    == {"none", "SUCCESS", "BUSY", "TIMEOUT"}

ASSUME OptionsAssumption ==
    Options \subseteq [mode : {"hold", "exec"}, desc : Desc,
                       max : 1 .. MaxHolders, timeout : {"none", "zero", "some"}]
ASSUME KillPointsAssumption == KillPoints \subseteq Live

VARIABLES
    files,         \* the lock directory
    written,       \* the files whose record is complete
    opts,          \* the command line of each run
    pc,            \* where each run is
    todo,          \* the entries the scan has still to visit
    active_locks,  \* the live holders the scan has counted
    at,            \* the path under examination, or claimed (lock_path)
    seen,          \* the run whose record was read last
    gen,           \* how many files the run has given up after a failed write
    lock_fd,       \* the file the run has open, if any
    flocked,       \* whether the run has that file flock()ed
    expired,       \* whether the timeout has elapsed
    ret            \* what acquire_lock returned

dirVars  == <<files, written>>
scanVars == <<todo, active_locks, seen>>
fdVars   == <<lock_fd, flocked>>
vars == <<files, written, opts, pc, todo, active_locks, at, seen, gen,
          lock_fd, flocked, expired, ret>>

SlotPath(p, slot) == [desc |-> opts[p].desc, slot |-> slot]

(* kill(pid, 0): a process that has died exists until its parent reaps it. *)
Exists(q) == pc[q] \in Live \cup {"zombie"}

(* process_exists as run p sees it: by number alone, on p's own machine. *)
ProcessExists(p, q) ==
    \E r \in Run : Exists(r) /\ PidOf[r] = PidOf[q] /\ HostOf[r] = HostOf[p]

Goto(p, label) == pc' = [pc EXCEPT ![p] = label]

TypeOK ==
    /\ files \subseteq File
    /\ written \subseteq File
    /\ opts \in [Run -> Options]
    /\ pc \in [Run -> Label]
    /\ todo \in [Run -> SUBSET Path]
    /\ active_locks \in [Run -> Nat]
    /\ at \in [Run -> Path]
    /\ seen \in [Run -> Run]
    /\ gen \in [Run -> 0 .. MaxWriteFailures]
    /\ lock_fd \in [Run -> SUBSET File]
    /\ flocked \in [Run -> BOOLEAN]
    /\ expired \in [Run -> BOOLEAN]
    /\ ret \in [Run -> Result]

Init ==
    /\ files = {}
    /\ written = {}
    /\ opts \in [Run -> Options]
    /\ pc = [p \in Run |-> "unborn"]
    /\ todo = [p \in Run |-> {}]
    /\ active_locks = [p \in Run |-> 0]
    /\ at = [p \in Run |-> SlotPath(p, 0)]
    /\ seen = [p \in Run |-> p]
    /\ gen = [p \in Run |-> 0]
    /\ lock_fd = [p \in Run |-> {}]
    /\ flocked = [p \in Run |-> FALSE]
    /\ expired = [p \in Run |-> FALSE]
    /\ ret = [p \in Run |-> "none"]

-----------------------------------------------------------------------------
(* acquire_lock: the loop and the scan *)

(* A new process gets a number no process of its machine has. *)
Start(p) ==
    /\ pc[p] = "unborn"
    /\ ~ ProcessExists(p, p)
    /\ Goto(p, "loop")
    /\ UNCHANGED <<dirVars, opts, scanVars, at, gen, fdVars, expired, ret>>

(* Mutant: the elapsed time is never compared with the timeout. *)
TimedOutNever(p) == opts[p].timeout = "zero"

TimedOut(p) == opts[p].timeout = "zero" \/ (opts[p].timeout = "some" /\ expired[p])

Return(p, result) == ret' = [ret EXCEPT ![p] = result] /\ Goto(p, "zombie")

(* A timeout that has elapsed ends the attempt before the directory is read. *)
GiveUp(p) ==
    /\ pc[p] \in {"loop", "wait"}
    /\ TimedOut(p)
    /\ Return(p, "TIMEOUT")
    /\ UNCHANGED <<dirVars, opts, scanVars, at, gen, fdVars, expired>>

BeginScan(p) ==
    /\ pc[p] = "loop"
    /\ ~ TimedOut(p)
    /\ todo' = [todo EXCEPT ![p] = AcquireMatches(opts[p].desc)]
    /\ active_locks' = [active_locks EXCEPT ![p] = 0]
    /\ Goto(p, "scan")
    /\ UNCHANGED <<dirVars, opts, seen, at, gen, fdVars, expired, ret>>

(* Mutant: an incomplete file is taken for a stale one. *)
VisitIncompleteIsStale(p) ==
    /\ pc[p] = "scan"
    /\ \E x \in todo[p] :
        /\ todo' = [todo EXCEPT ![p] = @ \ {x}]
        /\ \/ /\ FilesAt(files, x) = {}
              /\ UNCHANGED <<pc, at, seen>>
           \/ \E f \in FilesAt(files, x) :
                /\ at' = [at EXCEPT ![p] = x]
                /\ seen' = [seen EXCEPT ![p] = f.owner]
                /\ Goto(p, IF f \in written THEN "exists" ELSE "reap")
    /\ UNCHANGED <<dirVars, opts, active_locks, gen, fdVars, expired, ret>>

(* readdir() returns the entries in any order; one created or removed      *)
(* meanwhile is returned or not.  An unreadable or incomplete file is      *)
(* neither counted nor removed.                                            *)
Visit(p) ==
    /\ pc[p] = "scan"
    /\ \E x \in todo[p] :
        /\ todo' = [todo EXCEPT ![p] = @ \ {x}]
        /\ \/ /\ ValidAt(files, written, x) = {}
              /\ UNCHANGED <<pc, at, seen>>
           \/ \E f \in ValidAt(files, written, x) :
                /\ at' = [at EXCEPT ![p] = x]
                /\ seen' = [seen EXCEPT ![p] = f.owner]
                /\ Goto(p, "exists")
    /\ UNCHANGED <<dirVars, opts, active_locks, gen, fdVars, expired, ret>>

CountLive(p) ==
    /\ pc[p] = "exists"
    /\ ProcessExists(p, seen[p])
    /\ active_locks' = [active_locks EXCEPT ![p] = @ + 1]
    /\ seen' = [seen EXCEPT ![p] = p]
    /\ Goto(p, "scan")
    /\ UNCHANGED <<dirVars, opts, todo, at, gen, fdVars, expired, ret>>

(* Mutant: the process is not looked for. *)
CondemnAnyway(p) ==
    /\ pc[p] = "exists"
    /\ Goto(p, "reap")
    /\ UNCHANGED <<dirVars, opts, scanVars, at, gen, fdVars, expired, ret>>

Condemn(p) ==
    /\ pc[p] = "exists"
    /\ ~ ProcessExists(p, seen[p])
    /\ Goto(p, "reap")
    /\ UNCHANGED <<dirVars, opts, scanVars, at, gen, fdVars, expired, ret>>

(* Mutant: a stale file is passed over but not removed. *)
ReapWithoutUnlink(p) ==
    /\ pc[p] = "reap"
    /\ seen' = [seen EXCEPT ![p] = p]
    /\ Goto(p, "scan")
    /\ UNCHANGED <<dirVars, opts, todo, active_locks, at, gen, fdVars, expired, ret>>

(* unlink(check_path): by name, some time after the record was read. *)
Reap(p) ==
    /\ pc[p] = "reap"
    /\ files' = Unlink(files, at[p])
    /\ seen' = [seen EXCEPT ![p] = p]
    /\ Goto(p, "scan")
    /\ UNCHANGED <<written, opts, todo, active_locks, at, gen, fdVars, expired, ret>>

Full(p) == active_locks[p] >= opts[p].max

ScanDone(p) == pc[p] = "scan" /\ todo[p] = {}

(* timeout <= 0 fails fast, and so does the default, which is -1. *)
Busy(p) ==
    /\ ScanDone(p)
    /\ Full(p)
    /\ opts[p].timeout # "some"
    /\ Return(p, "BUSY")
    /\ UNCHANGED <<dirVars, opts, scanVars, at, gen, fdVars, expired>>

AwaitSlot(p) ==
    /\ ScanDone(p)
    /\ Full(p)
    /\ opts[p].timeout = "some"
    /\ Goto(p, "wait")
    /\ UNCHANGED <<dirVars, opts, scanVars, at, gen, fdVars, expired, ret>>

-----------------------------------------------------------------------------
(* acquire_lock: claiming a slot *)

BeginClaim(p) ==
    /\ ScanDone(p)
    /\ ~ Full(p)
    /\ at' = [at EXCEPT ![p] = SlotPath(p, 0)]
    /\ Goto(p, "claim")
    /\ UNCHANGED <<dirVars, opts, scanVars, gen, fdVars, expired, ret>>

(* Mutant: try_slot <= max_holders. *)
NextSlotOffByOne(p) ==
    IF at[p].slot < opts[p].max
    THEN at' = [at EXCEPT ![p] = SlotPath(p, at[p].slot + 1)] /\ Goto(p, "claim")
    ELSE UNCHANGED at /\ Goto(p, "wait")

(* try_slot++: on to the next slot, or to the wait when there is none. *)
NextSlot(p) ==
    IF at[p].slot + 1 < opts[p].max
    THEN at' = [at EXCEPT ![p] = SlotPath(p, at[p].slot + 1)] /\ Goto(p, "claim")
    ELSE UNCHANGED at /\ Goto(p, "wait")

NewFile(p) == [path |-> at[p], owner |-> p, gen |-> gen[p]]

(* Mutant: O_CREAT without O_EXCL, which truncates the file that is there. *)
CreateNotExclusive(p) ==
    /\ pc[p] = "claim"
    /\ files' = Unlink(files, at[p]) \cup {NewFile(p)}
    /\ Goto(p, "write")
    /\ UNCHANGED <<written, opts, scanVars, at, gen, fdVars, expired, ret>>

(* open(O_CREAT | O_EXCL) succeeds only when the name is free. *)
Create(p) ==
    /\ pc[p] = "claim"
    /\ FilesAt(files, at[p]) = {}
    /\ files' = files \cup {NewFile(p)}
    /\ Goto(p, "write")
    /\ UNCHANGED <<written, opts, scanVars, at, gen, fdVars, expired, ret>>

SlotTaken(p) ==
    /\ pc[p] = "claim"
    /\ FilesAt(files, at[p]) # {}
    /\ NextSlot(p)
    /\ UNCHANGED <<dirVars, opts, scanVars, gen, fdVars, expired, ret>>

(* The record goes to the created file, whether or not its name is still there. *)
Write(p) ==
    /\ pc[p] = "write"
    /\ written' = written \cup {NewFile(p)}
    /\ Goto(p, "open")
    /\ UNCHANGED <<files, opts, scanVars, at, gen, fdVars, expired, ret>>

WriteFails(p) ==
    /\ pc[p] = "write"
    /\ gen[p] < MaxWriteFailures
    /\ Goto(p, "undo")
    /\ UNCHANGED <<dirVars, opts, scanVars, at, gen, fdVars, expired, ret>>

(* Mutant: the file of a failed write is closed but not removed. *)
UndoWithoutUnlink(p) ==
    /\ pc[p] = "undo"
    /\ gen' = [gen EXCEPT ![p] = @ + 1]
    /\ NextSlot(p)
    /\ UNCHANGED <<dirVars, opts, scanVars, fdVars, expired, ret>>

Undo(p) ==
    /\ pc[p] = "undo"
    /\ files' = Unlink(files, at[p])
    /\ gen' = [gen EXCEPT ![p] = @ + 1]
    /\ NextSlot(p)
    /\ UNCHANGED <<written, opts, scanVars, fdVars, expired, ret>>

(* open(lock_path, O_RDONLY): whatever the name stands for now, if anything. *)
Open(p) ==
    /\ pc[p] = "open"
    /\ lock_fd' = [lock_fd EXCEPT ![p] = FilesAt(files, at[p])]
    /\ IF FilesAt(files, at[p]) = {}
       THEN Goto(p, "held") /\ ret' = [ret EXCEPT ![p] = "SUCCESS"]
       ELSE Goto(p, "flock") /\ UNCHANGED ret
    /\ UNCHANGED <<dirVars, opts, scanVars, at, gen, flocked, expired>>

(* flock(LOCK_EX) without LOCK_NB: waits for whoever has the file locked. *)
Flock(p) ==
    /\ pc[p] = "flock"
    /\ ~ \E q \in Run \ {p} : flocked[q] /\ lock_fd[q] = lock_fd[p]
    /\ flocked' = [flocked EXCEPT ![p] = TRUE]
    /\ ret' = [ret EXCEPT ![p] = "SUCCESS"]
    /\ Goto(p, "held")
    /\ UNCHANGED <<dirVars, opts, scanVars, at, gen, lock_fd, expired>>

(* No slot could be claimed: sleep, then go round the loop. *)
Sleep(p) ==
    /\ pc[p] = "wait"
    /\ ~ TimedOut(p)
    /\ Goto(p, "loop")
    /\ UNCHANGED <<dirVars, opts, scanVars, at, gen, fdVars, expired, ret>>

-----------------------------------------------------------------------------
(* Holding and releasing *)

(* waitpid() returns in exec_with_lock.  Outside exec mode nothing ends    *)
(* the hold but a signal: main's release_lock is never reached, because    *)
(* the handler raises the signal again with its default action.            *)
CommandEnds(p) ==
    /\ pc[p] = "held"
    /\ opts[p].mode = "exec"
    /\ Goto(p, "close")
    /\ UNCHANGED <<dirVars, opts, scanVars, at, gen, fdVars, expired, ret>>

ReleaseClose(p) ==
    /\ pc[p] = "close"
    /\ lock_fd' = [lock_fd EXCEPT ![p] = {}]
    /\ flocked' = [flocked EXCEPT ![p] = FALSE]
    /\ Goto(p, "unlink")
    /\ UNCHANGED <<dirVars, opts, scanVars, at, gen, expired, ret>>

ReleaseUnlink(p) ==
    /\ pc[p] = "unlink"
    /\ files' = Unlink(files, at[p])
    /\ Goto(p, "zombie")
    /\ UNCHANGED <<written, opts, scanVars, at, gen, fdVars, expired, ret>>

-----------------------------------------------------------------------------
(* The environment: the clock, signals and parent processes *)

Expire(p) ==
    /\ pc[p] \in Acquiring
    /\ opts[p].timeout = "some"
    /\ ~ expired[p]
    /\ expired' = [expired EXCEPT ![p] = TRUE]
    /\ UNCHANGED <<dirVars, opts, pc, scanVars, at, gen, fdVars, ret>>

(* The process is gone and its lock file stays.  A command already running *)
(* keeps the descriptor it inherited, and with it the flock.               *)
Die(p) ==
    /\ Goto(p, "zombie")
    /\ \/ /\ lock_fd' = [lock_fd EXCEPT ![p] = {}]
          /\ flocked' = [flocked EXCEPT ![p] = FALSE]
       \/ /\ pc[p] = "held" /\ opts[p].mode = "exec"
          /\ UNCHANGED fdVars
    /\ todo' = [todo EXCEPT ![p] = {}]
    /\ seen' = [seen EXCEPT ![p] = p]
    /\ UNCHANGED <<dirVars, opts, active_locks, at, gen, expired, ret>>

(* SIGKILL anywhere, or a caught signal while child_pid is 0: the handler  *)
(* closes lock_fd and raises the signal again, without a release.          *)
Killed(p) == pc[p] \in KillPoints /\ Die(p)

(* The command of a killed run ends and lets go of the file. *)
OrphanEnds(p) ==
    /\ pc[p] \in {"zombie", "ended"}
    /\ lock_fd[p] # {}
    /\ lock_fd' = [lock_fd EXCEPT ![p] = {}]
    /\ flocked' = [flocked EXCEPT ![p] = FALSE]
    /\ UNCHANGED <<dirVars, opts, pc, scanVars, at, gen, expired, ret>>

ParentWaits(p) ==
    /\ pc[p] = "zombie"
    /\ Goto(p, "ended")
    /\ UNCHANGED <<dirVars, opts, scanVars, at, gen, fdVars, expired, ret>>

(* Nothing left to do: every run has ended or holds its lock for good. *)
Finished ==
    /\ \A p \in Run : pc[p] = "ended" \/ (pc[p] = "held" /\ opts[p].mode = "hold")
    /\ UNCHANGED vars

-----------------------------------------------------------------------------
(* The code of one run *)
Step(p) ==
    \/ GiveUp(p) \/ BeginScan(p) \/ Visit(p) \/ CountLive(p) \/ Condemn(p)
    \/ Reap(p) \/ Busy(p) \/ AwaitSlot(p) \/ BeginClaim(p) \/ Create(p)
    \/ SlotTaken(p) \/ Write(p) \/ Undo(p) \/ Open(p) \/ Flock(p) \/ Sleep(p)
    \/ ReleaseClose(p) \/ ReleaseUnlink(p)

(* What happens to a run from outside *)
Outside(p) ==
    \/ Start(p) \/ WriteFails(p) \/ CommandEnds(p) \/ Expire(p) \/ Killed(p)
    \/ OrphanEnds(p) \/ ParentWaits(p)

Next == (\E p \in Run : Step(p) \/ Outside(p)) \/ Finished

Spec == Init /\ [][Next]_vars

(* A run that can take its next step takes it; time passes; parents reap   *)
(* their children.  Commands need not end and nobody need start.           *)
Fairness == \A p \in Run : WF_vars(Step(p)) /\ WF_vars(Expire(p)) /\ WF_vars(ParentWaits(p))

FairSpec == Spec /\ Fairness

-----------------------------------------------------------------------------
(* The runs whose acquire_lock has succeeded and that have not let go *)
Holders(d) == {p \in Run : pc[p] = "held" /\ opts[p].desc = d}

(* README.md:11-12, "Mutex Mode: Single lock holder (default)" and         *)
(* "Semaphore Mode: Multiple concurrent lock holders": a descriptor never  *)
(* has more holders than the largest -m its runs were given.               *)
MutualExclusion == \A d \in Desc : Cardinality(Holders(d)) <= MaxHolders

(* As long as nobody who got the lock has let go of it, the promise holds  *)
(* for any number of runs that race for the slots, however their scans,    *)
(* claims, failed writes and retries interleave (lock.c:176-228).          *)
RaceIsSafe ==
    (\A p \in Run : ret[p] = "SUCCESS" => pc[p] = "held") => MutualExclusion

(* The same promise as a refinement: every behaviour of the runs, deaths   *)
(* and failed writes included, is one of the abstract semaphore.           *)
Sem == INSTANCE Semaphore WITH
    Process <- Run, Name <- Desc, Limit <- MaxHolders,
    holders <- [d \in Desc |-> Holders(d)]

ImplementsSemaphore == Sem!Spec

(* Where no run is killed that has a lock file, every file in the          *)
(* directory belongs to a run that is alive and will unlink that very      *)
(* path: whatever the scans, the failed writes and the stolen names,       *)
(* nothing is left behind when all the commands have ended                 *)
(* (lock.c:208-219, 390).                                                  *)
NothingLeftBehind ==
    \A f \in files : pc[f.owner] \in Claimed /\ at[f.owner] = f.path

(* man page, "If the lock cannot be acquired within this time, the process *)
(* exits with code 2": once the timeout has elapsed, acquire_lock answers. *)
TimeoutHonoured ==
    \A p \in Run : expired[p] ~> (ret[p] # "none" \/ pc[p] \notin Live)

OthersEnded(p) == \A q \in Run \ {p} : pc[q] = "ended"

Answered(p) == ret[p] \in {"SUCCESS", "TIMEOUT"} \/ pc[p] \notin Live

(* A run that begins when every other run is dead gets the lock, or its    *)
(* timeout elapses first: complete files of dead runs are reclaimed, never *)
(* counted, and never make it answer BUSY or go round for ever             *)
(* (lock.c:186-190).                                                       *)
StaleLocksReclaimed ==
    \A p \in Run :
        (pc[p] = "loop" /\ OthersEnded(p) /\ files \subseteq written)
            ~> (Answered(p) /\ ret[p] # "BUSY")

(* README.md:13 and 519, "Locks released when process dies", "locks are    *)
(* cleaned on next access": the same, wherever the others died.            *)
AutomaticCleanup ==
    \A p \in Run :
        (pc[p] = "loop" /\ OthersEnded(p)) ~> (Answered(p) /\ ret[p] # "BUSY")
=============================================================================
