------------------------------ MODULE ExecMode -------------------------------
(***************************************************************************)
(* One run in exec mode from the moment acquire_lock has succeeded: fork,  *)
(* the command, the signals that arrive meanwhile, waitpid and the release *)
(* (exec_with_lock), with the signal handler running between any two steps *)
(* of the parent.                                                          *)
(*                                                                         *)
(* WaitLock takes all this as one place, "held", which the run leaves by   *)
(* CommandEnds or by Die; HoldsLikeWaitLock says that it may.              *)
(***************************************************************************)
EXTENDS Integers, FiniteSets

CONSTANTS
    Catchable,    \* the signals install_signal_handlers catches
    Uncatchable,  \* SIGKILL, unless nobody sends it
    MaxSignals,   \* bound: how many signals the run is sent from outside
    Semantics     \* what signal() does: "bsd" keeps the handler and restarts
                  \* system calls, "sysv" resets it and interrupts them

ASSUME MaxSignalsAssumption == MaxSignals \in Nat
ASSUME SemanticsAssumption == Semantics \subseteq {"bsd", "sysv"}
ASSUME SignalsAssumption == Catchable \cap Uncatchable = {}

VARIABLES
    pc,              \* where the parent is
    child,           \* the process of the command
    child_pid,       \* whether g_state.child_pid is set
    should_exit,     \* g_state.should_exit
    handled,         \* the signals whose handler is installed
    sent,            \* how many signals have been sent
    told,            \* whether a signal has reached the running command
    obeys,           \* whether the command ends when it gets one
    semantics,       \* which signal() this is
    sigchld_ignored, \* the caller ignores SIGCHLD: children leave no zombie
    lock_file,       \* whether the lock file is in the directory
    lock_fd          \* who has the lock file open: the command inherits it

envVars == <<obeys, semantics, sigchld_ignored>>
vars == <<pc, child, child_pid, should_exit, handled, sent, told, envVars, lock_file, lock_fd>>

Waiting == {"enter", "waitpid", "woken", "grace"}
Gone    == {"returned", "raised", "killed"}
Running == {"fresh", "command"}

TypeOK ==
    /\ pc \in {"fork", "forked", "reaped", "close", "unlink"} \cup Waiting \cup Gone
    /\ child \in {"none", "zombie", "reaped"} \cup Running
    /\ child_pid \in BOOLEAN /\ should_exit \in BOOLEAN
    /\ pc \in Waiting \cup {"reaped"} => child_pid
    /\ pc \in {"fork", "forked", "close", "unlink"} => ~ child_pid
    /\ handled \subseteq Catchable
    /\ sent \in 0 .. MaxSignals
    /\ told \in BOOLEAN /\ obeys \in BOOLEAN /\ sigchld_ignored \in BOOLEAN
    /\ semantics \in Semantics
    /\ lock_file \in BOOLEAN
    /\ lock_fd \subseteq {"parent", "child"}

Init ==
    /\ pc = "fork" /\ child = "none"
    /\ child_pid = FALSE /\ should_exit = FALSE
    /\ handled = Catchable /\ sent = 0 /\ told = FALSE
    /\ obeys \in BOOLEAN /\ semantics \in Semantics /\ sigchld_ignored \in BOOLEAN
    /\ lock_file = TRUE /\ lock_fd = {"parent"}

-----------------------------------------------------------------------------
(* The parent *)

Fork ==
    /\ pc = "fork"
    /\ pc' = "forked"
    /\ child' = "fresh"
    /\ lock_fd' = {"parent", "child"}
    /\ UNCHANGED <<child_pid, should_exit, handled, sent, told, envVars, lock_file>>

ForkFails ==
    /\ pc = "fork"
    /\ pc' = "close"
    /\ UNCHANGED <<child, child_pid, should_exit, handled, sent, told, envVars, lock_file, lock_fd>>

SetChildPid ==
    /\ pc = "forked"
    /\ child_pid' = TRUE
    /\ pc' = "enter"
    /\ UNCHANGED <<child, should_exit, handled, sent, told, envVars, lock_file, lock_fd>>

(* waitpid() is called: a signal that came before does not interrupt it. *)
EnterWait ==
    /\ pc = "enter"
    /\ pc' = "waitpid"
    /\ UNCHANGED <<child, child_pid, should_exit, handled, sent, told, envVars, lock_file, lock_fd>>

(* Mutant: waitpid() with WNOHANG. *)
ReapNoHang ==
    /\ pc = "waitpid"
    /\ pc' = "reaped"
    /\ child' = IF child = "zombie" THEN "reaped" ELSE child
    /\ UNCHANGED <<child_pid, should_exit, handled, sent, told, envVars, lock_file, lock_fd>>

Reap ==
    /\ pc = "waitpid" /\ child = "zombie"
    /\ pc' = "reaped"
    /\ child' = "reaped"
    /\ UNCHANGED <<child_pid, should_exit, handled, sent, told, envVars, lock_file, lock_fd>>

(* ECHILD: the kernel has reaped the command, whose status is lost. *)
WaitFails ==
    /\ pc = "waitpid" /\ child = "reaped"
    /\ pc' = "reaped"
    /\ UNCHANGED <<child, child_pid, should_exit, handled, sent, told, envVars, lock_file, lock_fd>>

(* kill(pid, 0) succeeds for a zombie as well. *)
CommandExists == child \in Running \cup {"zombie"}

EndCommand ==
    /\ child' = IF sigchld_ignored THEN "reaped" ELSE "zombie"
    /\ lock_fd' = lock_fd \ {"child"}

(* A signal reaches the command.  Until execvp() its handler is the        *)
(* parent's with child_pid 0, or the default: it dies.                     *)
SignalCommand ==
    IF child = "fresh"
    THEN EndCommand /\ UNCHANGED told
    ELSE told' = (told \/ child = "command") /\ UNCHANGED <<child, lock_fd>>

(* waitpid() was interrupted: SIGTERM, then sleep(1). *)
Escalate ==
    /\ pc = "woken"
    /\ IF should_exit /\ CommandExists
       THEN pc' = "grace" /\ SignalCommand
       ELSE pc' = "enter" /\ UNCHANGED <<child, told, lock_fd>>
    /\ UNCHANGED <<child_pid, should_exit, handled, sent, envVars, lock_file>>

(* Mutant: no SIGKILL after the grace period. *)
KillCommandSkipped ==
    /\ pc = "grace"
    /\ pc' = "enter"
    /\ UNCHANGED <<child, child_pid, should_exit, handled, sent, told, envVars, lock_file, lock_fd>>

(* Still there after sleep(1), which a signal may cut short: SIGKILL. *)
KillCommand ==
    /\ pc = "grace"
    /\ pc' = "enter"
    /\ IF child \in Running THEN EndCommand ELSE UNCHANGED <<child, lock_fd>>
    /\ UNCHANGED <<child_pid, should_exit, handled, sent, told, envVars, lock_file>>

(* Mutant: child_pid is left set after the command has ended. *)
ClearChildPidForgotten ==
    /\ pc = "reaped"
    /\ pc' = "close"
    /\ UNCHANGED <<child, child_pid, should_exit, handled, sent, told, envVars, lock_file, lock_fd>>

ClearChildPid ==
    /\ pc = "reaped"
    /\ child_pid' = FALSE
    /\ pc' = "close"
    /\ UNCHANGED <<child, should_exit, handled, sent, told, envVars, lock_file, lock_fd>>

ReleaseClose ==
    /\ pc = "close"
    /\ lock_fd' = lock_fd \ {"parent"}
    /\ pc' = "unlink"
    /\ UNCHANGED <<child, child_pid, should_exit, handled, sent, told, envVars, lock_file>>

ReleaseUnlink ==
    /\ pc = "unlink"
    /\ lock_file' = FALSE
    /\ pc' = "returned"
    /\ UNCHANGED <<child, child_pid, should_exit, handled, sent, told, envVars, lock_fd>>

-----------------------------------------------------------------------------
(* The command: it is executed, or is not found and exits; it may end at   *)
(* any time.                                                               *)

ExecCommand ==
    /\ child = "fresh"
    /\ child' = "command"
    /\ UNCHANGED <<pc, child_pid, should_exit, handled, sent, told, envVars, lock_file, lock_fd>>

CommandEnds ==
    /\ child \in Running
    /\ EndCommand
    /\ UNCHANGED <<pc, child_pid, should_exit, handled, sent, told, envVars, lock_file>>

-----------------------------------------------------------------------------
(* Signals sent to the run *)

(* signal_handler without a child: lock_fd is closed, the signal is raised *)
(* again with its default action, and nothing is released.                 *)
RaiseAgain ==
    /\ pc' = "raised"
    /\ lock_fd' = lock_fd \ {"parent"}
    /\ UNCHANGED <<child, told, should_exit>>

(* Mutant: the flag is set, the signal is not passed on. *)
ForwardForgotten ==
    /\ should_exit' = TRUE
    /\ UNCHANGED <<pc, child, told, lock_fd>>

(* signal_handler with a child.  Where system calls are not restarted, a   *)
(* waitpid() that has nothing to return ends with EINTR.                   *)
Forward ==
    /\ should_exit' = TRUE
    /\ SignalCommand
    /\ pc' = IF pc = "waitpid" /\ semantics = "sysv" /\ child \in Running
             THEN "woken" ELSE pc

(* Mutant: the handler does not look at child_pid. *)
HandleAlone == RaiseAgain

Handle == IF child_pid THEN Forward ELSE RaiseAgain

Deliver(s) ==
    /\ pc \notin Gone
    /\ sent < MaxSignals
    /\ sent' = sent + 1
    /\ IF s \in handled
       THEN /\ Handle
            /\ handled' = IF semantics = "sysv" THEN handled \ {s} ELSE handled
       ELSE /\ pc' = "killed"
            /\ lock_fd' = lock_fd \ {"parent"}
            /\ UNCHANGED <<child, told, should_exit, handled>>
    /\ UNCHANGED <<child_pid, envVars, lock_file>>

-----------------------------------------------------------------------------
Parent ==
    \/ Fork \/ ForkFails \/ SetChildPid \/ EnterWait \/ Reap \/ WaitFails \/ Escalate
    \/ KillCommand \/ ClearChildPid \/ ReleaseClose \/ ReleaseUnlink

(* The parent is gone and so is the command, or it goes on for good. *)
Finished == pc \in Gone /\ child \notin Running /\ UNCHANGED vars

Next ==
    \/ Parent
    \/ ExecCommand \/ CommandEnds
    \/ \E s \in Catchable \cup Uncatchable : Deliver(s)
    \/ Finished

Spec == Init /\ [][Next]_vars

(* The parent is scheduled, and a command that obeys ends when it is told. *)
Fairness ==
    /\ WF_vars(Parent)
    /\ WF_vars(ExecCommand)
    /\ WF_vars(told /\ obeys /\ CommandEnds)

FairSpec == Spec /\ Fairness

-----------------------------------------------------------------------------
(* README.md:18, "Run commands while holding locks": while the command     *)
(* runs its lock file is there, and no signal the program catches takes    *)
(* the process away that stands behind it.                                 *)
CommandUnderLock == child \in Running => lock_file /\ pc # "raised"

(* It is so once the parent knows the command's pid: the file is never     *)
(* removed under a running command, and of the signals it catches it       *)
(* survives as many as arrive (process.c:176-214, signal.c:13-21).         *)
CommandCovered ==
    child \in Running => lock_file /\ (pc = "raised" => ~ child_pid)

(* A signal the parent caught reaches the command, wherever either of them *)
(* was: a command that obeys brings the run to its end, whether the wait   *)
(* was interrupted, restarted or not yet begun (signal.c:15, process.c:188). *)
ForwardedSignalEnds == should_exit /\ obeys ~> pc \in Gone

(* ... and an interrupted wait ends the run even if the command does not   *)
(* obey: SIGKILL follows (process.c:196-207).                              *)
InterruptedWaitEnds == pc = "woken" ~> pc \in Gone

-----------------------------------------------------------------------------
(* What WaitLock sees of the run *)
run       == "run"
hostOfRun == [p \in {run} |-> "here"]
runOpts   == [mode |-> "exec", desc |-> <<"db">>, max |-> 1, timeout |-> "none"]
slot      == [desc |-> <<"db">>, slot |-> 0]
itsFile   == [path |-> slot, owner |-> run, gen |-> 0]
itsPc     == CASE pc \in {"close", "unlink"} -> pc
               [] pc \in Gone -> "zombie"
               [] OTHER -> "held"

Hold == INSTANCE WaitLock WITH
    Run <- {run}, Desc <- {<<"db">>}, MaxHolders <- 1, MaxWriteFailures <- 0,
    PidOf <- hostOfRun, HostOf <- hostOfRun, Options <- {runOpts},
    KillPoints <- {"held", "close", "unlink"},
    files <- IF lock_file THEN {itsFile} ELSE {},
    written <- {itsFile},
    opts <- [p \in {run} |-> runOpts],
    pc <- [p \in {run} |-> itsPc],
    todo <- [p \in {run} |-> {}],
    active_locks <- [p \in {run} |-> 0],
    at <- [p \in {run} |-> slot],
    seen <- [p \in {run} |-> run],
    gen <- [p \in {run} |-> 0],
    lock_fd <- [p \in {run} |-> IF lock_fd = {} THEN {} ELSE {itsFile}],
    flocked <- [p \in {run} |-> lock_fd # {}],
    expired <- [p \in {run} |-> FALSE],
    ret <- [p \in {run} |-> "SUCCESS"]

(* Every step of exec_with_lock, the handler and the command is a step of  *)
(* WaitLock's hold, release or death, or no step of it at all: what was    *)
(* checked and proved there holds of runs in exec mode.                    *)
HoldsLikeWaitLock == [][Hold!Next]_(Hold!vars)
=============================================================================
