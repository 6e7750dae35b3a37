--------------------------- MODULE ExecModeProofs ----------------------------
(***************************************************************************)
(* Theorems about ExecMode, for any signals and any number of them.        *)
(***************************************************************************)
EXTENDS ExecMode, TLAPS

USE MaxSignalsAssumption, SemanticsAssumption

(* The parent gets past waitpid() only when the command has ended, and     *)
(* only a parent that knows the pid survives a signal.                     *)
Phases ==
    /\ pc \in {"fork", "reaped", "close", "unlink", "returned"} => child \notin Running
    /\ lock_file \/ pc = "returned"
    /\ pc = "raised" => ~ child_pid \/ child \notin Running

CoveredInv == TypeOK /\ Phases

LEMMA CoveredInit == Init => CoveredInv
<1> SUFFICES ASSUME Init PROVE CoveredInv
  OBVIOUS
<1>1. TypeOK
  <2>1. 0 \in 0 .. MaxSignals
    OBVIOUS
  <2> QED
    BY <2>1 DEF Init, TypeOK, Waiting
<1>2. Phases
  BY DEF Init, Phases, Running
<1> QED
  BY <1>1, <1>2 DEF CoveredInv

(* Every step of exec_with_lock keeps the invariant. *)
LEMMA ParentKeeps == CoveredInv /\ Parent => CoveredInv'
<1> SUFFICES ASSUME CoveredInv, Parent PROVE CoveredInv'
  OBVIOUS
<1> USE DEF CoveredInv, TypeOK, Phases, Waiting, Gone, Running, envVars
<1>1. CASE Fork
  BY <1>1 DEF Fork
<1>2. CASE ForkFails
  BY <1>2 DEF ForkFails
<1>3. CASE SetChildPid
  BY <1>3 DEF SetChildPid
<1>4. CASE EnterWait
  BY <1>4 DEF EnterWait
<1>5. CASE Reap
  BY <1>5 DEF Reap
<1>6. CASE WaitFails
  BY <1>6 DEF WaitFails
<1>7. CASE Escalate
  BY <1>7 DEF Escalate, CommandExists, SignalCommand, EndCommand
<1>8. CASE KillCommand
  BY <1>8 DEF KillCommand, EndCommand
<1>9. CASE ClearChildPid
  BY <1>9 DEF ClearChildPid
<1>10. CASE ReleaseClose
  BY <1>10 DEF ReleaseClose
<1>11. CASE ReleaseUnlink
  BY <1>11 DEF ReleaseUnlink
<1> QED
  BY <1>1, <1>2, <1>3, <1>4, <1>5, <1>6, <1>7, <1>8, <1>9, <1>10, <1>11 DEF Parent

(* ... and so does a signal, wherever it finds the parent. *)
LEMMA SignalKeeps ==
    ASSUME CoveredInv, NEW s \in Catchable \cup Uncatchable, Deliver(s)
    PROVE  CoveredInv'
<1> USE DEF CoveredInv, TypeOK, Phases, Waiting, Gone, Running, envVars
<1>1. sent' \in 0 .. MaxSignals
  BY DEF Deliver
<1>2. CASE s \in handled /\ child_pid
  BY <1>1, <1>2 DEF Deliver, Handle, Forward, SignalCommand, EndCommand
<1>3. CASE s \in handled /\ ~ child_pid
  BY <1>1, <1>3 DEF Deliver, Handle, RaiseAgain
<1>4. CASE s \notin handled
  BY <1>1, <1>4 DEF Deliver
<1> QED
  BY <1>2, <1>3, <1>4

LEMMA CoveredStep == CoveredInv /\ [Next]_vars => CoveredInv'
<1> SUFFICES ASSUME CoveredInv, [Next]_vars PROVE CoveredInv'
  OBVIOUS
<1> USE DEF CoveredInv, TypeOK, Phases, Waiting, Gone, Running, envVars
<1>1. CASE Parent
  BY <1>1, ParentKeeps
<1>2. CASE ExecCommand
  BY <1>2 DEF ExecCommand
<1>3. CASE CommandEnds
  BY <1>3 DEF CommandEnds, EndCommand
<1>4. CASE \E s \in Catchable \cup Uncatchable : Deliver(s)
  BY <1>4, SignalKeeps
<1>5. CASE UNCHANGED vars
  BY <1>5 DEF vars
<1> QED
  BY <1>1, <1>2, <1>3, <1>4, <1>5 DEF Next, Finished

(* A command of a parent that knows its pid runs under the lock file and   *)
(* a live parent, whatever caught signals arrive, and however many         *)
(* (process.c:176-214, signal.c:13-21).                                    *)
THEOREM CommandsAreCovered == Spec => []CommandCovered
<1>1. CoveredInv => CommandCovered
  BY DEF CoveredInv, TypeOK, Phases, CommandCovered, Running
<1> QED
  BY <1>1, CoveredInit, CoveredStep, PTL DEF Spec

(* The state keeps its type: every signal, fork and failure leaves parent  *)
(* and command in a phase the others know of.                              *)
THEOREM TypesKept == Spec => []TypeOK
<1>1. CoveredInv => TypeOK
  BY DEF CoveredInv
<1> QED
  BY <1>1, CoveredInit, CoveredStep, PTL DEF Spec

-----------------------------------------------------------------------------
(* The hold of WaitLock *)

(* The parent has the file open until it closes it or is gone, the command *)
(* until it ends; the file stays in the directory until it is unlinked.    *)
DescriptorsKept ==
    /\ "child" \in lock_fd <=> child \in Running
    /\ "parent" \in lock_fd <=> pc \notin Gone \cup {"unlink"}
    /\ lock_file <=> pc # "returned"

HoldInv == CoveredInv /\ DescriptorsKept

LEMMA HoldInit == Init => HoldInv
BY CoveredInit DEF Init, HoldInv, DescriptorsKept, Running, Gone

LEMMA HoldStep == HoldInv /\ [Next]_vars => HoldInv'
<1> SUFFICES ASSUME HoldInv, [Next]_vars PROVE DescriptorsKept'
  BY CoveredStep DEF HoldInv
<1> USE DEF HoldInv, CoveredInv, TypeOK, Phases, DescriptorsKept, Waiting, Gone, Running, envVars
<1>1. CASE Parent
  <2>1. CASE Fork \/ ForkFails \/ SetChildPid \/ EnterWait \/ Reap \/ WaitFails
    BY <2>1 DEF Fork, ForkFails, SetChildPid, EnterWait, Reap, WaitFails
  <2>2. CASE Escalate \/ KillCommand
    BY <2>2 DEF Escalate, KillCommand, SignalCommand, EndCommand, CommandExists
  <2>3. CASE ClearChildPid \/ ReleaseClose \/ ReleaseUnlink
    BY <2>3 DEF ClearChildPid, ReleaseClose, ReleaseUnlink
  <2> QED
    BY <1>1, <2>1, <2>2, <2>3 DEF Parent
<1>2. CASE ExecCommand \/ CommandEnds
  BY <1>2 DEF ExecCommand, CommandEnds, EndCommand
<1>3. CASE \E s \in Catchable \cup Uncatchable : Deliver(s)
  <2>1. PICK s \in Catchable \cup Uncatchable : Deliver(s)
    BY <1>3
  <2>2. CASE s \in handled /\ child_pid
    BY <2>1, <2>2 DEF Deliver, Handle, Forward, SignalCommand, EndCommand
  <2>3. CASE s \in handled /\ ~ child_pid
    BY <2>1, <2>3 DEF Deliver, Handle, RaiseAgain
  <2>4. CASE s \notin handled
    BY <2>1, <2>4 DEF Deliver
  <2> QED
    BY <2>2, <2>3, <2>4
<1>4. CASE UNCHANGED vars
  BY <1>4 DEF vars
<1> QED
  BY <1>1, <1>2, <1>3, <1>4 DEF Next, Finished

(* Nothing happens in WaitLock's view while the place, the file and the    *)
(* fact that somebody has it open stay what they are.                      *)
LEMMA Unseen ==
    ASSUME itsPc' = itsPc, lock_file' = lock_file, lock_fd' = {} <=> lock_fd = {}
    PROVE  UNCHANGED Hold!vars
BY DEF Hold!vars

LEMMA StartsRelease ==
    ASSUME itsPc = "held", itsPc' = "close", lock_file' = lock_file, lock_fd' = lock_fd
    PROVE  Hold!CommandEnds(run)
BY DEF Hold!CommandEnds, Hold!Goto, Hold!dirVars, Hold!scanVars, Hold!fdVars, runOpts

LEMMA Closes ==
    ASSUME itsPc = "close", itsPc' = "unlink", lock_file' = lock_file, lock_fd' = {}
    PROVE  Hold!ReleaseClose(run)
BY DEF Hold!ReleaseClose, Hold!Goto, Hold!dirVars, Hold!scanVars

LEMMA Unlinks ==
    ASSUME itsPc = "unlink", itsPc' = "zombie", ~ lock_file', lock_fd' = lock_fd
    PROVE  Hold!ReleaseUnlink(run)
BY DEF Hold!ReleaseUnlink, Hold!Goto, Hold!Unlink, Hold!scanVars, Hold!fdVars, itsFile

(* A parent that dies takes the descriptor with it, unless a command has   *)
(* it too.                                                                 *)
LEMMA Dies ==
    ASSUME itsPc \in {"held", "close", "unlink"}, itsPc' = "zombie", lock_file' = lock_file,
           lock_fd' = {} \/ (itsPc = "held" /\ lock_fd # {})
    PROVE  Hold!Killed(run)
BY DEF Hold!Killed, Hold!Die, Hold!Goto, Hold!dirVars, Hold!fdVars, runOpts

LEMMA OrphanLetsGo ==
    ASSUME itsPc = "zombie", itsPc' = "zombie", lock_file' = lock_file, lock_fd # {}, lock_fd' = {}
    PROVE  Hold!OrphanEnds(run)
BY DEF Hold!OrphanEnds, Hold!dirVars, Hold!scanVars

LEMMA ParentSimulates ==
    ASSUME HoldInv, HoldInv', Parent
    PROVE  \/ UNCHANGED Hold!vars
           \/ Hold!CommandEnds(run) \/ Hold!ReleaseClose(run) \/ Hold!ReleaseUnlink(run)
<1> USE DEF HoldInv, DescriptorsKept, Gone
<1>1. CASE Fork \/ SetChildPid \/ EnterWait \/ Reap \/ WaitFails \/ Escalate \/ KillCommand
  <2>1. /\ pc \in {"fork", "forked"} \cup Waiting
        /\ pc' \in {"forked", "reaped"} \cup Waiting
        /\ lock_file' = lock_file
    BY <1>1 DEF Fork, SetChildPid, EnterWait, Reap, WaitFails, Escalate, KillCommand, Waiting
  <2>2. itsPc = "held" /\ itsPc' = "held" /\ lock_fd # {} /\ lock_fd' # {}
    BY <2>1 DEF itsPc, Waiting
  <2> QED
    BY <2>1, <2>2, Unseen
<1>2. CASE ForkFails \/ ClearChildPid
  <2>1. itsPc = "held" /\ itsPc' = "close" /\ lock_file' = lock_file /\ lock_fd' = lock_fd
    BY <1>2 DEF ForkFails, ClearChildPid, itsPc
  <2> QED
    BY <2>1, StartsRelease
<1>3. CASE ReleaseClose
  <2>1. itsPc = "close" /\ itsPc' = "unlink" /\ lock_file' = lock_file
    BY <1>3 DEF ReleaseClose, itsPc
  <2>2. lock_fd' = {}
    BY <1>3 DEF ReleaseClose, CoveredInv, TypeOK, Phases
  <2> QED
    BY <2>1, <2>2, Closes
<1>4. CASE ReleaseUnlink
  <2>1. itsPc = "unlink" /\ itsPc' = "zombie" /\ ~ lock_file' /\ lock_fd' = lock_fd
    BY <1>4 DEF ReleaseUnlink, itsPc
  <2> QED
    BY <2>1, Unlinks
<1> QED
  BY <1>1, <1>2, <1>3, <1>4 DEF Parent

(* The command, before and after its parent is gone *)
LEMMA CommandSimulates ==
    ASSUME HoldInv, HoldInv', ExecCommand \/ CommandEnds
    PROVE  UNCHANGED Hold!vars \/ Hold!OrphanEnds(run)
<1> USE DEF HoldInv, DescriptorsKept, CoveredInv, TypeOK, Phases, Gone, Running
<1>1. pc' = pc /\ lock_file' = lock_file /\ itsPc' = itsPc
  BY DEF ExecCommand, CommandEnds, itsPc
<1>2. CASE ExecCommand
  BY <1>1, <1>2, Unseen DEF ExecCommand
<1>3. CASE CommandEnds /\ pc \notin Gone
  <2>1. lock_fd # {} /\ lock_fd' # {}
    BY <1>1, <1>3 DEF CommandEnds
  <2> QED
    BY <1>1, <2>1, Unseen
<1>4. CASE CommandEnds /\ pc \in Gone
  <2>1. itsPc = "zombie" /\ lock_fd # {} /\ lock_fd' = {}
    BY <1>4 DEF CommandEnds, EndCommand, itsPc
  <2> QED
    BY <1>1, <2>1, OrphanLetsGo
<1> QED
  BY <1>2, <1>3, <1>4

(* A signal: passed on to the command, or the end of the parent *)
LEMMA SignalSimulates ==
    ASSUME HoldInv, HoldInv', NEW s \in Catchable \cup Uncatchable, Deliver(s)
    PROVE  UNCHANGED Hold!vars \/ Hold!Killed(run)
<1> USE DEF HoldInv, DescriptorsKept, CoveredInv, TypeOK, Phases, Waiting, Gone, Running
<1>1. lock_file' = lock_file /\ pc \notin Gone
  BY DEF Deliver
<1>2. CASE s \in handled /\ child_pid
  <2>1. pc \in Waiting \cup {"reaped"} /\ pc' \in Waiting \cup {"reaped"}
    BY <1>1, <1>2 DEF Deliver, Handle, Forward
  <2>2. itsPc = "held" /\ itsPc' = "held" /\ lock_fd # {} /\ lock_fd' # {}
    BY <2>1 DEF itsPc
  <2> QED
    BY <1>1, <2>2, Unseen
<1>3. CASE ~ (s \in handled /\ child_pid)
  <2>1. pc' \in {"raised", "killed"} /\ lock_fd' = lock_fd \ {"parent"} /\ child' = child
    BY <1>3 DEF Deliver, Handle, RaiseAgain
  <2>2. itsPc \in {"held", "close", "unlink"} /\ itsPc' = "zombie"
    BY <1>1, <2>1 DEF itsPc
  <2>3. lock_fd' = {} \/ (itsPc = "held" /\ lock_fd # {})
    BY <1>1, <2>1 DEF itsPc
  <2> QED
    BY <1>1, <2>2, <2>3, Dies
<1> QED
  BY <1>2, <1>3

(* Exec mode refines the hold of WaitLock: whatever the command, the       *)
(* parent and any number of signals do is a step of a run that holds,      *)
(* releases or dies there, or is not seen there at all (process.c:143-214, *)
(* signal.c:8-38).                                                         *)
THEOREM ExecImplementsHold == Spec => HoldsLikeWaitLock
<1>1. HoldInv /\ HoldInv' /\ [Next]_vars => [Hold!Next]_(Hold!vars)
  <2> SUFFICES ASSUME HoldInv, HoldInv', [Next]_vars PROVE Hold!Next \/ UNCHANGED Hold!vars
    OBVIOUS
  <2>1. CASE Parent
    BY <2>1, ParentSimulates DEF Hold!Next, Hold!Step, Hold!Outside
  <2>2. CASE ExecCommand \/ CommandEnds
    BY <2>2, CommandSimulates DEF Hold!Next, Hold!Outside
  <2>3. CASE \E s \in Catchable \cup Uncatchable : Deliver(s)
    BY <2>3, SignalSimulates DEF Hold!Next, Hold!Outside
  <2>4. CASE UNCHANGED vars
    BY <2>4, Unseen DEF vars, itsPc
  <2> QED
    BY <2>1, <2>2, <2>3, <2>4 DEF Next, Finished
<1>2. HoldInv /\ [Next]_vars => HoldInv'
  BY HoldStep
<1> QED
  BY <1>1, <1>2, HoldInit, PTL DEF Spec, HoldsLikeWaitLock

-----------------------------------------------------------------------------
(* Signals that were caught *)

(* A signal that the handler passed on has reached the command, unless     *)
(* that had ended or died of it before execvp; and nothing but such a      *)
(* signal interrupts waitpid().                                            *)
SignalReaches ==
    /\ should_exit => child \notin Running \/ (child = "command" /\ told)
    /\ pc \in {"woken", "grace"} => should_exit

ReachInv == CoveredInv /\ SignalReaches /\ (pc = "fork" => ~ should_exit)

LEMMA ReachStep == ReachInv /\ [Next]_vars => ReachInv'
<1> SUFFICES ASSUME ReachInv, [Next]_vars PROVE ReachInv'
  OBVIOUS
<1>1. CoveredInv'
  BY CoveredStep DEF ReachInv
<1> USE DEF CoveredInv, TypeOK, ReachInv, SignalReaches, Waiting, Gone, Running, envVars
<1>2. CASE Parent
  <2>1. CASE Escalate \/ KillCommand
    BY <1>1, <2>1 DEF Escalate, KillCommand, CommandExists, SignalCommand, EndCommand
  <2>2. CASE ~ Escalate /\ ~ KillCommand
    BY <1>1, <1>2, <2>2 DEF Parent, Fork, ForkFails, SetChildPid, EnterWait, Reap,
       WaitFails, ClearChildPid, ReleaseClose, ReleaseUnlink
  <2> QED
    BY <2>1, <2>2
<1>3. CASE ExecCommand \/ CommandEnds
  BY <1>1, <1>3 DEF ExecCommand, CommandEnds, EndCommand
<1>4. CASE \E s \in Catchable \cup Uncatchable : Deliver(s)
  <2>1. CASE child_pid
    BY <1>1, <1>4, <2>1 DEF Deliver, Handle, Forward, SignalCommand, EndCommand
  <2>2. CASE ~ child_pid
    BY <1>1, <1>4, <2>2 DEF Deliver, Handle, RaiseAgain
  <2> QED
    BY <2>1, <2>2
<1>5. CASE UNCHANGED vars
  BY <1>1, <1>5 DEF vars
<1> QED
  BY <1>2, <1>3, <1>4, <1>5 DEF Next, Finished

(* No signal that the handler passes on is lost, be it before execvp or    *)
(* before waitpid: the safety half of ForwardedSignalEnds.  What remains   *)
(* of it is that a command that obeys ends, and that the parent is         *)
(* scheduled (signal.c:13-21, process.c:188-207).                          *)
THEOREM NoSignalLost == Spec => []SignalReaches
<1>1. Init => ReachInv
  BY CoveredInit DEF Init, ReachInv, SignalReaches
<1>2. ReachInv => SignalReaches
  BY DEF ReachInv
<1> QED
  BY <1>1, <1>2, ReachStep, PTL DEF Spec
=============================================================================
