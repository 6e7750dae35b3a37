------------------------- MODULE ProcessCoordinator -------------------------
(***************************************************************************)
(* Two processes that talk over the pipes of a ProcessCoordinator: the     *)
(* tests of waitlock use it to line up a parent and the child it forks.    *)
(* Either may make any call of the interface at any time, and either may   *)
(* end at any time.  A pipe is named for the peer that reads it.           *)
(***************************************************************************)
EXTENDS Integers, Sequences, FiniteSets

CONSTANTS
    Byte,      \* what a data message consists of
    Messages,  \* the data messages in use
    Capacity,  \* how many bytes a pipe holds
    MaxBytes   \* bound: how many bytes each peer asks to send

Ready == "R"  \* the byte of pc_child_signal_ready; data may contain it too

ASSUME MessagesAssumption == Messages \subseteq Seq(Byte)
Peer == {"parent", "child"}

ASSUME CapacityAssumption == Capacity \in Nat \ {0}
ASSUME MaxBytesAssumption == MaxBytes \in [Peer -> Nat]

Other(x) == IF x = "parent" THEN "child" ELSE "parent"

End == [to : Peer, way : {"read", "write"}]

ReadEnd(x)  == [to |-> x, way |-> "read"]
WriteEnd(x) == [to |-> Other(x), way |-> "write"]
Ends(x)     == {e \in End : e.to = x}

VARIABLES
    role,        \* pc->role of each copy
    fds,         \* the ends each process has open
    pipe,        \* pipe[x]: the bytes in the pipe that x reads
    call,        \* the call each process is in
    answer,      \* what its last receive has returned
    proc,        \* the two processes
    child_pid,   \* whether the parent's pc->child_pid is set
    pid,         \* who has the number that is in it
    doomed,      \* whether the child has been sent SIGKILL
    waited,      \* history: pc_parent_wait_for_child_exit has succeeded
    struck,      \* history: a process other than the child got a signal
    asked,       \* how many bytes each peer has asked to send
    signalled,   \* history: how many ready signals it has put into the pipe
    stray,       \* history: how many bytes like it, as parts of data
    readied,     \* history: how often its wait for one has succeeded
    sigchld_ignored  \* whether the parent was started with SIGCHLD ignored

kin     == <<proc, child_pid, pid, doomed, waited, struck, sigchld_ignored>>
history == <<asked, signalled, stray, readied>>
vars    == <<role, fds, pipe, call, answer, kin, history>>

Idle == [op |-> "idle", left |-> <<>>, patient |-> FALSE]

Sending   == {"send", "signal"}
Receiving == {"receive", "expect"}
Destroying == {"term", "grace", "reap"}

TypeOK ==
    /\ role \in [Peer -> {"UNSET", "PREPARED", "PARENT", "CHILD", "FREED"}]
    /\ role["parent"] # "CHILD" /\ role["child"] # "PARENT"
    /\ fds \in [Peer -> SUBSET End]
    /\ \A x \in Peer : pipe[x] \in Seq(Byte \cup {Ready}) /\ Len(pipe[x]) <= Capacity
    /\ \A x \in Peer : call[x].op \in {"idle", "prepare", "wait"} \cup Sending \cup Receiving \cup Destroying
    /\ \A x \in Peer : proc[x] # "running" => call[x] = Idle /\ fds[x] = {}
    /\ proc["parent"] \in {"running", "gone"}
    /\ proc["child"] \in {"none", "running", "zombie", "gone"}
    /\ child_pid \in BOOLEAN /\ doomed \in BOOLEAN /\ waited \in BOOLEAN /\ struck \in BOOLEAN
    /\ pid \in {"child", "nobody", "stranger"}
    /\ pid = "child" <=> proc["child"] \in {"running", "zombie"}
    /\ sigchld_ignored \in BOOLEAN
    /\ \A x \in Peer : asked[x] \in 0 .. MaxBytes[x]
    /\ signalled \in [Peer -> Nat] /\ stray \in [Peer -> Nat] /\ readied \in [Peer -> Nat]

Init ==
    /\ role = [x \in Peer |-> "UNSET"]
    /\ fds = [x \in Peer |-> {}]
    /\ pipe = [x \in Peer |-> <<>>]
    /\ call = [x \in Peer |-> Idle]
    /\ answer = [x \in Peer |-> [kind |-> "none", bytes |-> <<>>]]
    /\ proc = [parent |-> "running", child |-> "none"]
    /\ child_pid = FALSE /\ pid = "nobody" /\ doomed = FALSE
    /\ waited = FALSE /\ struck = FALSE /\ sigchld_ignored \in BOOLEAN
    /\ asked = [x \in Peer |-> 0]
    /\ signalled = [x \in Peer |-> 0] /\ stray = [x \in Peer |-> 0] /\ readied = [x \in Peer |-> 0]

Free(x) == proc[x] = "running" /\ call[x] = Idle

Linked(x) == role[x] = IF x = "parent" THEN "PARENT" ELSE "CHILD"

Calls(x, c)   == call' = [call EXCEPT ![x] = c]
Returns(x)    == Calls(x, Idle)
Answer(x, kind, bytes) == answer' = [answer EXCEPT ![x] = [kind |-> kind, bytes |-> bytes]]

-----------------------------------------------------------------------------
(* pc_prepare_fork, fork, pc_after_fork_parent and pc_after_fork_child *)

PrepareFirst ==
    /\ Free("parent") /\ role["parent"] = "UNSET"
    /\ fds' = [fds EXCEPT !["parent"] = Ends("child")]
    /\ Calls("parent", [Idle EXCEPT !.op = "prepare"])
    /\ UNCHANGED <<role, pipe, answer, kin, history>>

PrepareSecond ==
    /\ call["parent"].op = "prepare"
    /\ fds' = [fds EXCEPT !["parent"] = End]
    /\ role' = [role EXCEPT !["parent"] = "PREPARED"]
    /\ Returns("parent")
    /\ UNCHANGED <<pipe, answer, kin, history>>

(* Mutant: the first pipe stays open when the second cannot be made. *)
PrepareFailsLeaky ==
    /\ call["parent"].op = "prepare"
    /\ Returns("parent")
    /\ UNCHANGED <<role, fds, pipe, answer, kin, history>>

PrepareFails ==
    /\ call["parent"].op = "prepare"
    /\ fds' = [fds EXCEPT !["parent"] = @ \ Ends("child")]
    /\ Returns("parent")
    /\ UNCHANGED <<role, pipe, answer, kin, history>>

(* The caller forks once, after pc_prepare_fork: the child gets a copy of  *)
(* the structure and of every descriptor.                                  *)
Fork ==
    /\ Free("parent") /\ role["parent"] = "PREPARED" /\ proc["child"] = "none"
    /\ proc' = [proc EXCEPT !["child"] = "running"]
    /\ pid' = "child"
    /\ role' = [role EXCEPT !["child"] = "PREPARED"]
    /\ fds' = [fds EXCEPT !["child"] = fds["parent"]]
    /\ UNCHANGED <<pipe, call, answer, child_pid, doomed, waited, struck, sigchld_ignored, history>>

(* Mutant: the parent keeps the end the child writes to. *)
AfterForkParentKeepsEnd ==
    /\ Free("parent") /\ role["parent"] = "PREPARED" /\ proc["child"] # "none"
    /\ role' = [role EXCEPT !["parent"] = "PARENT"]
    /\ child_pid' = TRUE
    /\ fds' = [fds EXCEPT !["parent"] = @ \ {ReadEnd("child")}]
    /\ UNCHANGED <<pipe, call, answer, proc, pid, doomed, waited, struck, sigchld_ignored, history>>

AfterForkParent ==
    /\ Free("parent") /\ role["parent"] = "PREPARED" /\ proc["child"] # "none"
    /\ role' = [role EXCEPT !["parent"] = "PARENT"]
    /\ child_pid' = TRUE
    /\ fds' = [fds EXCEPT !["parent"] = @ \ {ReadEnd("child"), WriteEnd("child")}]
    /\ UNCHANGED <<pipe, call, answer, proc, pid, doomed, waited, struck, sigchld_ignored, history>>

(* Mutant: the child takes the role of the parent. *)
AfterForkChildAsParent ==
    /\ Free("child") /\ role["child"] = "PREPARED"
    /\ role' = [role EXCEPT !["child"] = "PARENT"]
    /\ fds' = [fds EXCEPT !["child"] = @ \ {ReadEnd("parent"), WriteEnd("parent")}]
    /\ UNCHANGED <<pipe, call, answer, kin, history>>

AfterForkChild ==
    /\ Free("child") /\ role["child"] = "PREPARED"
    /\ role' = [role EXCEPT !["child"] = "CHILD"]
    /\ fds' = [fds EXCEPT !["child"] = @ \ {ReadEnd("parent"), WriteEnd("parent")}]
    /\ UNCHANGED <<pipe, call, answer, kin, history>>

-----------------------------------------------------------------------------
(* How a process ends, by itself or by a signal: its descriptors are       *)
(* closed; the child stays a zombie while it has a parent, unless that     *)
(* ignores SIGCHLD: then it is reaped at once and its number is free.      *)

Exit(x) ==
    /\ proc[x] = "running"
    /\ fds' = [fds EXCEPT ![x] = {}]
    /\ Returns(x)
    /\ \/ /\ x = "child" /\ proc["parent"] = "running" /\ ~ sigchld_ignored
          /\ proc' = [proc EXCEPT ![x] = "zombie"]
          /\ UNCHANGED pid
       \/ /\ x = "child" /\ (proc["parent"] = "gone" \/ sigchld_ignored)
          /\ proc' = [proc EXCEPT ![x] = "gone"]
          /\ pid' = "nobody"
       \/ /\ x = "parent"
          /\ proc' = [proc EXCEPT ![x] = "gone",
                                  !["child"] = IF @ = "zombie" THEN "gone" ELSE @]
          /\ pid' = IF proc["child"] = "zombie" THEN "nobody" ELSE pid
    /\ UNCHANGED <<role, pipe, answer, child_pid, doomed, waited, struck, sigchld_ignored, history>>

(* The number of a process that has been reaped is given to a new one. *)
PidReused ==
    /\ pid = "nobody" /\ proc["child"] = "gone"
    /\ pid' = "stranger"
    /\ UNCHANGED <<role, fds, pipe, call, answer, proc, child_pid, doomed, waited, struck, sigchld_ignored, history>>

-----------------------------------------------------------------------------
(* pc_send, with data or for pc_send_signal.  A write may be done in       *)
(* several parts when the pipe is full, and a signal may interrupt it      *)
(* between two of them.                                                    *)

Sends(x, op, m) ==
    /\ Free(x) /\ Linked(x) /\ WriteEnd(x) \in fds[x]
    /\ asked[x] + Len(m) <= MaxBytes[x]
    /\ asked' = [asked EXCEPT ![x] = @ + Len(m)]
    /\ Calls(x, [Idle EXCEPT !.op = op, !.left = m])
    /\ UNCHANGED <<role, fds, pipe, answer, kin, signalled, stray, readied>>

CallSend(x) == \E m \in Messages : Sends(x, "send", m)

CallSignal(x) == Sends(x, "signal", <<Ready>>)

Readies(s) == {i \in 1 .. Len(s) : s[i] = Ready}

HasReader(x) == \E p \in Peer : ReadEnd(x) \in fds[p]

(* The bytes that fit; the call returns when the last one is in the pipe. *)
Write(x) ==
    LET left == call[x].left
        room == Capacity - Len(pipe[Other(x)])
        n    == IF Len(left) < room THEN Len(left) ELSE room
    IN  /\ call[x].op \in Sending /\ n > 0 /\ HasReader(Other(x))
        /\ pipe' = [pipe EXCEPT ![Other(x)] = @ \o SubSeq(left, 1, n)]
        /\ call' = [call EXCEPT ![x] =
                      IF n = Len(left) THEN Idle ELSE [@ EXCEPT !.left = SubSeq(left, n + 1, Len(left))]]
        /\ IF call[x].op = "signal"
           THEN signalled' = [signalled EXCEPT ![x] = @ + 1] /\ UNCHANGED stray
           ELSE /\ stray' = [stray EXCEPT ![x] = @ + Cardinality(Readies(SubSeq(left, 1, n)))]
                /\ UNCHANGED signalled
        /\ UNCHANGED <<role, fds, answer, kin, asked, readied>>

(* Not all data could be written: pc_send fails, and what is in the pipe   *)
(* stays there.                                                            *)
WriteInterrupted(x) ==
    /\ call[x].op \in Sending
    /\ Returns(x)
    /\ UNCHANGED <<role, fds, pipe, answer, kin, history>>

(* Nobody reads: SIGPIPE ends the process (Exit), and pc_send returns an   *)
(* error in one that ignores it.                                           *)
WriteToNobody(x) ==
    /\ call[x].op \in Sending /\ ~ HasReader(Other(x))
    /\ Returns(x)
    /\ UNCHANGED <<role, fds, pipe, answer, kin, history>>

-----------------------------------------------------------------------------
(* pc_receive and pc_wait_for_signal.  With a timeout of zero or less the  *)
(* call is patient: select() has no timeout.  Nobody else reads the pipe,  *)
(* so what select() has found is still there for read().                   *)

CallReceive(x) ==
    /\ Free(x) /\ Linked(x) /\ ReadEnd(x) \in fds[x]
    /\ \E op \in Receiving, patient \in BOOLEAN :
         Calls(x, [Idle EXCEPT !.op = op, !.patient = patient])
    /\ UNCHANGED <<role, fds, pipe, answer, kin, history>>

HasWriter(x) == \E p \in Peer : WriteEnd(x) \in fds[p]

Take(x, n) ==
    /\ pipe' = [pipe EXCEPT ![x] = SubSeq(@, n + 1, Len(@))]
    /\ Answer(x, "data", SubSeq(pipe[x], 1, n))
    /\ Returns(x)

(* read() with room for n bytes returns what is there, be it half a        *)
(* message or two.                                                         *)
Receive(x) ==
    /\ call[x].op = "receive"
    /\ \E n \in 1 .. Len(pipe[x]) : Take(x, n)
    /\ UNCHANGED <<role, fds, kin, history>>

(* Mutant: any byte will do. *)
ExpectAnything(x) ==
    /\ call[x].op = "expect" /\ pipe[x] # <<>>
    /\ Take(x, 1)
    /\ readied' = [readied EXCEPT ![x] = @ + 1]
    /\ UNCHANGED <<role, fds, kin, asked, signalled, stray>>

(* One byte is taken off the pipe, whether it is the expected one or not. *)
Expect(x) ==
    /\ call[x].op = "expect" /\ pipe[x] # <<>>
    /\ Take(x, 1)
    /\ readied' = [readied EXCEPT ![x] = IF Head(pipe[x]) = Ready THEN @ + 1 ELSE @]
    /\ UNCHANGED <<role, fds, kin, asked, signalled, stray>>

(* Mutant: a peer that has gone is noticed before what it had written. *)
ReceiveClosedEarly(x) ==
    /\ call[x].op \in Receiving /\ ~ HasWriter(Other(x))
    /\ Answer(x, "closed", <<>>)
    /\ Returns(x)
    /\ UNCHANGED <<role, fds, pipe, kin, history>>

(* read() returns zero: "Pipe closed unexpectedly". *)
ReceiveClosed(x) ==
    /\ call[x].op \in Receiving /\ pipe[x] = <<>> /\ ~ HasWriter(Other(x))
    /\ Answer(x, "closed", <<>>)
    /\ Returns(x)
    /\ UNCHANGED <<role, fds, pipe, kin, history>>

ReceiveTimesOut(x) ==
    /\ call[x].op \in Receiving /\ ~ call[x].patient
    /\ pipe[x] = <<>> /\ HasWriter(Other(x))
    /\ Answer(x, "timeout", <<>>)
    /\ Returns(x)
    /\ UNCHANGED <<role, fds, pipe, kin, history>>

-----------------------------------------------------------------------------
(* pc_parent_wait_for_child_exit *)

CallWait ==
    /\ Free("parent") /\ role["parent"] = "PARENT" /\ child_pid
    /\ Calls("parent", [Idle EXCEPT !.op = "wait"])
    /\ UNCHANGED <<role, fds, pipe, answer, kin, history>>

(* child_pid keeps the number of the process that has just been reaped. *)
WaitReturns ==
    /\ call["parent"].op = "wait" /\ proc["child"] = "zombie"
    /\ proc' = [proc EXCEPT !["child"] = "gone"]
    /\ pid' = "nobody"
    /\ waited' = TRUE
    /\ Returns("parent")
    /\ UNCHANGED <<role, fds, pipe, answer, child_pid, doomed, struck, sigchld_ignored, history>>

(* ECHILD: it has been reaped before. *)
WaitFails ==
    /\ call["parent"].op = "wait" /\ proc["child"] = "gone"
    /\ Returns("parent")
    /\ UNCHANGED <<role, fds, pipe, answer, kin, history>>

-----------------------------------------------------------------------------
(* pc_destroy, and pc_is_child_alive: a zombie is alive, and so is a       *)
(* stranger with the child's number.                                       *)

Alive == pid # "nobody"

(* kill(): only SIGKILL is certain to end the child. *)
Signal(fatal) ==
    /\ doomed' = (doomed \/ (fatal /\ pid = "child" /\ proc["child"] = "running"))
    /\ struck' = (struck \/ pid = "stranger")

Destroy(x) ==
    /\ Free(x) /\ role[x] # "FREED"
    /\ fds' = [fds EXCEPT ![x] = {}]
    /\ IF role[x] = "PARENT" /\ child_pid
       THEN Calls(x, [Idle EXCEPT !.op = "term"]) /\ UNCHANGED role
       ELSE role' = [role EXCEPT ![x] = "FREED"] /\ UNCHANGED call
    /\ UNCHANGED <<pipe, answer, kin, history>>

Freed(x) == role' = [role EXCEPT ![x] = "FREED"] /\ Returns(x)

(* Mutant: the child is waited for after the first signal already. *)
TermThenReap ==
    /\ call["parent"].op = "term"
    /\ Alive /\ Signal(FALSE)
    /\ Calls("parent", [Idle EXCEPT !.op = "grace"])
    /\ IF proc["child"] = "zombie"
       THEN proc' = [proc EXCEPT !["child"] = "gone"] /\ pid' = "nobody"
       ELSE UNCHANGED <<proc, pid>>
    /\ UNCHANGED <<role, fds, pipe, answer, child_pid, waited, sigchld_ignored, history>>

(* Nothing is sent and nobody waited for when no process has the number. *)
Term ==
    /\ call["parent"].op = "term"
    /\ \/ ~ Alive /\ Freed("parent") /\ UNCHANGED <<doomed, struck>>
       \/ /\ Alive /\ Signal(FALSE)
          /\ Calls("parent", [Idle EXCEPT !.op = "grace"])
          /\ UNCHANGED role
    /\ UNCHANGED <<fds, pipe, answer, proc, child_pid, pid, waited, sigchld_ignored, history>>

(* Mutant: there is no second signal. *)
GraceWithoutKill ==
    /\ call["parent"].op = "grace"
    /\ Calls("parent", [Idle EXCEPT !.op = "reap"])
    /\ UNCHANGED <<role, fds, pipe, answer, kin, history>>

(* 100 ms later; the number is looked up again. *)
Grace ==
    /\ call["parent"].op = "grace"
    /\ IF Alive THEN Signal(TRUE) ELSE UNCHANGED <<doomed, struck>>
    /\ Calls("parent", [Idle EXCEPT !.op = "reap"])
    /\ UNCHANGED <<role, fds, pipe, answer, proc, child_pid, pid, waited, sigchld_ignored, history>>

(* Mutant: waitpid() is left out. *)
ReapNobody ==
    /\ call["parent"].op = "reap"
    /\ Freed("parent")
    /\ UNCHANGED <<fds, pipe, answer, kin, history>>

(* WNOHANG: a child that has not ended yet is left to become a zombie. *)
Reap ==
    /\ call["parent"].op = "reap"
    /\ IF proc["child"] = "zombie"
       THEN proc' = [proc EXCEPT !["child"] = "gone"] /\ pid' = "nobody"
       ELSE UNCHANGED <<proc, pid>>
    /\ Freed("parent")
    /\ UNCHANGED <<fds, pipe, answer, child_pid, doomed, waited, struck, sigchld_ignored, history>>

-----------------------------------------------------------------------------
Receives(x) == Receive(x) \/ Expect(x) \/ ReceiveClosed(x) \/ ReceiveTimesOut(x)

Parent ==
    \/ PrepareFirst \/ PrepareSecond \/ PrepareFails \/ Fork \/ AfterForkParent
    \/ CallWait \/ WaitReturns \/ WaitFails \/ Term \/ Grace \/ Reap

Either(x) ==
    \/ CallSend(x) \/ CallSignal(x) \/ Write(x) \/ WriteInterrupted(x) \/ WriteToNobody(x)
    \/ CallReceive(x) \/ Receives(x) \/ Destroy(x) \/ Exit(x)

(* Both processes have ended; the pid may or may not be in use again. *)
Finished ==
    /\ \A x \in Peer : proc[x] \notin {"running", "zombie"}
    /\ UNCHANGED vars

Next == Parent \/ AfterForkChild \/ (\E x \in Peer : Either(x)) \/ PidReused \/ Finished

(* A call that can go on does, select() keeps its time and SIGKILL works;  *)
(* no caller is obliged to make a call or to come to its end.              *)
Fairness ==
    /\ \A x \in Peer : WF_vars(Receives(x))
    /\ WF_vars(Exit("child") /\ doomed)

Spec == Init /\ [][Next]_vars /\ Fairness

-----------------------------------------------------------------------------
(* A coordinator that could not be prepared, or that has been destroyed,   *)
(* leaves no descriptor open in its process, wherever the calls that led   *)
(* there failed (process_coordinator.c:49-54, 206-213).                    *)
NoLeakedEnds ==
    \A x \in Peer : role[x] \in {"UNSET", "FREED"} /\ call[x].op # "prepare" => fds[x] = {}

(* Each pc_parent_wait_for_child_ready that succeeds has used up a byte of *)
(* its own that the peer wrote as a signal or, as the code cannot tell the *)
(* two apart, in its data: none is used twice or made up where messages    *)
(* are cut or joined or the sender dies (:99-128, 167-187, 262-270).       *)
ReadyWasWritten == \A x \in Peer : readied[x] <= signalled[Other(x)] + stray[Other(x)]

(* pc_destroy sends its signals to the child and to nobody else, unless    *)
(* the child was reaped before, by a wait or because SIGCHLD is ignored,   *)
(* and child_pid kept its number (:216-226, :276).                         *)
StrangerSpared == struck => waited \/ sigchld_ignored

(* "Wait for child to avoid zombies" (:223): a zombie is left behind only  *)
(* by a child that had still been running when it was sent SIGKILL.        *)
ZombieOnlyAfterKill ==
    role["parent"] = "FREED" /\ child_pid /\ proc["child"] = "zombie" => doomed

(* A receive with a timeout ends, and one without ends when the peer has   *)
(* gone: neither process holds the end open by which the other writes      *)
(* (:73-75, :91-93, :305-332).                                             *)
ReceiveEnds ==
    \A x \in Peer :
        (call[x].op \in Receiving /\ (~ call[x].patient \/ proc[Other(x)] \in {"zombie", "gone"}))
            ~> call[x].op \notin Receiving

(* After pc_destroy in the parent the child comes to its end, whatever it  *)
(* does about SIGTERM and in whatever call it is blocked (:216-226).       *)
DestroyEndsChild ==
    (role["parent"] = "FREED" /\ child_pid) ~> proc["child"] \in {"zombie", "gone"}

-----------------------------------------------------------------------------
(* Bytes arrive in order, once each; the end is reported after the last of *)
(* them and a timeout only while there is none.                            *)
Abstract == INSTANCE Channel WITH
    Byte <- Byte \cup {Ready},
    transit <- pipe,
    open <- [x \in Peer |-> HasWriter(x)],
    answer <- answer

ImplementsChannel == [][Abstract!Next]_<<pipe, [x \in Peer |-> HasWriter(x)], answer>>
=============================================================================
