---------------------- MODULE ProcessCoordinatorProofs -----------------------
(***************************************************************************)
(* Theorems about ProcessCoordinator, for any messages, any capacity of a  *)
(* pipe and any number of bytes sent.                                      *)
(***************************************************************************)
EXTENDS ProcessCoordinator, SequenceTheorems, FiniteSetTheorems, TLAPS

USE MessagesAssumption, CapacityAssumption, MaxBytesAssumption

-----------------------------------------------------------------------------
(* The two processes and what became of them *)

Op == {"idle", "prepare", "send", "signal", "wait"} \cup Receiving \cup Destroying

Any == Byte \cup {Ready}

Call == [op : Op, left : Seq(Any), patient : BOOLEAN]

ProcType ==
    /\ role \in [Peer -> {"UNSET", "PREPARED", "PARENT", "CHILD", "FREED"}]
    /\ role["parent"] # "CHILD" /\ role["child"] # "PARENT"
    /\ call \in [Peer -> Call]
    /\ proc \in [Peer -> {"none", "running", "zombie", "gone"}]
    /\ proc["parent"] \in {"running", "gone"}
    /\ child_pid \in BOOLEAN /\ doomed \in BOOLEAN /\ waited \in BOOLEAN /\ struck \in BOOLEAN
    /\ pid \in {"child", "nobody", "stranger"} /\ sigchld_ignored \in BOOLEAN

(* A process that does not run makes no call; only the parent prepares,    *)
(* waits and destroys, and it destroys what it has set up.                 *)
CallsFit ==
    /\ \A x \in Peer : proc[x] # "running" => call[x] = Idle
    /\ call["child"].op \notin {"prepare", "wait"} \cup Destroying
    /\ call["parent"].op = "prepare" => role["parent"] = "UNSET"
    /\ role["parent"] = "UNSET" => proc["child"] = "none"
    /\ call["parent"].op \in Destroying => role["parent"] = "PARENT"
    /\ role["parent"] = "PARENT" => child_pid
    /\ child_pid => role["parent"] \in {"PARENT", "FREED"}
    /\ child_pid => proc["child"] # "none"
    /\ proc["child"] = "none" => role["child"] = "UNSET"
    /\ proc["child"] # "none" => role["child"] # "UNSET"

(* The number of the child is in use as long as there is a child, and is   *)
(* set free by a parent that waits for it, destroys, ends or ignores it.   *)
PidFits ==
    /\ pid = "child" <=> proc["child"] \in {"running", "zombie"}
    /\ pid = "stranger" => proc["child"] = "gone"
    /\ proc["child"] = "gone" => waited \/ sigchld_ignored \/ role["parent"] = "FREED" \/ proc["parent"] = "gone"

(* A parent that has done with its child has killed it, or it was dead.    *)
ChildSeenTo ==
    /\ call["parent"].op = "reap" => doomed \/ proc["child"] \in {"zombie", "gone"}
    /\ role["parent"] = "FREED" /\ child_pid => doomed \/ proc["child"] = "gone"

KinInv == ProcType /\ CallsFit /\ PidFits /\ ChildSeenTo /\ StrangerSpared

PipeType == pipe \in [Peer -> Seq(Any)] /\ \A x \in Peer : Len(pipe[x]) <= Capacity

LEMMA IdleType == Idle \in Call
BY DEF Idle, Call, Op

LEMMA IdleOp == Idle.op = "idle" /\ Idle.left = <<>>
BY DEF Idle

LEMMA KinInit == Init => KinInv
<1> SUFFICES ASSUME Init PROVE KinInv
  OBVIOUS
<1>1. ProcType
  <2>1. [parent |-> "running", child |-> "none"] \in [Peer -> {"none", "running", "zombie", "gone"}]
    BY DEF Peer
  <2>2. proc \in [Peer -> {"none", "running", "zombie", "gone"}] /\ proc["parent"] = "running"
    BY <2>1 DEF Init
  <2>3. call \in [Peer -> Call]
    BY IdleType DEF Init
  <2>4. /\ role \in [Peer -> {"UNSET", "PREPARED", "PARENT", "CHILD", "FREED"}]
        /\ role["parent"] # "CHILD" /\ role["child"] # "PARENT"
    BY DEF Init, Peer
  <2> QED
    BY <2>2, <2>3, <2>4 DEF Init, ProcType
<1>2. CallsFit
  BY DEF Init, CallsFit, Peer, Idle, Destroying
<1>3. PidFits /\ ChildSeenTo /\ StrangerSpared
  BY DEF Init, PidFits, ChildSeenTo, StrangerSpared, Peer, Idle
<1> QED
  BY <1>1, <1>2, <1>3 DEF KinInv

(* How the calls of one process change it: x is in call c now.             *)
LEMMA CallsType ==
    ASSUME KinInv, NEW x \in Peer, NEW c \in Call, Calls(x, c)
    PROVE  /\ call' \in [Peer -> Call] /\ call'[x] = c
           /\ \A y \in Peer \ {x} : call'[y] = call[y]
BY DEF KinInv, ProcType, Calls

LEMMA PlainCall ==
    ASSUME NEW op \in Op
    PROVE  [Idle EXCEPT !.op = op] \in Call /\ [Idle EXCEPT !.op = op].op = op
BY IdleType DEF Call

LEMMA ReceiveCall ==
    ASSUME NEW op \in Op, NEW b \in BOOLEAN
    PROVE  /\ [Idle EXCEPT !.op = op, !.patient = b] \in Call
           /\ [Idle EXCEPT !.op = op, !.patient = b].op = op
BY IdleType DEF Call

LEMMA MessageType ==
    ASSUME NEW m \in Messages \cup {<<Ready>>}
    PROVE  m \in Seq(Any)
<1>1. CASE m = <<Ready>>
  BY <1>1 DEF Any
<1>2. CASE m \in Messages
  <2>1. PICK n \in Nat : m \in [1 .. n -> Byte]
    BY <1>2, SeqDef
  <2>2. m \in [1 .. n -> Any]
    BY <2>1 DEF Any
  <2> QED
    BY <2>2, SeqDef
<1> QED
  BY <1>1, <1>2

LEMMA SendCall ==
    ASSUME NEW op \in Op, NEW s \in Seq(Any)
    PROVE  /\ [Idle EXCEPT !.op = op, !.left = s] \in Call
           /\ [Idle EXCEPT !.op = op, !.left = s].op = op
           /\ [Idle EXCEPT !.op = op, !.left = s].left = s
BY IdleType DEF Call

(* What a call of pc_send or pc_send_signal starts with *)
LEMMA SendsWhat ==
    ASSUME NEW x \in Peer, CallSend(x) \/ CallSignal(x)
    PROVE  \E op \in Sending, m \in Seq(Any) :
              Sends(x, op, m) /\ (op = "signal" => m = <<Ready>>)
<1>1. CASE CallSend(x)
  <2>1. PICK m \in Messages : Sends(x, "send", m)
    BY <1>1 DEF CallSend
  <2>2. m \in Seq(Any)
    BY MessageType
  <2> QED
    BY <2>1, <2>2 DEF Sending
<1>2. CASE CallSignal(x)
  <2>1. <<Ready>> \in Seq(Any)
    BY MessageType
  <2> QED
    BY <1>2, <2>1 DEF CallSignal, Sending
<1> QED
  BY <1>1, <1>2

(* Calls that come and go without a word to the other process's kin *)
LEMMA TalkKeepsKin ==
    ASSUME KinInv, UNCHANGED <<role, kin>>, NEW x \in Peer, NEW c \in Call, Calls(x, c),
           proc[x] = "running", call[x].op \notin Destroying,
           c.op \notin {"prepare"} \cup Destroying,
           c.op = "wait" => x = "parent"
    PROVE  KinInv'
<1>1. /\ call' \in [Peer -> Call] /\ call'[x] = c
      /\ \A y \in Peer \ {x} : call'[y] = call[y]
  BY CallsType
<1>2. UNCHANGED <<role, proc, child_pid, pid, doomed, waited, struck, sigchld_ignored>>
  BY DEF kin
<1>3. ProcType'
  BY <1>1, <1>2 DEF KinInv, ProcType
<1>4. CallsFit'
  BY <1>1, <1>2 DEF KinInv, CallsFit, Peer
<1>5. PidFits' /\ ChildSeenTo' /\ StrangerSpared'
  BY <1>1, <1>2 DEF KinInv, PidFits, ChildSeenTo, StrangerSpared, Destroying, Peer
<1> QED
  BY <1>3, <1>4, <1>5 DEF KinInv

LEMMA Busy ==
    ASSUME KinInv, NEW x \in Peer, call[x].op # "idle"
    PROVE  proc[x] = "running"
BY DEF KinInv, CallsFit, Idle

(* What Write leaves to be written *)
LEMMA WriteCall ==
    ASSUME KinInv, PipeType, NEW x \in Peer, Write(x)
    PROVE  /\ call[x].op \in Sending /\ call[x].left \in Seq(Any)
           /\ \E c \in Call :
                /\ Calls(x, c)
                /\ c = Idle \/ (c.op = call[x].op /\ Len(call[x].left) > 1)
<1> DEFINE left == call[x].left
           room == Capacity - Len(pipe[Other(x)])
           n    == IF Len(left) < room THEN Len(left) ELSE room
           c    == IF n = Len(left) THEN Idle
                   ELSE [call[x] EXCEPT !.left = SubSeq(left, n + 1, Len(left))]
<1>1. call[x] \in Call /\ call[x].op \in Sending /\ n > 0
  BY DEF KinInv, ProcType, Write
<1>2. left \in Seq(Any)
  BY <1>1 DEF Call
<1>3. Calls(x, c)
  BY DEF Write, Calls
<1>4. CASE n = Len(left)
  BY <1>1, <1>2, <1>3, <1>4, IdleType
<1>5. CASE n # Len(left)
  <2>1. Len(left) \in Nat /\ room \in Int
    BY <1>2 DEF PipeType, Other, Peer
  <2>2. n \in Nat \ {0} /\ n < Len(left)
    BY <2>1, <1>1, <1>5
  <2> DEFINE rest == SubSeq(left, n + 1, Len(left))
  <2> HIDE DEF n
  <2>3. rest \in Seq(Any)
    BY <1>2, <2>1, <2>2, SubSeqProperties
  <2> HIDE DEF rest
  <2>4. [call[x] EXCEPT !.left = rest] \in Call /\ [call[x] EXCEPT !.left = rest].left = rest
        /\ [call[x] EXCEPT !.left = rest].op = call[x].op
    BY <1>1, <2>3 DEF Call
  <2>5. c = [call[x] EXCEPT !.left = rest]
    BY <1>5 DEF rest
  <2> HIDE DEF c
  <2>6. c \in Call /\ c.op = call[x].op
    BY <2>4, <2>5
  <2> DEFINE k == Len(left)
  <2>7. k > 1
    <3>1. k \in Nat /\ n < k
      BY <2>1, <2>2
    <3> HIDE DEF k
    <3> QED
      BY <3>1, <2>2
  <2>8. Len(call[x].left) > 1
    BY <2>7
  <2> QED
    BY <1>1, <1>2, <1>3, <2>6, <2>8, Zenon
<1> QED
  BY <1>4, <1>5

LEMMA TalkKin ==
    ASSUME KinInv, PipeType, NEW x \in Peer,
           \/ CallSend(x) \/ CallSignal(x) \/ Write(x) \/ WriteInterrupted(x) \/ WriteToNobody(x)
           \/ CallReceive(x) \/ Receives(x)
    PROVE  KinInv'
<1> USE DEF Returns
<1>1. CASE CallSend(x) \/ CallSignal(x)
  <2>1. PICK op \in Sending, m \in Seq(Any) : Sends(x, op, m)
    BY <1>1, SendsWhat
  <2>2. Calls(x, [Idle EXCEPT !.op = op, !.left = m])
    BY <2>1 DEF Sends
  <2>3. [Idle EXCEPT !.op = op, !.left = m] \in Call /\ [Idle EXCEPT !.op = op, !.left = m].op = op
    BY SendCall DEF Op, Sending
  <2>4. proc[x] = "running" /\ call[x].op = "idle" /\ UNCHANGED <<role, kin>>
    BY <2>1, IdleOp DEF Sends, Free
  <2> QED
    BY <2>2, <2>3, <2>4, TalkKeepsKin DEF Destroying, Sending
<1>2. CASE Write(x)
  <2>1. PICK c \in Call : Calls(x, c) /\ c.op \in {"idle"} \cup Sending
    BY <1>2, WriteCall DEF Idle
  <2>2. call[x].op \in Sending /\ UNCHANGED <<role, kin>>
    BY <1>2 DEF Write
  <2> QED
    BY <2>1, <2>2, Busy, TalkKeepsKin DEF Destroying, Sending
<1>3. CASE \/ WriteInterrupted(x) \/ WriteToNobody(x) \/ Receives(x)
  <2>1. call[x].op \in Sending \cup Receiving /\ Calls(x, Idle) /\ UNCHANGED <<role, kin>>
    BY <1>3 DEF WriteInterrupted, WriteToNobody, Receives, Receive, Expect, ReceiveClosed,
                ReceiveTimesOut, Take, Receiving
  <2>2. Idle \in Call /\ Idle.op = "idle"
    BY IdleType DEF Idle
  <2> QED
    BY <2>1, <2>2, Busy, TalkKeepsKin DEF Sending, Receiving, Destroying
<1>4. CASE CallReceive(x)
  <2>1. PICK op \in Receiving, patient \in BOOLEAN : Calls(x, [Idle EXCEPT !.op = op, !.patient = patient])
    BY <1>4 DEF CallReceive
  <2>2. /\ [Idle EXCEPT !.op = op, !.patient = patient] \in Call
        /\ [Idle EXCEPT !.op = op, !.patient = patient].op = op
    BY ReceiveCall DEF Op
  <2>3. proc[x] = "running" /\ call[x].op = "idle" /\ UNCHANGED <<role, kin>>
    BY <1>4, IdleOp DEF CallReceive, Free
  <2> QED
    BY <2>1, <2>2, <2>3, TalkKeepsKin DEF Receiving, Destroying
<1> QED
  BY <1>1, <1>2, <1>3, <1>4

(* From here on the whole of the kin is in sight.                          *)
LEMMA SetUpKin ==
    ASSUME KinInv, PrepareFirst \/ PrepareSecond \/ PrepareFails \/ Fork \/ AfterForkParent \/ AfterForkChild
    PROVE  KinInv'
<1> USE IdleOp DEF Returns, kin, Free
<1>1. CASE PrepareFirst
  <2> DEFINE c == [Idle EXCEPT !.op = "prepare"]
  <2>1. c \in Call /\ c.op = "prepare"
    BY PlainCall DEF Op
  <2>2. Calls("parent", c) /\ UNCHANGED <<role, proc, child_pid, pid, doomed, waited, struck, sigchld_ignored>>
    BY <1>1 DEF PrepareFirst
  <2> HIDE DEF c
  <2>3. /\ call' \in [Peer -> Call] /\ call'["parent"].op = "prepare" /\ call'["child"] = call["child"]
    BY <2>1, <2>2, CallsType DEF Peer
  <2>4. proc["parent"] = "running" /\ role["parent"] = "UNSET" /\ call["parent"].op = "idle"
    BY <1>1 DEF PrepareFirst
  <2>5. ProcType'
    BY <2>2, <2>3 DEF KinInv, ProcType
  <2>6. CallsFit'
    BY <2>2, <2>3, <2>4 DEF KinInv, CallsFit, Peer, Destroying
  <2>7. PidFits' /\ ChildSeenTo' /\ StrangerSpared'
    BY <2>2, <2>3 DEF KinInv, PidFits, ChildSeenTo, StrangerSpared
  <2> QED
    BY <2>5, <2>6, <2>7 DEF KinInv
<1>2. CASE PrepareSecond \/ PrepareFails
  <2>1. /\ call' \in [Peer -> Call] /\ call'["parent"] = Idle /\ call'["child"] = call["child"]
    BY <1>2, CallsType, IdleType DEF PrepareSecond, PrepareFails, Peer
  <2>2. /\ call["parent"].op = "prepare" /\ UNCHANGED <<proc, child_pid, pid, doomed, waited, struck, sigchld_ignored>>
        /\ role' = role \/ role' = [role EXCEPT !["parent"] = "PREPARED"]
    BY <1>2 DEF PrepareSecond, PrepareFails
  <2>3. role["parent"] = "UNSET" /\ ~ child_pid
    BY <2>2 DEF KinInv, CallsFit
  <2>4. ProcType'
    BY <2>1, <2>2 DEF KinInv, ProcType, Peer
  <2>5. CallsFit'
    BY <2>1, <2>2, <2>3 DEF KinInv, ProcType, CallsFit, Peer, Destroying
  <2>6. PidFits' /\ ChildSeenTo' /\ StrangerSpared'
    BY <2>1, <2>2, <2>3 DEF KinInv, ProcType, PidFits, ChildSeenTo, StrangerSpared, Peer
  <2> QED
    BY <2>4, <2>5, <2>6 DEF KinInv
<1>3. CASE Fork
  <2>1. /\ proc' = [proc EXCEPT !["child"] = "running"] /\ pid' = "child"
        /\ role' = [role EXCEPT !["child"] = "PREPARED"]
        /\ proc["child"] = "none" /\ call["parent"] = Idle /\ role["parent"] = "PREPARED"
        /\ UNCHANGED <<call, child_pid, doomed, waited, struck, sigchld_ignored>>
    BY <1>3 DEF Fork
  <2>2. ProcType'
    BY <2>1 DEF KinInv, ProcType, Peer
  <2>3. CallsFit'
    BY <2>1 DEF KinInv, ProcType, CallsFit, Peer, Destroying
  <2>4. PidFits' /\ ChildSeenTo' /\ StrangerSpared'
    BY <2>1 DEF KinInv, ProcType, PidFits, ChildSeenTo, StrangerSpared, Peer
  <2> QED
    BY <2>2, <2>3, <2>4 DEF KinInv
<1>4. CASE AfterForkParent
  <2>1. /\ role' = [role EXCEPT !["parent"] = "PARENT"] /\ child_pid'
        /\ proc["child"] # "none" /\ call["parent"] = Idle /\ role["parent"] = "PREPARED"
        /\ UNCHANGED <<call, proc, pid, doomed, waited, struck, sigchld_ignored>>
    BY <1>4 DEF AfterForkParent
  <2>2. child_pid' \in BOOLEAN
    BY <1>4, Zenon DEF AfterForkParent
  <2>3. ProcType'
    BY <2>1, <2>2 DEF KinInv, ProcType, Peer
  <2>4. CallsFit'
    BY <2>1 DEF KinInv, ProcType, CallsFit, Peer, Destroying
  <2>5. PidFits' /\ ChildSeenTo' /\ StrangerSpared'
    BY <2>1 DEF KinInv, ProcType, PidFits, ChildSeenTo, StrangerSpared, Peer
  <2> QED
    BY <2>3, <2>4, <2>5 DEF KinInv
<1>5. CASE AfterForkChild
  <2>1. /\ role' = [role EXCEPT !["child"] = "CHILD"]
        /\ proc["child"] = "running" /\ role["child"] = "PREPARED"
        /\ UNCHANGED <<call, child_pid, proc, pid, doomed, waited, struck, sigchld_ignored>>
    BY <1>5 DEF AfterForkChild
  <2>2. ProcType'
    BY <2>1 DEF KinInv, ProcType, Peer
  <2>3. CallsFit'
    BY <2>1 DEF KinInv, ProcType, CallsFit, Peer, Destroying
  <2>4. PidFits' /\ ChildSeenTo' /\ StrangerSpared'
    BY <2>1 DEF KinInv, ProcType, PidFits, ChildSeenTo, StrangerSpared, Peer
  <2> QED
    BY <2>2, <2>3, <2>4 DEF KinInv
<1> QED
  BY <1>1, <1>2, <1>3, <1>4, <1>5

LEMMA EndKin ==
    ASSUME KinInv, (\E x \in Peer : Exit(x)) \/ PidReused
    PROVE  KinInv'
<1> USE IdleOp DEF Returns, kin, Free
<1>1. CASE PidReused
  BY <1>1 DEF PidReused, KinInv, ProcType, CallsFit, PidFits, ChildSeenTo, StrangerSpared, Peer
<1>2. CASE Exit("child")
  <2>1. /\ call' \in [Peer -> Call] /\ call'["child"] = Idle /\ call'["parent"] = call["parent"]
    BY <1>2, CallsType, IdleType DEF Exit, Peer
  <2>2. /\ proc["child"] = "running" /\ UNCHANGED <<role, child_pid, doomed, waited, struck, sigchld_ignored>>
        /\ \/ proc["parent"] = "running" /\ proc' = [proc EXCEPT !["child"] = "zombie"] /\ pid' = pid
           \/ (proc["parent"] = "gone" \/ sigchld_ignored) /\ proc' = [proc EXCEPT !["child"] = "gone"] /\ pid' = "nobody"
    BY <1>2 DEF Exit
  <2>3. ProcType'
    BY <2>1, <2>2 DEF KinInv, ProcType, Peer
  <2>4. CallsFit'
    BY <2>1, <2>2 DEF KinInv, ProcType, CallsFit, Peer, Destroying
  <2>5. PidFits' /\ ChildSeenTo' /\ StrangerSpared'
    BY <2>1, <2>2 DEF KinInv, ProcType, CallsFit, PidFits, ChildSeenTo, StrangerSpared, Peer
  <2> QED
    BY <2>3, <2>4, <2>5 DEF KinInv
<1>3. CASE Exit("parent")
  <2>1. /\ call' \in [Peer -> Call] /\ call'["parent"] = Idle /\ call'["child"] = call["child"]
    BY <1>3, CallsType, IdleType DEF Exit, Peer
  <2>2. /\ proc["parent"] = "running" /\ UNCHANGED <<role, child_pid, doomed, waited, struck, sigchld_ignored>>
        /\ proc' = [proc EXCEPT !["parent"] = "gone", !["child"] = IF @ = "zombie" THEN "gone" ELSE @]
        /\ pid' = IF proc["child"] = "zombie" THEN "nobody" ELSE pid
    BY <1>3 DEF Exit
  <2>3. /\ proc' \in [Peer -> {"none", "running", "zombie", "gone"}] /\ proc'["parent"] = "gone"
        /\ proc'["child"] = IF proc["child"] = "zombie" THEN "gone" ELSE proc["child"]
    BY <2>2 DEF KinInv, ProcType, Peer
  <2>4. ProcType'
    BY <2>1, <2>2, <2>3 DEF KinInv, ProcType, Peer
  <2>5. CallsFit'
    BY <2>1, <2>2, <2>3 DEF KinInv, ProcType, CallsFit, Peer, Destroying
  <2>6. PidFits' /\ ChildSeenTo' /\ StrangerSpared'
    BY <2>1, <2>2, <2>3 DEF KinInv, ProcType, CallsFit, PidFits, ChildSeenTo, StrangerSpared, Peer
  <2> QED
    BY <2>4, <2>5, <2>6 DEF KinInv
<1> QED
  BY <1>1, <1>2, <1>3 DEF Peer

LEMMA WaitKin ==
    ASSUME KinInv, CallWait \/ WaitReturns \/ WaitFails
    PROVE  KinInv'
<1> USE IdleOp DEF Returns, Free
<1>1. CASE CallWait
  <2> DEFINE c == [Idle EXCEPT !.op = "wait"]
  <2>1. c \in Call /\ c.op = "wait"
    BY PlainCall DEF Op
  <2>2. Calls("parent", c) /\ proc["parent"] = "running" /\ call["parent"].op = "idle" /\ UNCHANGED <<role, kin>>
    BY <1>1 DEF CallWait
  <2> QED
    BY <2>1, <2>2, TalkKeepsKin DEF Peer, Destroying
<1>2. CASE WaitFails
  <2>1. Calls("parent", Idle) /\ call["parent"].op = "wait" /\ UNCHANGED <<role, kin>>
    BY <1>2 DEF WaitFails
  <2> QED
    BY <2>1, Busy, IdleType, TalkKeepsKin DEF Peer, Destroying
<1>3. CASE WaitReturns
  <2>1. /\ call' \in [Peer -> Call] /\ call'["parent"] = Idle /\ call'["child"] = call["child"]
    BY <1>3, CallsType, IdleType DEF WaitReturns, Peer
  <2>2. /\ proc' = [proc EXCEPT !["child"] = "gone"] /\ pid' = "nobody" /\ proc["child"] = "zombie"
        /\ waited' /\ UNCHANGED <<role, child_pid, doomed, struck, sigchld_ignored>>
    BY <1>3 DEF WaitReturns
  <2>3. waited' \in BOOLEAN
    BY <1>3, Zenon DEF WaitReturns
  <2>4. ProcType'
    BY <2>1, <2>2, <2>3 DEF KinInv, ProcType, Peer
  <2>5. CallsFit'
    <3>1. call["child"] = Idle
      BY <2>2 DEF KinInv, CallsFit, Peer
    <3> QED
      BY <2>1, <2>2, <3>1 DEF KinInv, ProcType, CallsFit, Peer, Destroying
  <2>6. PidFits' /\ ChildSeenTo' /\ StrangerSpared'
    BY <2>1, <2>2 DEF KinInv, ProcType, CallsFit, PidFits, ChildSeenTo, StrangerSpared, Peer
  <2> QED
    BY <2>4, <2>5, <2>6 DEF KinInv
<1> QED
  BY <1>1, <1>2, <1>3

(* A signal goes to the child, or to a stranger only after a wait or where *)
(* SIGCHLD is ignored: while the parent destroys, the child is not reaped  *)
(* in any other way.                                                       *)
LEMMA SignalSpares ==
    ASSUME KinInv, call["parent"].op \in Destroying, NEW fatal \in BOOLEAN, Alive, Signal(fatal)
    PROVE  /\ doomed' \in BOOLEAN /\ struck' \in BOOLEAN
           /\ doomed => doomed'
           /\ fatal /\ proc["child"] = "running" => doomed'
           /\ struck' => waited \/ sigchld_ignored
<1>1. proc["parent"] = "running" /\ role["parent"] = "PARENT"
  BY IdleOp DEF KinInv, CallsFit, Destroying, Peer
<1>2. pid = "stranger" => waited \/ sigchld_ignored
  BY <1>1 DEF KinInv, PidFits
<1>3. doomed' \in BOOLEAN /\ struck' \in BOOLEAN
  BY Zenon DEF Signal
<1>4. proc["child"] = "running" => pid = "child"
  BY DEF KinInv, PidFits
<1> QED
  BY <1>2, <1>3, <1>4 DEF Signal, KinInv, StrangerSpared

LEMMA DestroyKin ==
    ASSUME KinInv, (\E x \in Peer : Destroy(x)) \/ Term \/ Grace \/ Reap
    PROVE  KinInv'
<1> USE IdleOp DEF Returns
<1>1. ASSUME NEW x \in Peer, Destroy(x) PROVE KinInv'
  <2>1. /\ proc[x] = "running" /\ call[x] = Idle /\ role[x] # "FREED"
        /\ UNCHANGED <<proc, child_pid, pid, doomed, waited, struck, sigchld_ignored>>
        /\ \/ /\ role[x] = "PARENT" /\ child_pid /\ Calls(x, [Idle EXCEPT !.op = "term"]) /\ role' = role
           \/ /\ ~ (role[x] = "PARENT" /\ child_pid)
              /\ role' = [role EXCEPT ![x] = "FREED"] /\ call' = call
    BY <1>1 DEF Destroy, kin, Free
  <2>2. CASE role[x] = "PARENT" /\ child_pid /\ Calls(x, [Idle EXCEPT !.op = "term"]) /\ role' = role
    <3> DEFINE c == [Idle EXCEPT !.op = "term"]
    <3>1. x = "parent"
      BY <2>2 DEF KinInv, ProcType, Peer
    <3>2. c \in Call /\ c.op = "term"
      BY PlainCall DEF Op, Destroying
    <3> HIDE DEF c
    <3>3. /\ call' \in [Peer -> Call] /\ call'["parent"].op = "term" /\ call'["child"] = call["child"]
      BY <2>2, <3>1, <3>2, CallsType DEF Peer, c
    <3>4. ProcType'
      BY <2>1, <2>2, <3>3 DEF KinInv, ProcType
    <3>5. CallsFit'
      BY <2>1, <2>2, <3>1, <3>3 DEF KinInv, CallsFit, Peer, Destroying
    <3>6. PidFits' /\ ChildSeenTo' /\ StrangerSpared'
      BY <2>1, <2>2, <3>3 DEF KinInv, PidFits, ChildSeenTo, StrangerSpared
    <3> QED
      BY <3>4, <3>5, <3>6 DEF KinInv
  <2>3. CASE ~ (role[x] = "PARENT" /\ child_pid) /\ role' = [role EXCEPT ![x] = "FREED"] /\ call' = call
    <3>1. x = "parent" => ~ child_pid
      BY <2>1, <2>3 DEF KinInv, CallsFit
    <3>2. ProcType'
      BY <2>1, <2>3 DEF KinInv, ProcType, Peer
    <3>3. CallsFit'
      BY <2>1, <2>3, <3>1 DEF KinInv, ProcType, CallsFit, Peer, Destroying
    <3>4. PidFits' /\ ChildSeenTo' /\ StrangerSpared'
      BY <2>1, <2>3, <3>1 DEF KinInv, ProcType, PidFits, ChildSeenTo, StrangerSpared, Peer
    <3> QED
      BY <3>2, <3>3, <3>4 DEF KinInv
  <2> QED
    BY <2>1, <2>2, <2>3
<1>2. CASE Term
  <2>1. /\ call["parent"].op = "term" /\ UNCHANGED <<proc, child_pid, pid, waited, sigchld_ignored>>
        /\ \/ /\ ~ Alive /\ role' = [role EXCEPT !["parent"] = "FREED"] /\ Calls("parent", Idle)
              /\ UNCHANGED <<doomed, struck>>
           \/ /\ Alive /\ Signal(FALSE) /\ Calls("parent", [Idle EXCEPT !.op = "grace"]) /\ role' = role
    BY <1>2 DEF Term, Freed
  <2>2. role["parent"] = "PARENT" /\ child_pid /\ proc["parent"] = "running" /\ proc["child"] # "none"
    BY <2>1 DEF KinInv, CallsFit, Destroying, Peer
  <2>3. CASE ~ Alive /\ role' = [role EXCEPT !["parent"] = "FREED"] /\ Calls("parent", Idle) /\ UNCHANGED <<doomed, struck>>
    <3>1. /\ call' \in [Peer -> Call] /\ call'["parent"] = Idle /\ call'["child"] = call["child"]
      BY <2>3, CallsType, IdleType DEF Peer
    <3>2. proc["child"] = "gone"
      BY <2>2, <2>3 DEF Alive, KinInv, ProcType, PidFits, Peer
    <3>3. ProcType'
      BY <2>1, <2>3, <3>1 DEF KinInv, ProcType, Peer
    <3>4. CallsFit'
      BY <2>1, <2>2, <2>3, <3>1 DEF KinInv, ProcType, CallsFit, Peer, Destroying
    <3>5. PidFits' /\ ChildSeenTo' /\ StrangerSpared'
      BY <2>1, <2>2, <2>3, <3>1, <3>2 DEF KinInv, ProcType, PidFits, ChildSeenTo, StrangerSpared, Peer
    <3> QED
      BY <3>3, <3>4, <3>5 DEF KinInv
  <2>4. CASE Alive /\ Signal(FALSE) /\ Calls("parent", [Idle EXCEPT !.op = "grace"]) /\ role' = role
    <3> DEFINE c == [Idle EXCEPT !.op = "grace"]
    <3>1. c \in Call /\ c.op = "grace"
      BY PlainCall DEF Op, Destroying
    <3> HIDE DEF c
    <3>2. /\ call' \in [Peer -> Call] /\ call'["parent"].op = "grace" /\ call'["child"] = call["child"]
      BY <2>4, <3>1, CallsType DEF Peer, c
    <3>3. doomed' \in BOOLEAN /\ struck' \in BOOLEAN /\ (doomed => doomed') /\ (struck' => waited \/ sigchld_ignored)
      BY <2>1, <2>4, SignalSpares DEF Destroying
    <3>4. ProcType'
      BY <2>1, <2>4, <3>2, <3>3 DEF KinInv, ProcType
    <3>5. CallsFit'
      BY <2>1, <2>2, <2>4, <3>2 DEF KinInv, CallsFit, Peer, Destroying
    <3>6. PidFits' /\ ChildSeenTo' /\ StrangerSpared'
      BY <2>1, <2>2, <2>4, <3>2, <3>3 DEF KinInv, PidFits, ChildSeenTo, StrangerSpared
    <3> QED
      BY <3>4, <3>5, <3>6 DEF KinInv
  <2> QED
    BY <2>1, <2>3, <2>4
<1>3. CASE Grace
  <2> DEFINE c == [Idle EXCEPT !.op = "reap"]
  <2>1. c \in Call /\ c.op = "reap"
    BY PlainCall DEF Op, Destroying
  <2>2. /\ call["parent"].op = "grace" /\ Calls("parent", c) /\ UNCHANGED <<role, proc, child_pid, pid, waited, sigchld_ignored>>
        /\ \/ Alive /\ Signal(TRUE)
           \/ ~ Alive /\ UNCHANGED <<doomed, struck>>
    BY <1>3 DEF Grace
  <2> HIDE DEF c
  <2>3. /\ call' \in [Peer -> Call] /\ call'["parent"].op = "reap" /\ call'["child"] = call["child"]
    BY <2>1, <2>2, CallsType DEF Peer
  <2>4. role["parent"] = "PARENT" /\ child_pid /\ proc["parent"] = "running" /\ proc["child"] # "none"
    BY <2>2 DEF KinInv, CallsFit, Destroying, Peer
  <2>5. /\ doomed' \in BOOLEAN /\ struck' \in BOOLEAN /\ (struck' => waited \/ sigchld_ignored)
        /\ doomed' \/ proc["child"] \in {"zombie", "gone"}
    <3>1. CASE Alive /\ Signal(TRUE)
      BY <2>2, <2>4, <3>1, SignalSpares DEF Destroying, KinInv, ProcType, Peer
    <3>2. CASE ~ Alive /\ UNCHANGED <<doomed, struck>>
      BY <2>4, <3>2 DEF Alive, KinInv, ProcType, PidFits, StrangerSpared, Peer
    <3> QED
      BY <2>2, <3>1, <3>2
  <2>6. ProcType'
    BY <2>2, <2>3, <2>5 DEF KinInv, ProcType
  <2>7. CallsFit'
    BY <2>2, <2>3, <2>4 DEF KinInv, CallsFit, Peer, Destroying
  <2>8. PidFits' /\ ChildSeenTo' /\ StrangerSpared'
    BY <2>2, <2>3, <2>4, <2>5 DEF KinInv, PidFits, ChildSeenTo, StrangerSpared
  <2> QED
    BY <2>6, <2>7, <2>8 DEF KinInv
<1>4. CASE Reap
  <2>1. /\ call["parent"].op = "reap" /\ Calls("parent", Idle) /\ role' = [role EXCEPT !["parent"] = "FREED"]
        /\ \/ proc["child"] = "zombie" /\ proc' = [proc EXCEPT !["child"] = "gone"] /\ pid' = "nobody"
           \/ proc["child"] # "zombie" /\ UNCHANGED <<proc, pid>>
        /\ UNCHANGED <<child_pid, doomed, waited, struck, sigchld_ignored>>
    BY <1>4 DEF Reap, Freed
  <2>2. /\ call' \in [Peer -> Call] /\ call'["parent"] = Idle /\ call'["child"] = call["child"]
    BY <2>1, CallsType, IdleType DEF Peer
  <2>3. /\ role["parent"] = "PARENT" /\ child_pid /\ proc["child"] # "none"
        /\ doomed \/ proc["child"] \in {"zombie", "gone"}
        /\ proc["child"] = "zombie" => call["child"] = Idle
    BY <2>1 DEF KinInv, CallsFit, ChildSeenTo, Destroying, Peer
  <2>4. ProcType'
    BY <2>1, <2>2 DEF KinInv, ProcType, Peer
  <2>5. CallsFit'
    BY <2>1, <2>2, <2>3 DEF KinInv, ProcType, CallsFit, Peer, Destroying
  <2>6. PidFits' /\ ChildSeenTo' /\ StrangerSpared'
    BY <2>1, <2>2, <2>3 DEF KinInv, ProcType, PidFits, ChildSeenTo, StrangerSpared, Peer
  <2> QED
    BY <2>4, <2>5, <2>6 DEF KinInv
<1> QED
  BY <1>1, <1>2, <1>3, <1>4

-----------------------------------------------------------------------------
(* The pipes: descriptors, bytes, and how many of them are ready signals   *)

EndsInv ==
    /\ fds \in [Peer -> SUBSET End]
    /\ \A x \in Peer : proc[x] # "running" => fds[x] = {}
    /\ call["parent"].op = "prepare" => fds["parent"] = Ends("child")
    /\ call["parent"].op \in Destroying => fds["parent"] = {}
    /\ \A x \in Peer : call[x].op \in Sending => WriteEnd(x) \in fds[x]
    /\ NoLeakedEnds

CountInv ==
    /\ asked \in [Peer -> Nat] /\ signalled \in [Peer -> Nat]
    /\ stray \in [Peer -> Nat] /\ readied \in [Peer -> Nat]
    /\ \A x \in Peer :
          /\ asked[x] <= MaxBytes[x]
          /\ call[x].op = "signal" => call[x].left = <<Ready>>
          /\ readied[x] + Cardinality(Readies(pipe[x])) <= signalled[Other(x)] + stray[Other(x)]

CoordinatorInv == KinInv /\ EndsInv /\ PipeType /\ CountInv

LEMMA ReadiesFinite ==
    ASSUME NEW s \in Seq(Any)
    PROVE  IsFiniteSet(Readies(s)) /\ Cardinality(Readies(s)) \in Nat
<1>1. IsFiniteSet(1 .. Len(s)) /\ Readies(s) \in SUBSET (1 .. Len(s))
  BY FS_Interval DEF Readies
<1>2. IsFiniteSet(Readies(s))
  BY <1>1, FS_Subset
<1> QED
  BY <1>2, FS_CardinalityType

(* What is appended brings its own ready bytes and no more. *)
LEMMA PartAddsItsOwn ==
    ASSUME NEW s \in Seq(Any), NEW t \in Seq(Any)
    PROVE  Cardinality(Readies(s \o t)) <= Cardinality(Readies(s)) + Cardinality(Readies(t))
<1> DEFINE k == Len(s)
           shifted == {i \in k + 1 .. k + Len(t) : t[i - k] = Ready}
           f == [i \in Readies(t) |-> i + k]
<1>1. /\ Len(s \o t) = k + Len(t) /\ k \in Nat /\ Len(t) \in Nat
      /\ \A i \in 1 .. k + Len(t) : (s \o t)[i] = IF i <= k THEN s[i] ELSE t[i - k]
  BY ConcatProperties
<1>2. Readies(s \o t) = Readies(s) \cup shifted
  BY <1>1 DEF Readies
<1>3. f \in Surjection(Readies(t), shifted)
  <2>1. f \in [Readies(t) -> shifted]
    BY <1>1 DEF Readies
  <2>2. ASSUME NEW i \in shifted PROVE \E j \in Readies(t) : f[j] = i
    <3>1. i - k \in Readies(t) /\ f[i - k] = i
      BY <1>1, <2>2 DEF Readies
    <3> QED
      BY <3>1
  <2> QED
    BY <2>1, <2>2 DEF Surjection
<1>4. IsFiniteSet(Readies(t)) /\ IsFiniteSet(Readies(s))
      /\ Cardinality(Readies(t)) \in Nat /\ Cardinality(Readies(s)) \in Nat
  BY ReadiesFinite
<1> HIDE DEF shifted, f
<1>5. IsFiniteSet(shifted) /\ Cardinality(shifted) <= Cardinality(Readies(t))
  BY <1>3, <1>4, FS_Surjection
<1>6. Cardinality(Readies(s) \cup shifted)
        = Cardinality(Readies(s)) + Cardinality(shifted) - Cardinality(Readies(s) \cap shifted)
  BY <1>4, <1>5, FS_Union
<1>7. Cardinality(Readies(s) \cap shifted) \in Nat /\ Cardinality(shifted) \in Nat
  <2>1. IsFiniteSet(Readies(s) \cap shifted)
    BY <1>4, FS_Intersection
  <2> QED
    BY <2>1, <1>5, FS_CardinalityType
<1> QED
  BY <1>2, <1>4, <1>5, <1>6, <1>7

LEMMA OneByteHasOne ==
    ASSUME NEW t \in Seq(Any), Len(t) <= 1
    PROVE  Cardinality(Readies(t)) <= 1
<1>1. IsFiniteSet({1}) /\ Cardinality({1}) = 1
  BY FS_Singleton
<1>2. Readies(t) \subseteq {1}
  BY DEF Readies
<1> QED
  BY <1>1, <1>2, FS_Subset

(* What is taken from the front takes its ready signals with it. *)
LEMMA FrontTakes ==
    ASSUME NEW s \in Seq(Any), NEW n \in 1 .. Len(s)
    PROVE  LET t == SubSeq(s, n + 1, Len(s))
           IN  /\ t \in Seq(Any) /\ Len(t) = Len(s) - n
               /\ Cardinality(Readies(t)) <= Cardinality(Readies(s))
               /\ s[1] = Ready => Cardinality(Readies(t)) <= Cardinality(Readies(s)) - 1
<1> DEFINE t == SubSeq(s, n + 1, Len(s))
           R == Readies(s) \ {1}
           f == [i \in Readies(t) |-> i + n]
<1>1. /\ t \in Seq(Any) /\ Len(t) = Len(s) - n
      /\ \A i \in 1 .. Len(s) - n : t[i] = s[n + i]
  BY SubSeqProperties
<1> HIDE DEF t
<1>2. f \in [Readies(t) -> R]
  BY <1>1 DEF Readies
<1>3. /\ IsFiniteSet(Readies(t)) /\ Cardinality(Readies(t)) \in Nat
      /\ IsFiniteSet(Readies(s)) /\ Cardinality(Readies(s)) \in Nat
  BY <1>1, ReadiesFinite
<1>4. /\ IsFiniteSet(R)
      /\ Cardinality(R) = IF 1 \in Readies(s) THEN Cardinality(Readies(s)) - 1 ELSE Cardinality(Readies(s))
  BY <1>3, FS_RemoveElement
<1>5. ~ (Cardinality(R) < Cardinality(Readies(t)))
  <2> SUFFICES ASSUME Cardinality(R) < Cardinality(Readies(t)) PROVE FALSE
    OBVIOUS
  <2>1. PICK x, y \in Readies(t) : x # y /\ f[x] = f[y]
    <3> HIDE DEF f, R
    <3>1. Cardinality(R) < Cardinality(Readies(t)) /\ IsFiniteSet(R) /\ IsFiniteSet(Readies(t))
      BY <1>3, <1>4
    <3> QED
      BY <1>2, <3>1, FS_PigeonHole
  <2>2. x \in Int /\ y \in Int /\ n \in Int
    BY DEF Readies
  <2> QED
    BY <2>1, <2>2
<1>6. s[1] = Ready => 1 \in Readies(s)
  BY DEF Readies
<1> HIDE DEF R, f
<1> QED
  BY <1>1, <1>3, <1>4, <1>5, <1>6 DEF t

LEMMA FdsInit == Init => EndsInv /\ PipeType /\ CountInv
<1> SUFFICES ASSUME Init PROVE EndsInv /\ PipeType /\ CountInv
  OBVIOUS
<1>1. EndsInv
  BY IdleOp DEF Init, EndsInv, Sending, NoLeakedEnds, Peer
<1>2. PipeType
  BY DEF Init, PipeType
<1>3. CountInv
  <2>1. Readies(<<>>) = {} /\ Cardinality({}) = 0
    BY FS_EmptySet DEF Readies
  <2>2. \A x \in Peer : Other(x) \in Peer
    BY DEF Peer, Other
  <2>3. \A x \in Peer : MaxBytes[x] \in Nat /\ call[x].op # "signal" /\ pipe[x] = <<>>
    BY IdleOp DEF Init
  <2>4. \A x \in Peer : asked[x] = 0 /\ signalled[x] = 0 /\ stray[x] = 0 /\ readied[x] = 0
    BY DEF Init
  <2>5. /\ asked \in [Peer -> Nat] /\ signalled \in [Peer -> Nat]
        /\ stray \in [Peer -> Nat] /\ readied \in [Peer -> Nat]
    BY DEF Init
  <2>6. \A x \in Peer : readied[x] + Cardinality(Readies(pipe[x])) <= signalled[Other(x)] + stray[Other(x)]
    <3> TAKE x \in Peer
    <3>1. Cardinality(Readies(pipe[x])) = 0 /\ readied[x] = 0
      BY <2>1, <2>3, <2>4, Zenon
    <3>2. signalled[Other(x)] = 0 /\ stray[Other(x)] = 0
      BY <2>2, <2>4
    <3> QED
      BY <3>1, <3>2
  <2>7. \A x \in Peer : asked[x] <= MaxBytes[x]
    BY <2>3, <2>4
  <2> QED
    BY <2>3, <2>5, <2>6, <2>7, Zenon DEF CountInv
<1> QED
  BY <1>1, <1>2, <1>3

LEMMA QuietEnds ==
    ASSUME CoordinatorInv, UNCHANGED <<role, fds, proc>>,
           \A x \in Peer :
              /\ call'[x].op = "prepare" <=> call[x].op = "prepare"
              /\ call'[x].op \in Destroying => call[x].op \in Destroying
              /\ call'[x].op \in Sending => WriteEnd(x) \in fds[x]
    PROVE  EndsInv'
<1> USE DEF CoordinatorInv, EndsInv
<1>1. fds' \in [Peer -> SUBSET End] /\ \A x \in Peer : proc'[x] # "running" => fds'[x] = {}
  OBVIOUS
<1>2. call'["parent"].op = "prepare" => fds'["parent"] = Ends("child")
  BY DEF Peer
<1>3. call'["parent"].op \in Destroying => fds'["parent"] = {}
  BY DEF Peer
<1>4. \A x \in Peer : call'[x].op \in Sending => WriteEnd(x) \in fds'[x]
  OBVIOUS
<1>5. NoLeakedEnds'
  BY DEF NoLeakedEnds
<1> QED
  BY <1>1, <1>2, <1>3, <1>4, <1>5

(* As far as the descriptors go, the calls that talk change nothing. *)
LEMMA TalkEnds ==
    ASSUME CoordinatorInv, NEW x \in Peer,
           \/ CallSend(x) \/ CallSignal(x) \/ Write(x) \/ WriteInterrupted(x) \/ WriteToNobody(x)
           \/ CallReceive(x) \/ Receives(x)
    PROVE  EndsInv'
<1>1. UNCHANGED <<role, fds, proc>>
  BY DEF CallSend, CallSignal, Sends, Write, WriteInterrupted, WriteToNobody, CallReceive, Receives,
         Receive, Expect, ReceiveClosed, ReceiveTimesOut, kin
<1>2. call[x].op # "prepare"
  BY IdleOp DEF CallSend, CallSignal, Sends, Sending, Write, WriteInterrupted, WriteToNobody, CallReceive, Receives, Receive, Expect,
                ReceiveClosed, ReceiveTimesOut, Receiving, Free
<1>3. \E c \in Call : Calls(x, c) /\ c.op \notin {"prepare"} \cup Destroying /\ (c.op \in Sending => WriteEnd(x) \in fds[x])
  <2>1. CASE CallSend(x) \/ CallSignal(x)
    <3>1. PICK op \in Sending, m \in Seq(Any) : Sends(x, op, m)
      BY <2>1, SendsWhat
    <3>2. [Idle EXCEPT !.op = op, !.left = m] \in Call /\ [Idle EXCEPT !.op = op, !.left = m].op = op
      BY SendCall DEF Op, Sending
    <3> QED
      BY <3>1, <3>2 DEF Sends, Sending, Destroying
  <2>2. CASE Write(x)
    <3>1. call[x].op \in Sending /\ WriteEnd(x) \in fds[x]
      BY <2>2 DEF Write, CoordinatorInv, EndsInv
    <3>2. PICK c \in Call : Calls(x, c) /\ (c = Idle \/ c.op \in Sending)
      BY <2>2, WriteCall DEF CoordinatorInv
    <3> QED
      BY <3>1, <3>2, IdleOp DEF Destroying, Sending
  <2>3. CASE WriteInterrupted(x) \/ WriteToNobody(x) \/ Receives(x)
    <3>1. Calls(x, Idle)
      BY <2>3 DEF WriteInterrupted, WriteToNobody, Receives, Receive, Expect, ReceiveClosed,
                  ReceiveTimesOut, Take, Returns
    <3> QED
      BY <3>1, IdleType, IdleOp DEF Destroying, Sending
  <2>4. CASE CallReceive(x)
    <3>1. PICK op \in Receiving, patient \in BOOLEAN : Calls(x, [Idle EXCEPT !.op = op, !.patient = patient])
      BY <2>4 DEF CallReceive
    <3>2. /\ [Idle EXCEPT !.op = op, !.patient = patient] \in Call
          /\ [Idle EXCEPT !.op = op, !.patient = patient].op = op
      BY ReceiveCall DEF Op
    <3> QED
      BY <3>1, <3>2 DEF Sending, Receiving, Destroying
  <2> QED
    BY <2>1, <2>2, <2>3, <2>4
<1>4. \A y \in Peer :
        /\ call'[y].op = "prepare" <=> call[y].op = "prepare"
        /\ call'[y].op \in Destroying => call[y].op \in Destroying
        /\ call'[y].op \in Sending => WriteEnd(y) \in fds[y]
  BY <1>2, <1>3, CallsType DEF CoordinatorInv, EndsInv
<1> QED
  BY <1>1, <1>4, QuietEnds

LEMMA SetUpEnds ==
    ASSUME CoordinatorInv, PrepareFirst \/ PrepareSecond \/ PrepareFails \/ Fork \/ AfterForkParent \/ AfterForkChild
    PROVE  EndsInv'
<1> USE IdleOp DEF Returns, kin, Free, CoordinatorInv
<1>1. CASE PrepareFirst
  <2> DEFINE c == [Idle EXCEPT !.op = "prepare"]
  <2>1. c \in Call /\ c.op = "prepare"
    BY PlainCall DEF Op
  <2>2. Calls("parent", c) /\ fds' = [fds EXCEPT !["parent"] = Ends("child")] /\ UNCHANGED <<role, proc>>
        /\ proc["parent"] = "running"
    BY <1>1 DEF PrepareFirst
  <2> HIDE DEF c
  <2>3. /\ call'["parent"].op = "prepare" /\ call'["child"] = call["child"]
    BY <2>1, <2>2, CallsType DEF Peer
  <2>4. Ends("child") \in SUBSET End
    BY DEF Ends
  <2> QED
    BY <2>2, <2>3, <2>4 DEF EndsInv, Sending, NoLeakedEnds, Destroying, Peer
<1>2. CASE PrepareSecond
  <2>1. /\ fds' = [fds EXCEPT !["parent"] = End] /\ role' = [role EXCEPT !["parent"] = "PREPARED"]
        /\ Calls("parent", Idle) /\ UNCHANGED proc /\ call["parent"].op = "prepare"
    BY <1>2 DEF PrepareSecond
  <2>2. call'["parent"].op = "idle" /\ call'["child"] = call["child"] /\ proc["parent"] = "running"
    BY <2>1, CallsType, IdleType, Busy DEF Peer
  <2> QED
    BY <2>1, <2>2 DEF EndsInv, Sending, NoLeakedEnds, Destroying, KinInv, ProcType, Peer
<1>3. CASE PrepareFails
  <2>1. /\ fds' = [fds EXCEPT !["parent"] = @ \ Ends("child")]
        /\ Calls("parent", Idle) /\ UNCHANGED <<role, proc>> /\ call["parent"].op = "prepare"
    BY <1>3 DEF PrepareFails
  <2>2. call'["parent"].op = "idle" /\ call'["child"] = call["child"]
    BY <2>1, CallsType, IdleType DEF Peer
  <2>3. fds'["parent"] = {} /\ fds'["child"] = fds["child"] /\ fds' \in [Peer -> SUBSET End]
    BY <2>1 DEF EndsInv, Peer
  <2> QED
    BY <2>1, <2>2, <2>3 DEF EndsInv, Sending, NoLeakedEnds, Destroying, Peer
<1>4. CASE Fork
  <2>1. /\ fds' = [fds EXCEPT !["child"] = fds["parent"]] /\ role' = [role EXCEPT !["child"] = "PREPARED"]
        /\ proc' = [proc EXCEPT !["child"] = "running"] /\ UNCHANGED call
        /\ proc["child"] = "none" /\ call["parent"] = Idle
    BY <1>4 DEF Fork
  <2>2. call["child"] = Idle
    BY <2>1 DEF KinInv, CallsFit, Peer
  <2>3. fds' \in [Peer -> SUBSET End] /\ fds'["parent"] = fds["parent"]
    BY <2>1 DEF EndsInv, Peer
  <2> QED
    BY <2>1, <2>2, <2>3 DEF EndsInv, NoLeakedEnds, Destroying, KinInv, ProcType, Peer
<1>5. CASE AfterForkParent
  <2>1. /\ fds' = [fds EXCEPT !["parent"] = @ \ {ReadEnd("child"), WriteEnd("child")}]
        /\ role' = [role EXCEPT !["parent"] = "PARENT"] /\ UNCHANGED <<call, proc>>
        /\ call["parent"] = Idle
    BY <1>5 DEF AfterForkParent
  <2>2. fds' \in [Peer -> SUBSET End] /\ fds'["child"] = fds["child"] /\ fds'["parent"] \subseteq fds["parent"]
    BY <2>1 DEF EndsInv, Peer
  <2> QED
    BY <2>1, <2>2 DEF EndsInv, Sending, NoLeakedEnds, Destroying, KinInv, ProcType, Peer
<1>6. CASE AfterForkChild
  <2>1. /\ fds' = [fds EXCEPT !["child"] = @ \ {ReadEnd("parent"), WriteEnd("parent")}]
        /\ role' = [role EXCEPT !["child"] = "CHILD"] /\ UNCHANGED <<call, proc>>
        /\ call["child"] = Idle
    BY <1>6 DEF AfterForkChild
  <2>2. fds' \in [Peer -> SUBSET End] /\ fds'["parent"] = fds["parent"] /\ fds'["child"] \subseteq fds["child"]
    BY <2>1 DEF EndsInv, Peer
  <2> QED
    BY <2>1, <2>2 DEF EndsInv, Sending, NoLeakedEnds, Destroying, KinInv, ProcType, Peer
<1> QED
  BY <1>1, <1>2, <1>3, <1>4, <1>5, <1>6

LEMMA EndEnds ==
    ASSUME CoordinatorInv,
           \/ \E x \in Peer : Exit(x) \/ Destroy(x)
           \/ PidReused \/ CallWait \/ WaitReturns \/ WaitFails \/ Term \/ Grace \/ Reap
    PROVE  EndsInv'
<1> USE IdleOp DEF Returns, kin, Free, CoordinatorInv
<1>1. ASSUME NEW x \in Peer, Exit(x) PROVE EndsInv'
  <2>1. /\ fds' = [fds EXCEPT ![x] = {}] /\ role' = role /\ Calls(x, Idle)
        /\ \A y \in Peer \ {x} : proc[y] # "running" => proc'[y] # "running"
        /\ \A y \in Peer \ {x} : proc'[y] # "running" => proc[y] # "running"
    BY <1>1 DEF Exit, KinInv, ProcType, Peer
  <2>2. call'[x].op = "idle" /\ \A y \in Peer \ {x} : call'[y] = call[y]
    BY <2>1, CallsType, IdleType
  <2>3. /\ fds' \in [Peer -> SUBSET End] /\ fds'[x] = {} /\ \A y \in Peer \ {x} : fds'[y] = fds[y]
    BY <2>1 DEF EndsInv
  <2> QED
    BY <2>1, <2>2, <2>3 DEF EndsInv, Sending, NoLeakedEnds, Destroying, Peer
<1>2. ASSUME NEW x \in Peer, Destroy(x) PROVE EndsInv'
  <2> DEFINE c == [Idle EXCEPT !.op = "term"]
  <2>1. c \in Call /\ c.op = "term"
    BY PlainCall DEF Op, Destroying
  <2>2. /\ fds' = [fds EXCEPT ![x] = {}] /\ UNCHANGED proc /\ call[x] = Idle
        /\ \/ Calls(x, c) /\ UNCHANGED role
           \/ role' = [role EXCEPT ![x] = "FREED"] /\ UNCHANGED call
    BY <1>2 DEF Destroy
  <2> HIDE DEF c
  <2>3. call'[x].op \in {"idle", "term"} /\ \A y \in Peer \ {x} : call'[y] = call[y] /\ role'[y] = role[y]
    BY <2>1, <2>2, CallsType DEF KinInv, ProcType
  <2>4. /\ fds' \in [Peer -> SUBSET End] /\ fds'[x] = {} /\ \A y \in Peer \ {x} : fds'[y] = fds[y]
    BY <2>2 DEF EndsInv
  <2> QED
    BY <2>2, <2>3, <2>4 DEF EndsInv, Sending, NoLeakedEnds, Destroying, Peer
<1>3. CASE PidReused
  BY <1>3, QuietEnds DEF PidReused, EndsInv
<1>4. CASE CallWait \/ WaitFails
  <2> DEFINE c == [Idle EXCEPT !.op = "wait"]
  <2>1. c \in Call /\ c.op = "wait"
    BY PlainCall DEF Op
  <2>2. UNCHANGED <<role, fds, proc>> /\ call["parent"].op \in {"idle", "wait"}
        /\ (Calls("parent", c) \/ Calls("parent", Idle))
    BY <1>4 DEF CallWait, WaitFails
  <2> HIDE DEF c
  <2>3. call'["parent"].op \in {"idle", "wait"} /\ call'["child"] = call["child"]
    BY <2>1, <2>2, CallsType, IdleType DEF Peer
  <2> QED
    BY <2>2, <2>3, QuietEnds DEF EndsInv, Sending, Destroying, Peer
<1>5. CASE WaitReturns
  <2>1. UNCHANGED <<role, fds>> /\ call["parent"].op = "wait" /\ Calls("parent", Idle)
        /\ proc' = [proc EXCEPT !["child"] = "gone"] /\ proc["child"] = "zombie"
    BY <1>5 DEF WaitReturns
  <2>2. call'["parent"].op = "idle" /\ call'["child"] = call["child"]
    BY <2>1, CallsType, IdleType DEF Peer
  <2> QED
    BY <2>1, <2>2 DEF EndsInv, Sending, NoLeakedEnds, Destroying, KinInv, ProcType, Peer
<1>6. CASE Term \/ Grace \/ Reap
  <2> DEFINE c(op) == [Idle EXCEPT !.op = op]
  <2>1. \A op \in Destroying : c(op) \in Call /\ c(op).op = op
    BY PlainCall DEF Op
  <2>2. /\ UNCHANGED fds /\ call["parent"].op \in Destroying
        /\ Calls("parent", Idle) \/ \E op \in Destroying : Calls("parent", c(op))
        /\ proc' = proc \/ (proc["child"] = "zombie" /\ proc' = [proc EXCEPT !["child"] = "gone"])
        /\ role' = role \/ role' = [role EXCEPT !["parent"] = "FREED"]
    BY <1>6 DEF Term, Grace, Reap, Freed, Destroying
  <2> HIDE DEF c
  <2>3. call'["parent"].op \in {"idle"} \cup Destroying /\ call'["child"] = call["child"]
    BY <2>1, <2>2, CallsType, IdleType DEF Peer
  <2>4. fds["parent"] = {}
    BY <2>2 DEF EndsInv
  <2> QED
    BY <2>2, <2>3, <2>4 DEF EndsInv, Sending, NoLeakedEnds, Destroying, KinInv, ProcType, Peer
<1> QED
  BY <1>1, <1>2, <1>3, <1>4, <1>5, <1>6

(* A step that moves no byte and begins no message *)
LEMMA QuietCounts ==
    ASSUME CoordinatorInv, UNCHANGED <<pipe, history>>,
           \A x \in Peer : call'[x].op \in Sending => call'[x] = call[x]
    PROVE  PipeType' /\ CountInv'
<1>1. UNCHANGED <<pipe, asked, signalled, stray, readied>>
  BY DEF history
<1>2. PipeType'
  BY <1>1 DEF CoordinatorInv, PipeType
<1>3. CountInv'
  <2>1. \A x \in Peer : call'[x].op = "signal" => call'[x] = call[x] /\ call[x].op = "signal"
    BY DEF Sending
  <2> QED
    BY <1>1, <2>1, Zenon DEF CoordinatorInv, CountInv, Readies, Other
<1> QED
  BY <1>2, <1>3

LEMMA QuietSteps ==
    ASSUME CoordinatorInv,
           \/ PrepareFirst \/ PrepareSecond \/ PrepareFails \/ Fork \/ AfterForkParent \/ AfterForkChild
           \/ CallWait \/ WaitReturns \/ WaitFails \/ Term \/ Grace \/ Reap \/ PidReused
           \/ \E x \in Peer : \/ WriteInterrupted(x) \/ WriteToNobody(x) \/ CallReceive(x)
                              \/ ReceiveClosed(x) \/ ReceiveTimesOut(x) \/ Destroy(x) \/ Exit(x)
    PROVE  PipeType' /\ CountInv'
<1> DEFINE Quiet == UNCHANGED call \/ \E y \in Peer, c \in Call : Calls(y, c) /\ c.op \notin Sending
<1>1. UNCHANGED <<pipe, history>>
  BY DEF PrepareFirst, PrepareSecond, PrepareFails, Fork, AfterForkParent, AfterForkChild, CallWait,
         WaitReturns, WaitFails, Term, Grace, Reap, PidReused, WriteInterrupted, WriteToNobody,
         CallReceive, ReceiveClosed, ReceiveTimesOut, Destroy, Exit
<1>2. Quiet
  <2>1. Idle \in Call /\ Idle.op \notin Sending
    BY IdleType, IdleOp DEF Sending
  <2>2. \A op \in {"prepare", "wait"} \cup Destroying :
           [Idle EXCEPT !.op = op] \in Call /\ [Idle EXCEPT !.op = op].op \notin Sending
    BY PlainCall DEF Op, Destroying, Sending
  <2>3. CASE \/ PrepareSecond \/ PrepareFails \/ WaitReturns \/ WaitFails \/ Reap
             \/ \E x \in Peer : \/ WriteInterrupted(x) \/ WriteToNobody(x) \/ ReceiveClosed(x)
                                \/ ReceiveTimesOut(x) \/ Exit(x)
    <3>1. \E y \in Peer : Calls(y, Idle)
      BY <2>3 DEF PrepareSecond, PrepareFails, WaitReturns, WaitFails, Reap, Freed, WriteInterrupted,
                  WriteToNobody, ReceiveClosed, ReceiveTimesOut, Exit, Returns, Peer
    <3> QED
      BY <2>1, <3>1
  <2>4. CASE Fork \/ AfterForkParent \/ AfterForkChild \/ PidReused
    BY <2>4 DEF Fork, AfterForkParent, AfterForkChild, PidReused
  <2>5. CASE PrepareFirst \/ CallWait
    <3>1. \E op \in {"prepare", "wait"} : Calls("parent", [Idle EXCEPT !.op = op])
      BY <2>5 DEF PrepareFirst, CallWait
    <3> QED
      BY <2>2, <3>1 DEF Peer
  <2>6. CASE Term \/ Grace
    <3>1. Calls("parent", Idle) \/ \E op \in Destroying : Calls("parent", [Idle EXCEPT !.op = op])
      BY <2>6 DEF Term, Grace, Freed, Returns, Destroying
    <3> QED
      BY <2>1, <2>2, <3>1 DEF Peer
  <2>7. CASE \E x \in Peer : Destroy(x)
    <3>1. UNCHANGED call \/ \E y \in Peer, op \in Destroying : Calls(y, [Idle EXCEPT !.op = op])
      BY <2>7 DEF Destroy, Destroying
    <3> QED
      BY <2>2, <3>1
  <2>8. CASE \E x \in Peer : CallReceive(x)
    <3>1. PICK y \in Peer, op \in Receiving, patient \in BOOLEAN :
             Calls(y, [Idle EXCEPT !.op = op, !.patient = patient])
      BY <2>8 DEF CallReceive
    <3>2. /\ [Idle EXCEPT !.op = op, !.patient = patient] \in Call
          /\ [Idle EXCEPT !.op = op, !.patient = patient].op = op
      BY ReceiveCall DEF Op
    <3>3. op \notin Sending
      BY DEF Receiving, Sending
    <3> QED
      BY <3>1, <3>2, <3>3
  <2> QED
    BY <2>3, <2>4, <2>5, <2>6, <2>7, <2>8
<1>3. \A x \in Peer : call'[x].op \in Sending => call'[x] = call[x]
  BY <1>2, CallsType DEF CoordinatorInv
<1> QED
  BY <1>1, <1>3, QuietCounts

LEMMA SendCounts ==
    ASSUME CoordinatorInv, NEW x \in Peer, CallSend(x) \/ CallSignal(x)
    PROVE  PipeType' /\ CountInv'
<1>1. PICK op \in Sending, m \in Seq(Any) : Sends(x, op, m) /\ (op = "signal" => m = <<Ready>>)
  BY SendsWhat
<1> DEFINE c == [Idle EXCEPT !.op = op, !.left = m]
<1>2. c \in Call /\ c.left = m /\ c.op = op
  BY SendCall DEF Op, Sending
<1>3. /\ Calls(x, c) /\ UNCHANGED <<pipe, signalled, stray, readied>>
      /\ asked[x] + Len(m) <= MaxBytes[x] /\ asked' = [asked EXCEPT ![x] = @ + Len(m)]
  BY <1>1 DEF Sends
<1> HIDE DEF c
<1>4. /\ call'[x].left = m /\ call'[x].op = op
      /\ \A y \in Peer \ {x} : call'[y] = call[y]
  BY <1>2, <1>3, CallsType DEF CoordinatorInv
<1>5. Len(m) \in Nat
  OBVIOUS
<1>6. asked \in [Peer -> Nat]
  BY DEF CoordinatorInv, CountInv
<1>7. /\ asked' \in [Peer -> Nat] /\ asked'[x] = asked[x] + Len(m)
      /\ \A y \in Peer \ {x} : asked'[y] = asked[y]
  BY <1>3, <1>5, <1>6
<1>8. \A y \in Peer : asked'[y] <= MaxBytes[y] /\ (call'[y].op = "signal" => call'[y].left = <<Ready>>)
  BY <1>1, <1>3, <1>4, <1>7 DEF CoordinatorInv, CountInv
<1>9. \A y \in Peer : readied'[y] + Cardinality(Readies(pipe'[y])) <= signalled'[Other(y)] + stray'[Other(y)]
  BY <1>3, Zenon DEF CoordinatorInv, CountInv
<1>10. CountInv'
  BY <1>3, <1>7, <1>8, <1>9, Zenon DEF CoordinatorInv, CountInv, Other, Readies
<1> QED
  BY <1>3, <1>10 DEF CoordinatorInv, PipeType

(* What a write puts into the pipe: a part of the message, from its front  *)
LEMMA WriteAmount ==
    ASSUME CoordinatorInv, NEW x \in Peer, Write(x)
    PROVE  LET left   == call[x].left
               room   == Capacity - Len(pipe[Other(x)])
               amount == IF Len(left) < room THEN Len(left) ELSE room
               part   == SubSeq(left, 1, amount)
           IN  /\ amount \in Nat \ {0} /\ amount <= Len(left)
               /\ Len(pipe[Other(x)]) + amount <= Capacity
               /\ part \in Seq(Any) /\ Len(part) = amount
               /\ pipe' = [pipe EXCEPT ![Other(x)] = @ \o part]
<1> DEFINE left == call[x].left
           room == Capacity - Len(pipe[Other(x)])
           n    == IF Len(left) < room THEN Len(left) ELSE room
<1>1. left \in Seq(Any)
  BY WriteCall DEF CoordinatorInv
<1>2. Len(left) \in Nat /\ room \in Int
  BY <1>1 DEF CoordinatorInv, PipeType, Other, Peer
<1>3. n > 0 /\ pipe' = [pipe EXCEPT ![Other(x)] = @ \o SubSeq(left, 1, n)]
  BY DEF Write
<1>4. n \in Nat \ {0} /\ n <= Len(left) /\ n <= room
  <2> HIDE DEF left, room
  <2> QED
    BY <1>2, <1>3
<1> HIDE DEF n
<1>5. SubSeq(left, 1, n) \in Seq(Any) /\ Len(SubSeq(left, 1, n)) = n
  BY <1>1, <1>4, SubSeqProperties
<1>6. Len(pipe[Other(x)]) + n <= Capacity
  BY <1>2, <1>4 DEF CoordinatorInv, PipeType, Other, Peer
<1> QED
  BY <1>3, <1>4, <1>5, <1>6 DEF n

LEMMA WriteCounts ==
    ASSUME CoordinatorInv, NEW x \in Peer, Write(x)
    PROVE  PipeType' /\ CountInv'
<1> DEFINE left == call[x].left
           o    == Other(x)
           room == Capacity - Len(pipe[o])
           amount == IF Len(left) < room THEN Len(left) ELSE room
           part == SubSeq(left, 1, amount)
<1>1. /\ amount \in Nat \ {0} /\ amount <= Len(left) /\ Len(pipe[o]) + amount <= Capacity
      /\ part \in Seq(Any) /\ Len(part) = amount
      /\ pipe' = [pipe EXCEPT ![o] = @ \o part]
  BY WriteAmount
<1>2. /\ call[x].op \in Sending /\ left \in Seq(Any)
      /\ call[x].op = "signal" => Len(left) = 1
  <2>1. call[x].op \in Sending /\ left \in Seq(Any)
    BY WriteCall DEF CoordinatorInv
  <2>2. call[x].op = "signal" => left = <<Ready>>
    BY DEF CoordinatorInv, CountInv
  <2> QED
    BY <2>1, <2>2
<1>3. o \in Peer /\ o # x /\ Other(o) = x
  BY DEF Other, Peer
<1>4. /\ IF call[x].op = "signal"
         THEN signalled' = [signalled EXCEPT ![x] = @ + 1] /\ UNCHANGED stray
         ELSE stray' = [stray EXCEPT ![x] = @ + Cardinality(Readies(part))] /\ UNCHANGED signalled
      /\ UNCHANGED <<asked, readied>>
  BY DEF Write
<1>5. /\ call'[x].op # "signal"
      /\ \A y \in Peer \ {x} : call'[y] = call[y]
  <2>1. PICK c \in Call : Calls(x, c) /\ (c = Idle \/ (c.op = call[x].op /\ Len(left) > 1))
    BY WriteCall DEF CoordinatorInv
  <2>2. call'[x] = c /\ \A y \in Peer \ {x} : call'[y] = call[y]
    BY <2>1, CallsType DEF CoordinatorInv
  <2>3. c.op # "signal"
    <3>1. CASE c = Idle
      BY <3>1, IdleOp
    <3>2. CASE c.op = call[x].op /\ Len(left) > 1
      <4> DEFINE n == Len(left)
      <4>1. (call[x].op = "signal" => n = 1) /\ n > 1
        BY <3>2, <1>2
      <4> HIDE DEF n
      <4>2. n # 1
        BY <4>1
      <4> QED
        BY <3>2, <4>1, <4>2
    <3> QED
      BY <2>1, <3>1, <3>2
  <2> QED
    BY <2>2, <2>3
<1> HIDE DEF o, part, amount, room, left
<1>6. pipe \in [Peer -> Seq(Any)] /\ pipe[o] \in Seq(Any)
  BY <1>3 DEF CoordinatorInv, PipeType
<1> DEFINE new == pipe[o] \o part
<1>7. /\ new \in Seq(Any) /\ Len(new) <= Capacity
      /\ Cardinality(Readies(new)) <= Cardinality(Readies(pipe[o])) + Cardinality(Readies(part))
  <2>1. new \in Seq(Any) /\ Len(new) = Len(pipe[o]) + amount
    BY <1>1, <1>6, ConcatProperties
  <2>2. Len(new) <= Capacity
    BY <1>1, <2>1
  <2> QED
    BY <2>1, <2>2, <1>1, <1>6, PartAddsItsOwn
<1>8. pipe' = [pipe EXCEPT ![o] = new]
  BY <1>1, <1>3, <1>6
<1> HIDE DEF new
<1>9. pipe' \in [Peer -> Seq(Any)] /\ pipe'[o] = new /\ pipe'[x] = pipe[x]
  BY <1>3, <1>6, <1>7, <1>8
<1>10. PipeType'
  BY <1>3, <1>7, <1>8, <1>9 DEF PipeType, CoordinatorInv
<1>11. /\ signalled \in [Peer -> Nat] /\ stray \in [Peer -> Nat]
       /\ readied \in [Peer -> Nat] /\ asked \in [Peer -> Nat]
  BY DEF CoordinatorInv, CountInv
<1>12. Cardinality(Readies(part)) \in Nat /\ Cardinality(Readies(new)) \in Nat
       /\ Cardinality(Readies(pipe[o])) \in Nat
  BY <1>1, <1>6, <1>7, ReadiesFinite
<1>13. /\ signalled' \in [Peer -> Nat] /\ stray' \in [Peer -> Nat]
       /\ \A y \in Peer \ {x} : signalled'[y] = signalled[y] /\ stray'[y] = stray[y]
       /\ signalled'[x] + stray'[x] >= signalled[x] + stray[x] + Cardinality(Readies(part))
  <2>1. CASE call[x].op = "signal"
    <3>1. signalled' = [signalled EXCEPT ![x] = signalled[x] + 1] /\ stray' = stray
      BY <1>4, <2>1
    <3>2. Cardinality(Readies(part)) <= 1
      BY <1>1, <1>2, <2>1, OneByteHasOne
    <3> QED
      BY <3>1, <3>2, <1>11, <1>12
  <2>2. CASE call[x].op # "signal"
    <3> DEFINE more == stray[x] + Cardinality(Readies(part))
    <3>1. stray' = [stray EXCEPT ![x] = more] /\ signalled' = signalled /\ more \in Nat
      BY <1>4, <1>11, <1>12, <2>2
    <3>2. more = stray[x] + Cardinality(Readies(part))
      OBVIOUS
    <3> HIDE DEF more
    <3> QED
      BY <3>1, <3>2, <1>11, <1>12
  <2> QED
    BY <2>1, <2>2
<1>14. \A y \in Peer : readied[y] + Cardinality(Readies(pipe'[y])) <= signalled'[Other(y)] + stray'[Other(y)]
  <2>1. readied[x] + Cardinality(Readies(pipe[x])) <= signalled[o] + stray[o]
    BY DEF CoordinatorInv, CountInv, o
  <2>2. readied[o] + Cardinality(Readies(pipe[o])) <= signalled[x] + stray[x]
    BY <1>3 DEF CoordinatorInv, CountInv
  <2>3. readied[x] + Cardinality(Readies(pipe'[x])) <= signalled'[o] + stray'[o]
    BY <2>1, <1>3, <1>9, <1>13
  <2>4. readied[o] \in Nat /\ signalled[x] \in Nat /\ stray[x] \in Nat
        /\ signalled'[x] \in Nat /\ stray'[x] \in Nat
    BY <1>3, <1>11, <1>13
  <2>5. Cardinality(Readies(pipe'[o])) <= Cardinality(Readies(pipe[o])) + Cardinality(Readies(part))
        /\ Cardinality(Readies(pipe'[o])) \in Nat
    BY <1>7, <1>9, <1>12
  <2>6. readied[o] + Cardinality(Readies(pipe'[o])) <= signalled'[x] + stray'[x]
    BY <2>2, <2>4, <2>5, <1>12, <1>13
  <2>7. \A y \in Peer : y = x \/ y = o
    BY <1>3 DEF Peer
  <2>8. Other(x) = o
    BY DEF o
  <2> QED
    BY <2>3, <2>6, <2>7, <2>8, <1>3, Zenon
<1>15. \A y \in Peer : asked[y] <= MaxBytes[y] /\ (call'[y].op = "signal" => call'[y].left = <<Ready>>)
  BY <1>5 DEF CoordinatorInv, CountInv
<1>16. CountInv'
  BY <1>4, <1>11, <1>13, <1>14, <1>15, Zenon DEF CountInv, Readies, Other
<1> QED
  BY <1>10, <1>16

LEMMA TakeCounts ==
    ASSUME CoordinatorInv, NEW x \in Peer, Receive(x) \/ Expect(x)
    PROVE  PipeType' /\ CountInv'
<1>1. PICK n \in 1 .. Len(pipe[x]) :
         /\ pipe' = [pipe EXCEPT ![x] = SubSeq(@, n + 1, Len(@))]
         /\ Calls(x, Idle) /\ UNCHANGED <<asked, signalled, stray>>
         /\ \/ UNCHANGED readied
            \/ readied' = [readied EXCEPT ![x] = IF Head(pipe[x]) = Ready THEN @ + 1 ELSE @]
  <2>1. CASE Receive(x)
    BY <2>1 DEF Receive, Take, Returns, history
  <2>2. CASE Expect(x)
    <3>1. pipe[x] \in Seq(Any) /\ pipe[x] # <<>>
      BY <2>2 DEF Expect, CoordinatorInv, PipeType
    <3>2. 1 \in 1 .. Len(pipe[x])
      BY <3>1
    <3> QED
      BY <2>2, <3>2 DEF Expect, Take, Returns
  <2> QED
    BY <2>1, <2>2
<1> DEFINE rest == SubSeq(pipe[x], n + 1, Len(pipe[x]))
<1>2. pipe[x] \in Seq(Any) /\ pipe \in [Peer -> Seq(Any)] /\ Len(pipe[x]) <= Capacity
  BY DEF CoordinatorInv, PipeType
<1>3. /\ rest \in Seq(Any) /\ Len(rest) = Len(pipe[x]) - n
      /\ Cardinality(Readies(rest)) <= Cardinality(Readies(pipe[x]))
      /\ pipe[x][1] = Ready => Cardinality(Readies(rest)) <= Cardinality(Readies(pipe[x])) - 1
  BY <1>2, FrontTakes
<1>4. Head(pipe[x]) = pipe[x][1]
  BY <1>2
<1>5. pipe' = [pipe EXCEPT ![x] = rest]
  BY <1>1, <1>2
<1> HIDE DEF rest
<1>6. /\ pipe' \in [Peer -> Seq(Any)] /\ pipe'[x] = rest
      /\ \A y \in Peer \ {x} : pipe'[y] = pipe[y]
  BY <1>2, <1>3, <1>5
<1>7. Len(rest) <= Capacity
  BY <1>2, <1>3
<1>8. PipeType'
  BY <1>6, <1>7 DEF PipeType, CoordinatorInv
<1>9. /\ signalled \in [Peer -> Nat] /\ stray \in [Peer -> Nat]
      /\ readied \in [Peer -> Nat] /\ asked \in [Peer -> Nat]
  BY DEF CoordinatorInv, CountInv
<1>10. /\ readied' \in [Peer -> Nat] /\ \A y \in Peer \ {x} : readied'[y] = readied[y]
       /\ readied'[x] = readied[x] \/ (readied'[x] = readied[x] + 1 /\ pipe[x][1] = Ready)
  <2>1. UNCHANGED readied \/ (readied' = [readied EXCEPT ![x] = readied[x] + 1] /\ Head(pipe[x]) = Ready)
    BY <1>1, <1>9
  <2>2. CASE UNCHANGED readied
    BY <2>2, <1>9
  <2>3. CASE readied' = [readied EXCEPT ![x] = readied[x] + 1] /\ Head(pipe[x]) = Ready
    <3>1. readied[x] + 1 \in Nat
      BY <1>9
    <3> QED
      BY <2>3, <3>1, <1>4, <1>9
  <2> QED
    BY <2>1, <2>2, <2>3
<1>11. \A y \in Peer : readied'[y] + Cardinality(Readies(pipe'[y])) <= signalled[Other(y)] + stray[Other(y)]
  <2> TAKE y \in Peer
  <2>1. CASE y = x
    <3>1. readied[x] + Cardinality(Readies(pipe[x])) <= signalled[Other(x)] + stray[Other(x)]
      BY DEF CoordinatorInv, CountInv
    <3>2. Cardinality(Readies(rest)) \in Nat /\ Cardinality(Readies(pipe[x])) \in Nat
      BY <1>2, <1>3, ReadiesFinite
    <3>3. readied[x] \in Nat /\ signalled[Other(x)] \in Nat /\ stray[Other(x)] \in Nat
      BY <1>9 DEF Other, Peer
    <3> QED
      BY <2>1, <3>1, <3>2, <3>3, <1>3, <1>6, <1>10
  <2>2. CASE y # x
    BY <2>2, <1>6, <1>10 DEF CoordinatorInv, CountInv
  <2> QED
    BY <2>1, <2>2
<1>12. /\ call'[x].op # "signal"
       /\ \A y \in Peer \ {x} : call'[y] = call[y]
  BY <1>1, CallsType, IdleType, IdleOp DEF CoordinatorInv
<1>13. \A y \in Peer : asked[y] <= MaxBytes[y] /\ (call'[y].op = "signal" => call'[y].left = <<Ready>>)
  BY <1>12 DEF CoordinatorInv, CountInv
<1>14. CountInv'
  BY <1>1, <1>9, <1>10, <1>11, <1>13, Zenon DEF CountInv, Readies, Other
<1> QED
  BY <1>8, <1>14

-----------------------------------------------------------------------------
(* The invariant of the coordinator, and what follows from it *)

LEMMA CoordinatorInit == Init => CoordinatorInv
BY KinInit, FdsInit DEF CoordinatorInv

LEMMA CoordinatorStep == CoordinatorInv /\ [Next]_vars => CoordinatorInv'
<1> SUFFICES ASSUME CoordinatorInv, [Next]_vars PROVE CoordinatorInv'
  OBVIOUS
<1> USE DEF CoordinatorInv
<1>1. CASE PrepareFirst \/ PrepareSecond \/ PrepareFails \/ Fork \/ AfterForkParent \/ AfterForkChild
  BY <1>1, SetUpKin, SetUpEnds, QuietSteps
<1>2. CASE CallWait \/ WaitReturns \/ WaitFails
  BY <1>2, WaitKin, EndEnds, QuietSteps
<1>3. CASE Term \/ Grace \/ Reap \/ \E x \in Peer : Destroy(x)
  BY <1>3, DestroyKin, EndEnds, QuietSteps
<1>4. CASE PidReused \/ \E x \in Peer : Exit(x)
  BY <1>4, EndKin, EndEnds, QuietSteps
<1>5. ASSUME NEW x \in Peer, CallSend(x) \/ CallSignal(x) PROVE CoordinatorInv'
  BY <1>5, TalkKin, TalkEnds, SendCounts
<1>6. ASSUME NEW x \in Peer, Write(x) PROVE CoordinatorInv'
  BY <1>6, TalkKin, TalkEnds, WriteCounts
<1>7. ASSUME NEW x \in Peer, Receive(x) \/ Expect(x) PROVE CoordinatorInv'
  BY <1>7, TalkKin, TalkEnds, TakeCounts DEF Receives
<1>8. ASSUME NEW x \in Peer,
             WriteInterrupted(x) \/ WriteToNobody(x) \/ CallReceive(x) \/ ReceiveClosed(x) \/ ReceiveTimesOut(x)
      PROVE  CoordinatorInv'
  BY <1>8, TalkKin, TalkEnds, QuietSteps DEF Receives
<1>9. CASE UNCHANGED vars
  <2>1. UNCHANGED <<role, fds, pipe, call, proc, child_pid, pid, doomed, waited, struck,
                   sigchld_ignored, asked, signalled, stray, readied>>
    BY <1>9 DEF vars, kin, history
  <2>2. KinInv'
    BY <2>1 DEF KinInv, ProcType, CallsFit, PidFits, ChildSeenTo, StrangerSpared
  <2>3. EndsInv'
    BY <2>1, QuietEnds DEF EndsInv
  <2>4. PipeType' /\ CountInv'
    BY <2>1, QuietCounts DEF history
  <2> QED
    BY <2>2, <2>3, <2>4
<1> QED
  BY <1>1, <1>2, <1>3, <1>4, <1>5, <1>6, <1>7, <1>8, <1>9 DEF Next, Parent, Either, Receives, Finished

(* The bookkeeping of the two processes, their descriptors and the bytes   *)
(* in the pipes fits together in every state (process_coordinator.c).      *)
THEOREM CoordinatorInvariant == Spec => []CoordinatorInv
BY CoordinatorInit, CoordinatorStep, PTL DEF Spec

(* No process but the child is ever signalled by pc_destroy, unless the    *)
(* child was reaped before, by a wait or because SIGCHLD is ignored        *)
(* (process_coordinator.c:216-226, 276).                                   *)
THEOREM OnlyTheChildIsSignalled == Spec => []StrangerSpared
<1>1. CoordinatorInv => StrangerSpared
  BY DEF CoordinatorInv, KinInv
<1> QED
  BY <1>1, CoordinatorInvariant, PTL

(* pc_destroy leaves a zombie only of a child that had not died of SIGKILL *)
(* yet (process_coordinator.c:216-226).                                    *)
THEOREM ZombieIsDoomed == Spec => []ZombieOnlyAfterKill
<1>1. CoordinatorInv => ZombieOnlyAfterKill
  BY DEF CoordinatorInv, KinInv, ChildSeenTo, ZombieOnlyAfterKill
<1> QED
  BY <1>1, CoordinatorInvariant, PTL

(* No call that fails or destroys leaves a descriptor open                 *)
(* (process_coordinator.c:49-54, 206-213).                                 *)
THEOREM EndsAreClosed == Spec => []NoLeakedEnds
<1>1. CoordinatorInv => NoLeakedEnds
  BY DEF CoordinatorInv, EndsInv
<1> QED
  BY <1>1, CoordinatorInvariant, PTL

(* Every wait for a ready signal that succeeds has used up a byte of its   *)
(* own that the peer wrote, as a signal or within its data, for any data   *)
(* (process_coordinator.c:99-128, 167-187, 262-270).                       *)
THEOREM ReadiesAreWritten == Spec => []ReadyWasWritten
<1>1. CoordinatorInv => ReadyWasWritten
  <2> SUFFICES ASSUME CoordinatorInv, NEW x \in Peer
               PROVE  readied[x] <= signalled[Other(x)] + stray[Other(x)]
    BY DEF ReadyWasWritten
  <2>1. /\ readied[x] + Cardinality(Readies(pipe[x])) <= signalled[Other(x)] + stray[Other(x)]
        /\ readied[x] \in Nat /\ signalled[Other(x)] \in Nat /\ stray[Other(x)] \in Nat
        /\ pipe[x] \in Seq(Any)
    BY DEF CoordinatorInv, CountInv, PipeType, Other, Peer
  <2> QED
    BY <2>1, ReadiesFinite
<1> QED
  BY <1>1, CoordinatorInvariant, PTL

(* Every variable keeps its type. *)
THEOREM TypesKept == Spec => []TypeOK
<1>1. CoordinatorInv => TypeOK
  <2> SUFFICES ASSUME CoordinatorInv PROVE TypeOK
    OBVIOUS
  <2>1. \A x \in Peer : pipe[x] \in Seq(Byte \cup {Ready}) /\ Len(pipe[x]) <= Capacity
    BY DEF CoordinatorInv, PipeType, Any
  <2>2. \A x \in Peer : call[x].op \in {"idle", "prepare", "wait"} \cup Sending \cup Receiving \cup Destroying
    BY DEF CoordinatorInv, KinInv, ProcType, Call, Op, Sending
  <2>3. \A x \in Peer : asked[x] \in 0 .. MaxBytes[x]
    BY DEF CoordinatorInv, CountInv
  <2>4. /\ signalled \in [Peer -> Nat] /\ stray \in [Peer -> Nat] /\ readied \in [Peer -> Nat]
        /\ fds \in [Peer -> SUBSET End]
        /\ \A x \in Peer : proc[x] # "running" => call[x] = Idle /\ fds[x] = {}
    BY DEF CoordinatorInv, CountInv, KinInv, CallsFit, EndsInv
  <2>5. /\ role \in [Peer -> {"UNSET", "PREPARED", "PARENT", "CHILD", "FREED"}]
        /\ role["parent"] # "CHILD" /\ role["child"] # "PARENT"
        /\ proc["parent"] \in {"running", "gone"}
        /\ proc["child"] \in {"none", "running", "zombie", "gone"}
        /\ child_pid \in BOOLEAN /\ doomed \in BOOLEAN /\ waited \in BOOLEAN /\ struck \in BOOLEAN
        /\ pid \in {"child", "nobody", "stranger"} /\ sigchld_ignored \in BOOLEAN
    BY Zenon DEF CoordinatorInv, KinInv, ProcType, Peer
  <2>6. pid = "child" <=> proc["child"] \in {"running", "zombie"}
    BY DEF CoordinatorInv, KinInv, PidFits
  <2> QED
    BY <2>1, <2>2, <2>3, <2>4, <2>5, <2>6, Zenon DEF TypeOK
<1> QED
  BY <1>1, CoordinatorInvariant, PTL

-----------------------------------------------------------------------------
(* The coordinator implements two channels: a channel is open as long as   *)
(* somebody has its write end.                                             *)

LEMMA Writers ==
    \A x \in Peer : HasWriter(x) <=> WriteEnd(x) \in fds["parent"] \cup fds["child"]
BY DEF HasWriter, Peer

(* Closing descriptors, or leaving them alone, is a step of the channel. *)
LEMMA ClosingShuts ==
    ASSUME UNCHANGED <<pipe, answer>>, \A p \in Peer : fds'[p] \subseteq fds[p]
    PROVE  Abstract!Next
<1> DEFINE S == {x \in Peer : ~ HasWriter(x)'}
<1>1. \A x \in Peer : HasWriter(x)' => HasWriter(x)
  BY DEF HasWriter, WriteEnd, Other
<1>2. [x \in Peer |-> HasWriter(x)]' = [x \in Peer |-> HasWriter(x) /\ x \notin S]
  <2>1. \A x \in Peer : x \in S <=> ~ HasWriter(x)'
    BY Zenon
  <2> HIDE DEF S
  <2>2. \A x \in Peer : HasWriter(x)' <=> (HasWriter(x) /\ x \notin S)
    BY <1>1, <2>1, Zenon
  <2>3. \A x \in Peer : HasWriter(x)' = (HasWriter(x) /\ x \notin S)
    BY <2>2 DEF HasWriter
  <2> QED
    BY <2>3, Zenon
<1>3. \A x \in Peer : [y \in Peer |-> HasWriter(y)][x] = HasWriter(x)
  BY Zenon
<1>4. Abstract!Peer = Peer
  BY DEF Abstract!Peer, Peer
<1> HIDE DEF S
<1>5. Abstract!Shut(S)
  BY <1>2, <1>3, <1>4, Zenon DEF Abstract!Shut
<1>6. S \in SUBSET Peer
  BY DEF S
<1> QED
  BY <1>4, <1>5, <1>6 DEF Abstract!Next

LEMMA PrepareOpens ==
    ASSUME CoordinatorInv, PrepareFirst \/ PrepareSecond
    PROVE  Abstract!Next
<1>1. fds["child"] = {} /\ fds' = [fds EXCEPT !["parent"] = fds'["parent"]] /\ UNCHANGED <<pipe, answer>>
  <2>1. role["parent"] = "UNSET" /\ call["parent"].op \in {"idle", "prepare"}
    BY IdleOp DEF PrepareFirst, PrepareSecond, Free, CoordinatorInv, KinInv, CallsFit
  <2>2. role["child"] = "UNSET" /\ call["child"].op # "prepare"
    BY <2>1 DEF CoordinatorInv, KinInv, CallsFit
  <2>3. fds["child"] = {}
    BY <2>2 DEF CoordinatorInv, EndsInv, NoLeakedEnds, Peer
  <2> QED
    BY <2>3 DEF PrepareFirst, PrepareSecond, CoordinatorInv, EndsInv, Peer
<1>2. PICK x \in Peer : /\ ~ HasWriter(x) /\ HasWriter(x)'
                       /\ \A y \in Peer \ {x} : HasWriter(y)' <=> HasWriter(y)
  <2>1. CASE PrepareFirst
    <3>1. fds["parent"] = {} /\ fds'["parent"] = Ends("child") /\ fds'["child"] = {}
      BY <1>1, <2>1, IdleOp DEF PrepareFirst, Free, CoordinatorInv, EndsInv, NoLeakedEnds, Peer
    <3>2. ~ HasWriter("parent") /\ ~ HasWriter("child")
      BY <1>1, <3>1 DEF HasWriter, Peer
    <3>3. HasWriter("parent")' /\ ~ HasWriter("child")'
      BY <3>1 DEF HasWriter, WriteEnd, Other, Ends, End, Peer
    <3>4. \A y \in Peer \ {"parent"} : y = "child"
      BY DEF Peer
    <3> QED
      BY <3>2, <3>3, <3>4 DEF Peer, HasWriter, WriteEnd, Other
  <2>2. CASE ~ PrepareFirst
    <3>1. fds["parent"] = Ends("child") /\ fds'["parent"] = End /\ fds'["child"] = {}
      BY <1>1, <2>2 DEF PrepareSecond, CoordinatorInv, EndsInv, Peer
    <3>2. HasWriter("parent") /\ ~ HasWriter("child")
      BY <1>1, <3>1 DEF HasWriter, WriteEnd, Other, Ends, End, Peer
    <3>3. HasWriter("parent")' /\ HasWriter("child")'
      BY <3>1 DEF HasWriter, WriteEnd, Other, Ends, End, Peer
    <3>4. \A y \in Peer \ {"child"} : y = "parent"
      BY DEF Peer
    <3> QED
      BY <3>2, <3>3, <3>4 DEF Peer, HasWriter, WriteEnd, Other
  <2> QED
    BY <2>1, <2>2
<1>4. \A y \in Peer : HasWriter(y)' = IF y = x THEN TRUE ELSE HasWriter(y)
  BY <1>2 DEF HasWriter, WriteEnd, Other
<1>5. [y \in Peer |-> HasWriter(y)]' = [[y \in Peer |-> HasWriter(y)] EXCEPT ![x] = TRUE]
  <2> DEFINE F == [y \in Peer |-> HasWriter(y)]
             G == [F EXCEPT ![x] = TRUE]
  <2>1. G = [y \in Peer |-> IF y = x THEN TRUE ELSE HasWriter(y)]
    BY Zenon
  <2>2. F' = [y \in Peer |-> IF y = x THEN TRUE ELSE HasWriter(y)]
    BY <1>4, Zenon
  <2> QED
    BY <2>1, <2>2, Zenon
<1>6. Abstract!Open(x)
  BY <1>1, <1>2, <1>5, Zenon DEF Abstract!Open
<1>7. Abstract!Peer = Peer
  BY DEF Abstract!Peer, Peer
<1> QED
  BY <1>2, <1>6, <1>7, Zenon DEF Abstract!Next

(* The child gets copies, so nobody writes who could not be written for.   *)
LEMMA ForkShuts ==
    ASSUME CoordinatorInv, Fork
    PROVE  UNCHANGED <<pipe, [x \in Peer |-> HasWriter(x)], answer>>
<1>1. role["child"] = "UNSET" /\ call["child"].op # "prepare"
  BY DEF Fork, CoordinatorInv, KinInv, CallsFit
<1>2. fds["child"] = {}
  BY <1>1 DEF CoordinatorInv, EndsInv, NoLeakedEnds, Peer
<1>3. fds'["parent"] = fds["parent"] /\ fds'["child"] = fds["parent"]
  BY DEF Fork, CoordinatorInv, EndsInv, Peer
<1>4. \A x \in Peer : HasWriter(x)' = HasWriter(x)
  BY <1>2, <1>3 DEF HasWriter, WriteEnd, Other, Peer
<1>5. [x \in Peer |-> HasWriter(x)]' = [x \in Peer |-> HasWriter(x)]
  BY <1>4, Zenon
<1> QED
  BY <1>5 DEF Fork

LEMMA WritePutsIn ==
    ASSUME CoordinatorInv, PipeType', NEW x \in Peer, Write(x)
    PROVE  Abstract!Next
<1> DEFINE o == Other(x)
           room == Capacity - Len(pipe[o])
           n    == IF Len(call[x].left) < room THEN Len(call[x].left) ELSE room
           part == SubSeq(call[x].left, 1, n)
<1>1. part \in Seq(Any) /\ pipe' = [pipe EXCEPT ![o] = @ \o part]
  BY WriteAmount
<1>2. o \in Peer /\ o # x
  BY DEF Other, Peer
<1>3. UNCHANGED <<fds, answer>> /\ WriteEnd(x) \in fds[x]
  BY DEF Write, CoordinatorInv, EndsInv
<1>4. [y \in Peer |-> HasWriter(y)]' = [y \in Peer |-> HasWriter(y)]
  BY <1>3, Zenon DEF HasWriter, WriteEnd, Other
<1>5. [y \in Peer |-> HasWriter(y)][x]
  BY <1>3 DEF HasWriter
<1> HIDE DEF o, part, room, n
<1>6. pipe \in [Peer -> Seq(Any)]
  BY DEF CoordinatorInv, PipeType
<1>7. pipe'[x] = pipe[x] /\ pipe'[o] = pipe[o] \o part
  BY <1>1, <1>2, <1>6
<1>8. Len(pipe[o]) <= Len(pipe'[o]) /\ SubSeq(pipe[o], 1, Len(pipe[o])) = SubSeq(pipe'[o], 1, Len(pipe[o]))
  <2> DEFINE s == pipe[o]
             t == part
             k == Len(s)
  <2>1. s \in Seq(Any) /\ t \in Seq(Any)
    BY <1>1, <1>2, <1>6
  <2> HIDE DEF s, t
  <2>2. /\ Len(s \o t) = k + Len(t) /\ k \in Nat /\ Len(t) \in Nat
        /\ \A i \in 1 .. k : (s \o t)[i] = s[i] /\ s[i] \in Any
    BY <2>1, ConcatProperties
  <2> HIDE DEF k
  <2> DEFINE u == SubSeq(s, 1, k)
             v == SubSeq(s \o t, 1, k)
  <2>3. /\ u \in Seq(Any) /\ Len(u) = k /\ \A i \in 1 .. k : u[i] = s[i]
        /\ v \in Seq(Any) /\ Len(v) = k /\ \A i \in 1 .. k : v[i] = (s \o t)[i]
    BY <2>2, SubSeqProperties
  <2> HIDE DEF u, v
  <2>4. u = v
    BY <2>2, <2>3
  <2> QED
    BY <1>7, <2>2, <2>4 DEF u, v, s, t, k
<1>9. pipe' \in [Peer -> Seq(Byte \cup {Ready})]
  BY DEF PipeType, Any
<1>10. Abstract!Peer = Peer /\ Abstract!Other(x) = o
  BY DEF Abstract!Peer, Peer, Abstract!Other, o, Other
<1>11. Abstract!Put(x)
  BY <1>3, <1>4, <1>5, <1>7, <1>8, <1>9, <1>10, Zenon DEF Abstract!Put, Abstract!IsPrefix
<1> QED
  BY <1>10, <1>11, Zenon DEF Abstract!Next

LEMMA ReceivesFromIt ==
    ASSUME CoordinatorInv, NEW x \in Peer, Receives(x)
    PROVE  Abstract!Next
<1> DEFINE F == [y \in Peer |-> HasWriter(y)]
<1>1. F' = F
  <2>1. UNCHANGED fds
    BY DEF Receives, Receive, Expect, ReceiveClosed, ReceiveTimesOut
  <2> QED
    BY <2>1, Zenon DEF HasWriter, WriteEnd, Other
<1>2. F[Other(x)] = HasWriter(Other(x))
  BY DEF Other, Peer
<1>3. Abstract!Peer = Peer /\ Abstract!Other(x) = Other(x)
  BY DEF Abstract!Peer, Peer, Abstract!Other, Other
<1>4. CASE Receive(x) \/ Expect(x)
  <2>1. PICK n \in 1 .. Len(pipe[x]) : Take(x, n)
    <3>1. pipe[x] # <<>> => 1 \in 1 .. Len(pipe[x])
      BY DEF CoordinatorInv, PipeType
    <3> QED
      BY <1>4, <3>1 DEF Receive, Expect
  <2>2. Abstract!Take(x)
    BY <1>1, <2>1, Zenon DEF Abstract!Take, Abstract!Data, Take, Answer
  <2> QED
    BY <1>3, <2>2, Zenon DEF Abstract!Next
<1>5. CASE ReceiveClosed(x)
  <2>1. Abstract!Closed(x)
    BY <1>1, <1>2, <1>3, <1>5, Zenon DEF Abstract!Closed, Abstract!Nothing, ReceiveClosed, Answer
  <2> QED
    BY <1>3, <2>1, Zenon DEF Abstract!Next
<1>6. CASE ReceiveTimesOut(x)
  <2>1. Abstract!TimedOut(x)
    BY <1>1, <1>2, <1>3, <1>6, Zenon DEF Abstract!TimedOut, Abstract!Nothing, ReceiveTimesOut, Answer
  <2> QED
    BY <1>3, <2>1, Zenon DEF Abstract!Next
<1> QED
  BY <1>4, <1>5, <1>6 DEF Receives

LEMMA CoordinatorRefines ==
    ASSUME CoordinatorInv, CoordinatorInv', [Next]_vars
    PROVE  [Abstract!Next]_<<pipe, [x \in Peer |-> HasWriter(x)], answer>>
<1> DEFINE Refined == Abstract!Next \/ UNCHANGED <<pipe, [x \in Peer |-> HasWriter(x)], answer>>
<1>1. CASE PrepareFirst \/ PrepareSecond
  BY <1>1, PrepareOpens
<1>2. CASE Fork
  BY <1>2, ForkShuts
<1>3. ASSUME NEW x \in Peer, Write(x) PROVE Refined
  BY <1>3, WritePutsIn DEF CoordinatorInv
<1>4. ASSUME NEW x \in Peer, Receives(x) PROVE Refined
  BY <1>4, ReceivesFromIt
<1>5. CASE \/ PrepareFails \/ AfterForkParent \/ AfterForkChild
           \/ \E x \in Peer : Destroy(x) \/ Exit(x)
  <2>1. UNCHANGED <<pipe, answer>>
    BY <1>5 DEF PrepareFails, AfterForkParent, AfterForkChild, Destroy, Exit
  <2>2. \A p \in Peer : fds'[p] \subseteq fds[p]
    <3>1. CASE PrepareFails \/ AfterForkParent \/ AfterForkChild
      BY <3>1 DEF PrepareFails, AfterForkParent, AfterForkChild, CoordinatorInv, EndsInv
    <3>2. ASSUME NEW x \in Peer, Destroy(x) \/ Exit(x) PROVE fds' = [fds EXCEPT ![x] = {}]
      BY <3>2 DEF Destroy, Exit
    <3> QED
      BY <1>5, <3>1, <3>2 DEF CoordinatorInv, EndsInv
  <2> QED
    BY <2>1, <2>2, ClosingShuts
<1>6. CASE \/ CallWait \/ WaitReturns \/ WaitFails \/ Term \/ Grace \/ Reap \/ PidReused \/ UNCHANGED vars
           \/ \E x \in Peer : CallSend(x) \/ CallSignal(x) \/ WriteInterrupted(x) \/ WriteToNobody(x) \/ CallReceive(x)
  <2>1. UNCHANGED <<pipe, answer, fds>>
    BY <1>6 DEF CallWait, WaitReturns, WaitFails, Term, Grace, Reap, PidReused, CallSend, CallSignal, Sends,
                WriteInterrupted, WriteToNobody, CallReceive, vars
  <2>2. \A p \in Peer : fds'[p] \subseteq fds[p]
    BY <2>1
  <2> QED
    BY <2>1, <2>2, ClosingShuts
<1> QED
  BY <1>1, <1>2, <1>3, <1>4, <1>5, <1>6 DEF Next, Parent, Either, Finished

(* What is received is what was sent, in its order and once; the end is    *)
(* told after the last byte, a timeout when there is none                  *)
(* (process_coordinator.c:135-187, 234-290).                               *)
THEOREM ChannelImplemented == Spec => ImplementsChannel
<1>1. CoordinatorInv /\ CoordinatorInv' /\ [Next]_vars
        => [Abstract!Next]_<<pipe, [x \in Peer |-> HasWriter(x)], answer>>
  BY CoordinatorRefines
<1> QED
  BY <1>1, CoordinatorInvariant, PTL DEF Spec, ImplementsChannel
=============================================================================
