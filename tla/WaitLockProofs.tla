--------------------------- MODULE WaitLockProofs ----------------------------
(***************************************************************************)
(* Theorems about WaitLock, for every number of runs, descriptors and      *)
(* slots.                                                                  *)
(***************************************************************************)
EXTENDS WaitLock, SequenceTheorems, TLAPS

USE MaxHoldersAssumption, MaxWriteFailuresAssumption

(* A write may fail no more often than the bound allows, and undo counts   *)
(* the failure after the fact: TypeOK alone is not inductive.              *)
UndoCounted == \A p \in Run : pc[p] = "undo" => gen[p] < MaxWriteFailures

TypeInv == TypeOK /\ UndoCounted

(* The path of any slot below -m is a path of the directory (lock.c:205). *)
LEMMA SlotPathType ==
    ASSUME TypeOK, NEW p \in Run, NEW s \in Nat, s < opts[p].max
    PROVE  SlotPath(p, s) \in Path
BY OptionsAssumption DEF TypeOK, SlotPath, Path

(* try_slot++ stays within the slots (lock.c:204-205). *)
LEMMA NextSlotType ==
    ASSUME TypeOK, NEW p \in Run, NextSlot(p)
    PROVE  at' \in [Run -> Path] /\ pc' \in [Run -> Label]
<1>1. CASE at[p].slot + 1 < opts[p].max
  <2>1. at[p].slot + 1 \in Nat
    BY DEF TypeOK, Path
  <2>2. SlotPath(p, at[p].slot + 1) \in Path
    BY <1>1, <2>1, SlotPathType
  <2> QED
    BY <1>1, <2>2 DEF NextSlot, Goto, TypeOK, Label, Live, Acquiring
<1>2. CASE ~ (at[p].slot + 1 < opts[p].max)
  BY <1>2 DEF NextSlot, Goto, TypeOK, Label, Live, Acquiring
<1> QED
  BY <1>1, <1>2

(* The initial states have the types. *)
LEMMA InitType == Init => TypeOK
<1> SUFFICES ASSUME Init PROVE TypeOK
  OBVIOUS
<1>1. \A p \in Run : SlotPath(p, 0) \in Path
  BY OptionsAssumption DEF Init, SlotPath, Path
<1> QED
  BY <1>1 DEF Init, TypeOK, Label, Result

(* Every step of a run's own code keeps the types. *)
LEMMA StepType ==
    ASSUME TypeInv, NEW p \in Run, Step(p)
    PROVE  TypeOK'
<1> USE DEF TypeInv, TypeOK, Goto, Return, dirVars, scanVars, fdVars, Label, Live, Acquiring, Claimed, Result
<1>1. CASE GiveUp(p)
  BY <1>1 DEF GiveUp
<1>2. CASE BeginScan(p)
  <2>1. AcquireMatches(opts[p].desc) \subseteq Path
    BY DEF AcquireMatches
  <2> QED
    BY <1>2, <2>1 DEF BeginScan
<1>3. CASE Visit(p)
  <2>1. PICK x \in todo[p] :
          /\ todo' = [todo EXCEPT ![p] = @ \ {x}]
          /\ \/ UNCHANGED <<pc, at, seen>>
             \/ \E f \in files : /\ at' = [at EXCEPT ![p] = x]
                                 /\ seen' = [seen EXCEPT ![p] = f.owner]
                                 /\ pc' = [pc EXCEPT ![p] = "exists"]
    BY <1>3 DEF Visit, ValidAt, FilesAt
  <2>2. x \in Path
    BY <2>1
  <2>3. \A f \in files : f.owner \in Run
    BY DEF File
  <2> QED
    BY <1>3, <2>1, <2>2, <2>3 DEF Visit
<1>4. CASE CountLive(p)
  BY <1>4 DEF CountLive
<1>5. CASE Condemn(p)
  BY <1>5 DEF Condemn
<1>6. CASE Reap(p)
  BY <1>6 DEF Reap, Unlink
<1>7. CASE Busy(p)
  BY <1>7 DEF Busy
<1>8. CASE AwaitSlot(p)
  BY <1>8 DEF AwaitSlot
<1>9. CASE BeginClaim(p)
  <2>1. SlotPath(p, 0) \in Path
    BY OptionsAssumption, SlotPathType
  <2> QED
    BY <1>9, <2>1 DEF BeginClaim
<1>10. CASE Create(p)
  <2>1. NewFile(p) \in File
    BY DEF NewFile, File
  <2> QED
    BY <1>10, <2>1 DEF Create
<1>11. CASE SlotTaken(p)
  <2>1. at' \in [Run -> Path] /\ pc' \in [Run -> Label]
    BY <1>11, NextSlotType DEF SlotTaken
  <2> QED
    BY <1>11, <2>1 DEF SlotTaken
<1>12. CASE Write(p)
  <2>1. NewFile(p) \in File
    BY DEF NewFile, File
  <2> QED
    BY <1>12, <2>1 DEF Write
<1>13. CASE Undo(p)
  <2>1. at' \in [Run -> Path] /\ pc' \in [Run -> Label]
    BY <1>13, NextSlotType DEF Undo
  <2>2. gen[p] + 1 \in 0 .. MaxWriteFailures
    BY <1>13 DEF Undo, UndoCounted
  <2> QED
    BY <1>13, <2>1, <2>2 DEF Undo, Unlink
<1>14. CASE Open(p)
  BY <1>14 DEF Open, FilesAt
<1>15. CASE Flock(p)
  BY <1>15 DEF Flock
<1>16. CASE Sleep(p)
  BY <1>16 DEF Sleep
<1>17. CASE ReleaseClose(p)
  BY <1>17 DEF ReleaseClose
<1>18. CASE ReleaseUnlink(p)
  BY <1>18 DEF ReleaseUnlink, Unlink
<1> QED
  BY <1>1, <1>2, <1>3, <1>4, <1>5, <1>6, <1>7, <1>8, <1>9, <1>10, <1>11, <1>12,
     <1>13, <1>14, <1>15, <1>16, <1>17, <1>18 DEF Step

(* So does whatever happens to a run from outside. *)
LEMMA OutsideType ==
    ASSUME TypeOK, NEW p \in Run, Outside(p)
    PROVE  TypeOK'
<1> USE DEF TypeOK, Goto, dirVars, scanVars, fdVars, Label, Live, Acquiring, Claimed, Result
<1>1. CASE Start(p)
  BY <1>1 DEF Start
<1>2. CASE WriteFails(p)
  BY <1>2 DEF WriteFails
<1>3. CASE CommandEnds(p)
  BY <1>3 DEF CommandEnds
<1>4. CASE Expire(p)
  BY <1>4 DEF Expire
<1>5. CASE Killed(p)
  BY <1>5 DEF Killed, Die
<1>6. CASE OrphanEnds(p)
  BY <1>6 DEF OrphanEnds
<1>7. CASE ParentWaits(p)
  BY <1>7 DEF ParentWaits
<1> QED
  BY <1>1, <1>2, <1>3, <1>4, <1>5, <1>6, <1>7 DEF Outside

(* Only a write that may still fail leads to "undo". *)
LEMMA UndoCountedStep ==
    ASSUME TypeInv, NEW p \in Run, Step(p) \/ Outside(p)
    PROVE  UndoCounted'
<1> USE DEF TypeInv, TypeOK, UndoCounted, Goto, Return, dirVars, scanVars, fdVars
<1>1. CASE WriteFails(p)
  BY <1>1 DEF WriteFails
<1>2. CASE Undo(p)
  BY <1>2 DEF Undo, NextSlot
<1>3. CASE SlotTaken(p)
  BY <1>3 DEF SlotTaken, NextSlot
<1>4. CASE /\ ~ WriteFails(p)
           /\ ~ Undo(p)
           /\ ~ SlotTaken(p)
  BY <1>4 DEF Step, Outside, GiveUp, BeginScan, Visit, CountLive, Condemn, Reap, Busy,
     AwaitSlot, BeginClaim, Create, Write, Open, Flock, Sleep, ReleaseClose,
     ReleaseUnlink, Start, CommandEnds, Expire, Killed, Die, OrphanEnds, ParentWaits
<1> QED
  BY <1>1, <1>2, <1>3, <1>4

LEMMA TypeInvInductive ==
    /\ Init => TypeInv
    /\ TypeInv /\ [Next]_vars => TypeInv'
<1>1. Init => TypeInv
  BY InitType DEF Init, TypeInv, UndoCounted
<1>2. ASSUME TypeInv, [Next]_vars PROVE TypeInv'
  <2>1. CASE \E p \in Run : Step(p) \/ Outside(p)
    BY <1>2, <2>1, StepType, OutsideType, UndoCountedStep DEF TypeInv
  <2>2. CASE UNCHANGED vars
    BY <1>2, <2>2 DEF TypeInv, TypeOK, UndoCounted, vars
  <2> QED
    BY <1>2, <2>1, <2>2 DEF Next, Finished
<1> QED
  BY <1>1, <1>2

(* Type correctness: every variable keeps its type in every behaviour. *)
THEOREM TypeCorrect == Spec => []TypeOK
<1>1. Init => TypeInv
  BY TypeInvInductive
<1>2. TypeInv /\ [Next]_vars => TypeInv'
  BY TypeInvInductive
<1>3. TypeInv => TypeOK
  BY DEF TypeInv
<1> QED
  BY <1>1, <1>2, <1>3, PTL DEF Spec

-----------------------------------------------------------------------------
(* A run gives up a path only by unlinking it. *)
LEMMA NothingLeftBehindStep ==
    ASSUME TypeOK, NothingLeftBehind, KillPoints \cap Claimed = {}, NEW p \in Run, Step(p) \/ Outside(p)
    PROVE  NothingLeftBehind'
<1> USE DEF NothingLeftBehind, TypeOK, Claimed, Goto, Return, dirVars, scanVars, fdVars
<1>1. CASE files' = files /\ UNCHANGED <<pc, at>>
  BY <1>1
<1>2. CASE Create(p)
  <2>1. NewFile(p).owner = p /\ NewFile(p).path = at[p]
    BY DEF NewFile
  <2>2. \A f \in files : f.owner \in Run /\ f.owner # p
    BY <1>2 DEF Create, File
  <2> QED
    BY <1>2, <2>1, <2>2 DEF Create
<1>3. CASE Undo(p) \/ ReleaseUnlink(p)
  <2>1. files' = {f \in files : f.path # at[p]}
    BY <1>3 DEF Undo, ReleaseUnlink, Unlink
  <2>2. \A f \in files' : f.owner \in Run \ {p}
    BY <2>1 DEF File
  <2>3. \A q \in Run \ {p} : pc'[q] = pc[q] /\ at'[q] = at[q]
    BY <1>3 DEF Undo, NextSlot, ReleaseUnlink
  <2> QED
    BY <2>1, <2>2, <2>3
<1>4. CASE Reap(p)
  <2>1. \A f \in files : f.owner \in Run \ {p}
    BY <1>4 DEF Reap, File
  <2> QED
    BY <1>4, <2>1 DEF Reap, Unlink
<1>5. CASE /\ files' = files
           /\ pc[p] \notin Claimed
           /\ \A q \in Run \ {p} : pc'[q] = pc[q] /\ at'[q] = at[q]
  <2>1. \A f \in files : f.owner \in Run \ {p}
    BY <1>5 DEF File
  <2> QED
    BY <1>5, <2>1
<1>6. CASE /\ files' = files
           /\ pc'[p] \in Claimed /\ at' = at
           /\ \A q \in Run \ {p} : pc'[q] = pc[q]
  <2>1. \A f \in files : f.owner \in Run
    BY DEF File
  <2> QED
    BY <1>6, <2>1
<1>7. CASE Step(p)
  <2>1. CASE \/ GiveUp(p) \/ BeginScan(p) \/ Visit(p) \/ CountLive(p) \/ Condemn(p)
             \/ Busy(p) \/ AwaitSlot(p) \/ BeginClaim(p) \/ SlotTaken(p) \/ Sleep(p)
    BY <2>1, <1>5 DEF GiveUp, BeginScan, Visit, CountLive, Condemn, Busy, AwaitSlot,
       BeginClaim, SlotTaken, NextSlot, Sleep, ScanDone
  <2>2. CASE \/ Write(p) \/ Open(p) \/ Flock(p) \/ ReleaseClose(p)
    BY <2>2, <1>6 DEF Write, Open, Flock, ReleaseClose
  <2> QED
    BY <1>2, <1>3, <1>4, <1>7, <2>1, <2>2 DEF Step
<1>8. CASE Outside(p)
  <2>1. CASE Start(p) \/ ParentWaits(p)
    BY <2>1, <1>5 DEF Start, ParentWaits
  <2>2. CASE WriteFails(p) \/ CommandEnds(p)
    BY <2>2, <1>6 DEF WriteFails, CommandEnds
  <2>3. CASE Expire(p) \/ OrphanEnds(p)
    BY <2>3, <1>1 DEF Expire, OrphanEnds
  <2>4. CASE Killed(p)
    BY <2>4, <1>5 DEF Killed, Die
  <2> QED
    BY <1>8, <2>1, <2>2, <2>3, <2>4 DEF Outside
<1> QED
  BY <1>7, <1>8

(* Where nobody is killed who has a lock file, commands that end leave an  *)
(* empty directory: every file there belongs to a live run that will       *)
(* unlink that very path.                                                  *)
THEOREM NoLeftovers == KillPoints \cap Claimed = {} => (Spec => []NothingLeftBehind)
<1> SUFFICES ASSUME KillPoints \cap Claimed = {} PROVE Spec => []NothingLeftBehind
  OBVIOUS
<1>1. Init => NothingLeftBehind
  BY DEF Init, NothingLeftBehind
<1>2. TypeOK /\ NothingLeftBehind /\ [Next]_vars => NothingLeftBehind'
  <2> SUFFICES ASSUME TypeOK, NothingLeftBehind, [Next]_vars PROVE NothingLeftBehind'
    OBVIOUS
  <2>1. CASE \E p \in Run : Step(p) \/ Outside(p)
    BY <2>1, NothingLeftBehindStep
  <2>2. CASE UNCHANGED vars
    BY <2>2 DEF NothingLeftBehind, vars
  <2> QED
    BY <2>1, <2>2 DEF Next, Finished
<1> QED
  BY <1>1, <1>2, TypeCorrect, PTL DEF Spec

-----------------------------------------------------------------------------
(* Names, paths and owners: what one step of one run does to them *)

(* All runs are on one machine. *)
OneMachine == \A p, q \in Run : HostOf[p] = HostOf[q]

(* No number is used twice, so that no record names another process. *)
OwnNumbers == \A p, q \in Run : PidOf[p] = PidOf[q] => p = q

(* open(O_EXCL) never gives one name to two files (lock.c:208). *)
UniqueNames == \A f, g \in files : f.path = g.path => f = g

(* A step of run p moves no other run. *)
LEMMA OthersUnmoved ==
    ASSUME TypeOK, NEW p \in Run, Step(p) \/ Outside(p)
    PROVE  \A q \in Run \ {p} :
             /\ pc'[q] = pc[q] /\ at'[q] = at[q]
             /\ seen'[q] = seen[q] /\ gen'[q] = gen[q]
<1> USE DEF TypeOK, Goto, Return, dirVars, scanVars, fdVars
<1>1. CASE Step(p)
  <2>1. CASE \/ GiveUp(p) \/ BeginScan(p) \/ Visit(p) \/ CountLive(p) \/ Condemn(p)
             \/ Reap(p) \/ Busy(p) \/ AwaitSlot(p) \/ BeginClaim(p)
    BY <2>1 DEF GiveUp, BeginScan, Visit, CountLive, Condemn, Reap, Busy, AwaitSlot,
       BeginClaim
  <2>2. CASE \/ Create(p) \/ SlotTaken(p) \/ Write(p) \/ Undo(p) \/ Open(p) \/ Flock(p)
             \/ Sleep(p) \/ ReleaseClose(p) \/ ReleaseUnlink(p)
    BY <2>2 DEF Create, SlotTaken, NextSlot, Write, Undo, Open, Flock, Sleep,
       ReleaseClose, ReleaseUnlink
  <2> QED
    BY <1>1, <2>1, <2>2 DEF Step
<1>2. CASE Outside(p)
  BY <1>2 DEF Outside, Start, WriteFails, CommandEnds, Expire, Killed, Die, OrphanEnds,
     ParentWaits
<1> QED
  BY <1>1, <1>2

(* Files come into the directory one at a time, under a free name; they    *)
(* leave it by the unlink of a name.                                       *)
LEMMA DirectorySteps ==
    ASSUME NEW p \in Run, Step(p) \/ Outside(p)
    PROVE  \/ files' = files /\ ~ Create(p)
           \/ Create(p)
           \/ files' = Unlink(files, at[p]) /\ (Reap(p) \/ Undo(p) \/ ReleaseUnlink(p))
<1> USE DEF dirVars, scanVars, fdVars
<1>1. CASE Step(p)
  BY <1>1 DEF Step, GiveUp, BeginScan, Visit, CountLive, Condemn, Reap, Busy, AwaitSlot,
     BeginClaim, SlotTaken, Write, Undo, Open, Flock, Sleep, ReleaseClose, ReleaseUnlink,
     Create
<1>2. CASE Outside(p)
  BY <1>2 DEF Outside, Start, WriteFails, CommandEnds, Expire, Killed, Die, OrphanEnds,
     ParentWaits, Create
<1> QED
  BY <1>1, <1>2

LEMMA UniqueNamesStep ==
    ASSUME UniqueNames, NEW p \in Run, Step(p) \/ Outside(p)
    PROVE  UniqueNames'
<1>1. CASE Create(p)
  BY <1>1 DEF Create, UniqueNames, FilesAt, NewFile
<1>2. CASE ~ Create(p)
  <2>1. files' \subseteq files
    BY <1>2, DirectorySteps DEF Unlink
  <2> QED
    BY <2>1 DEF UniqueNames
<1> QED
  BY <1>1, <1>2

(* A run comes to own a path by creating a file there, and keeps to that   *)
(* path and that file for as long as it owns it.                           *)
LEMMA OwnerKeepsPath ==
    ASSUME TypeOK, NEW p \in Run, Step(p) \/ Outside(p), pc'[p] \in Claimed, ~ Create(p)
    PROVE  /\ pc[p] \in Claimed /\ at'[p] = at[p] /\ gen'[p] = gen[p]
           /\ files' = files
<1> USE DEF TypeOK, Goto, Return, Claimed, dirVars, scanVars, fdVars
<1>1. CASE Step(p)
  <2>1. CASE \/ GiveUp(p) \/ BeginScan(p) \/ Visit(p) \/ CountLive(p) \/ Condemn(p)
             \/ Reap(p) \/ Busy(p) \/ AwaitSlot(p) \/ BeginClaim(p)
    BY <2>1 DEF GiveUp, BeginScan, Visit, CountLive, Condemn, Reap, Busy, AwaitSlot,
       BeginClaim, ScanDone
  <2>2. CASE \/ SlotTaken(p) \/ Write(p) \/ Undo(p) \/ Open(p) \/ Flock(p)
             \/ Sleep(p) \/ ReleaseClose(p) \/ ReleaseUnlink(p)
    BY <2>2 DEF SlotTaken, NextSlot, Write, Undo, Open, Flock, Sleep,
       ReleaseClose, ReleaseUnlink
  <2> QED
    BY <1>1, <2>1, <2>2 DEF Step
<1>2. CASE Outside(p)
  BY <1>2 DEF Outside, Start, WriteFails, CommandEnds, Expire, Killed, Die, OrphanEnds,
     ParentWaits
<1> QED
  BY <1>1, <1>2

(* A run examines a record because it has just read it there, or because   *)
(* it went on from the lookup of the process.                              *)
LEMMA ExaminerSteps ==
    ASSUME TypeOK, NEW p \in Run, Step(p) \/ Outside(p), pc'[p] \in {"exists", "reap"}
    PROVE  \/ /\ pc'[p] = "exists"
              /\ \E f \in files : f.path = at'[p] /\ f.owner = seen'[p]
           \/ Condemn(p)
           \/ pc'[p] = pc[p] /\ at'[p] = at[p] /\ seen'[p] = seen[p]
<1> USE DEF TypeOK, Goto, Return, dirVars, scanVars, fdVars
<1>1. CASE Visit(p)
  <2>1. PICK x \in todo[p] :
          \/ UNCHANGED <<pc, at, seen>>
          \/ \E f \in files : /\ f.path = x
                              /\ at' = [at EXCEPT ![p] = x]
                              /\ seen' = [seen EXCEPT ![p] = f.owner]
                              /\ pc' = [pc EXCEPT ![p] = "exists"]
    BY <1>1 DEF Visit, ValidAt, FilesAt
  <2> QED
    BY <2>1
<1>2. CASE Step(p) /\ ~ Visit(p)
  <2>1. CASE \/ GiveUp(p) \/ BeginScan(p) \/ CountLive(p)
             \/ Reap(p) \/ Busy(p) \/ AwaitSlot(p) \/ BeginClaim(p)
    BY <2>1 DEF GiveUp, BeginScan, CountLive, Reap, Busy, AwaitSlot, BeginClaim
  <2>2. CASE \/ Create(p) \/ SlotTaken(p) \/ Write(p) \/ Undo(p) \/ Open(p) \/ Flock(p)
             \/ Sleep(p) \/ ReleaseClose(p) \/ ReleaseUnlink(p)
    BY <2>2 DEF Create, SlotTaken, NextSlot, Write, Undo, Open, Flock, Sleep,
       ReleaseClose, ReleaseUnlink
  <2> QED
    BY <1>2, <2>1, <2>2 DEF Step
<1>3. CASE Outside(p)
  BY <1>3 DEF Outside, Start, WriteFails, CommandEnds, Expire, Killed, Die, OrphanEnds,
     ParentWaits
<1> QED
  BY <1>1, <1>2, <1>3

(* A run claims, and holds, a slot of its own descriptor (lock.c:205).     *)
OwnDescriptor ==
    \A p \in Run : pc[p] \in {"claim"} \cup Claimed => at[p].desc = opts[p].desc

(* Only the search for a slot moves a run to another path, and it stays   *)
(* with the run's descriptor.                                              *)
LEMMA OwnDescriptorStep ==
    ASSUME TypeOK, OwnDescriptor, NEW p \in Run, Step(p) \/ Outside(p)
    PROVE  OwnDescriptor'
<1>1. opts' = opts
  BY DEF Step, Outside, GiveUp, BeginScan, Visit, CountLive, Condemn, Reap, Busy,
     AwaitSlot, BeginClaim, Create, SlotTaken, Write, Undo, Open, Flock, Sleep,
     ReleaseClose, ReleaseUnlink, Start, WriteFails, CommandEnds, Expire, Killed, Die,
     OrphanEnds, ParentWaits
<1>2. CASE BeginClaim(p)
  BY <1>1, <1>2, OthersUnmoved DEF BeginClaim, SlotPath, OwnDescriptor, TypeOK
<1>3. CASE SlotTaken(p) \/ Undo(p)
  BY <1>1, <1>3, OthersUnmoved DEF SlotTaken, Undo, NextSlot, Goto, SlotPath,
     OwnDescriptor, TypeOK, Claimed
<1>4. CASE Create(p)
  BY <1>1, <1>4, OthersUnmoved DEF Create, OwnDescriptor, TypeOK
<1>5. CASE ~ BeginClaim(p) /\ ~ SlotTaken(p) /\ ~ Undo(p) /\ ~ Create(p)
  <2>1. pc'[p] = "claim" => pc[p] = "claim" /\ at' = at
    BY <1>5 DEF Step, Outside, GiveUp, BeginScan, Visit, CountLive, Condemn, Reap,
       Busy, AwaitSlot, Write, Open, Flock, Sleep, ReleaseClose, ReleaseUnlink, Start,
       WriteFails, CommandEnds, Expire, Killed, Die, OrphanEnds, ParentWaits,
       Goto, Return, TypeOK, ScanDone
  <2> QED
    BY <1>1, <1>5, <2>1, OthersUnmoved, OwnerKeepsPath DEF OwnDescriptor
<1> QED
  BY <1>2, <1>3, <1>4, <1>5

-----------------------------------------------------------------------------
(* Whose files there are *)

Dead == {"zombie", "ended"}

(* No live run forgets a file, one whose write failed included. *)
NobodyForgets ==
    \A f \in files : \/ pc[f.owner] \in Claimed /\ at[f.owner] = f.path
                     \/ pc[f.owner] \in Dead

LEMMA NobodyForgetsStep ==
    ASSUME TypeOK, NobodyForgets, NEW p \in Run, Step(p) \/ Outside(p)
    PROVE  NobodyForgets'
<1>1. \A f \in files : f.owner \in Run
  BY DEF TypeOK, File
<1>2. \A q \in Run \ {p} : pc'[q] = pc[q] /\ at'[q] = at[q]
  BY OthersUnmoved
<1>3. CASE Create(p)
  <2>1. /\ files' = files \cup {NewFile(p)} /\ pc'[p] = "write" /\ at' = at
        /\ NewFile(p).owner = p /\ NewFile(p).path = at[p]
    BY <1>3 DEF Create, Goto, TypeOK, NewFile
  <2>2. \A f \in files : f.owner # p
    BY <1>3 DEF Create, NobodyForgets, Claimed, Dead
  <2> QED
    BY <1>1, <1>2, <2>1, <2>2 DEF NobodyForgets, Claimed
<1>4. CASE Undo(p) \/ ReleaseUnlink(p)
  <2>1. files' = Unlink(files, at[p]) /\ pc[p] \in Claimed
    BY <1>4 DEF Undo, ReleaseUnlink, Claimed
  <2>2. \A f \in files' : f \in files /\ f.owner # p
    BY <2>1 DEF Unlink, NobodyForgets, Claimed, Dead
  <2> QED
    BY <1>1, <1>2, <2>2 DEF NobodyForgets
<1>5. CASE ~ Create(p) /\ ~ Undo(p) /\ ~ ReleaseUnlink(p)
  <2>1. files' \subseteq files
    BY <1>5, DirectorySteps DEF Unlink
  <2>2. /\ pc[p] \in Claimed => (pc'[p] \in Claimed /\ at'[p] = at[p]) \/ pc'[p] \in Dead
        /\ pc[p] \in Dead => pc'[p] \in Dead
    <3> USE DEF TypeOK, Goto, Return, Claimed, Dead, dirVars, scanVars, fdVars
    <3>1. CASE Step(p)
      BY <1>5, <3>1 DEF Step, GiveUp, BeginScan, Visit, CountLive, Condemn, Reap, Busy,
         AwaitSlot, BeginClaim, SlotTaken, NextSlot, Write, Open, Flock, Sleep,
         ReleaseClose, ScanDone
    <3>2. CASE Outside(p)
      BY <3>2, KillPointsAssumption DEF Outside, Start, WriteFails, CommandEnds, Expire,
         Killed, Die, OrphanEnds, ParentWaits, Acquiring, Live
    <3> QED
      BY <3>1, <3>2
  <2> QED
    BY <1>1, <1>2, <2>1, <2>2 DEF NobodyForgets
<1> QED
  BY <1>3, <1>4, <1>5

(* Every file in the directory belongs to a live run that is going to      *)
(* unlink that very path, or to a dead one: for any number of runs and     *)
(* machines, with failed writes, stolen names and deaths anywhere          *)
(* (lock.c:208-219, 382-392).                                              *)
THEOREM LeftoversOfTheDead == Spec => []NobodyForgets
<1>1. Init => NobodyForgets
  BY DEF Init, NobodyForgets
<1>2. TypeOK /\ NobodyForgets /\ [Next]_vars => NobodyForgets'
  <2> SUFFICES ASSUME TypeOK, NobodyForgets, [Next]_vars PROVE NobodyForgets'
    OBVIOUS
  <2>1. CASE \E p \in Run : Step(p) \/ Outside(p)
    BY <2>1, NobodyForgetsStep
  <2>2. CASE UNCHANGED vars
    BY <2>2 DEF NobodyForgets, vars
  <2> QED
    BY <2>1, <2>2 DEF Next, Finished
<1> QED
  BY <1>1, <1>2, TypeCorrect, PTL DEF Spec

-----------------------------------------------------------------------------
(* The names of the entries *)

(* An entry begins with its descriptor, followed by a dot.                 *)
LEMMA EntryNameShape ==
    ASSUME NEW x \in Path
    PROVE  /\ x.desc \in Seq(STRING)
           /\ \E S : EntryName(x) \in Seq(S)
           /\ Len(EntryName(x)) = Len(x.desc) + 5
           /\ \A i \in 1 .. Len(x.desc) : EntryName(x)[i] = x.desc[i]
           /\ EntryName(x)[Len(x.desc) + 1] = "."
<1> DEFINE S == STRING \cup {".", "slot", ToString(x.slot), "lock"}
           rest == <<".", "slot", ToString(x.slot), ".", "lock">>
<1>1. x.desc \in Seq(STRING)
  BY DescAssumption DEF Path
<1>2. x.desc \in Seq(S)
  BY <1>1, SeqMonotonic
<1>3. rest \in Seq(S) /\ Len(rest) = 5 /\ rest[1] = "."
  <2>1. "." \in S /\ "slot" \in S /\ ToString(x.slot) \in S /\ "lock" \in S
    BY Zenon
  <2> HIDE DEF S
  <2> QED
    BY <2>1
<1>4. EntryName(x) = x.desc \o rest
  BY DEF EntryName
<1> HIDE DEF S, rest
<1>5. Len(x.desc) \in Nat
  BY <1>1, LenProperties
<1>6. /\ x.desc \o rest \in Seq(S)
      /\ Len(x.desc \o rest) = Len(x.desc) + 5
      /\ \A i \in 1 .. Len(x.desc) + 5 :
           (x.desc \o rest)[i] = IF i <= Len(x.desc) THEN x.desc[i] ELSE rest[i - Len(x.desc)]
  <2>1. /\ x.desc \o rest \in Seq(S)
        /\ Len(x.desc \o rest) = Len(x.desc) + Len(rest)
        /\ \A i \in 1 .. Len(x.desc) + Len(rest) :
             (x.desc \o rest)[i] =
                 IF i <= Len(x.desc) THEN x.desc[i] ELSE rest[i - Len(x.desc)]
    BY <1>2, <1>3, ConcatProperties, Zenon
  <2> QED
    BY <1>3, <2>1
<1> QED
  BY <1>1, <1>3, <1>4, <1>5, <1>6
=============================================================================
