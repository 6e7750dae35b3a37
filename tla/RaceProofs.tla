----------------------------- MODULE RaceProofs ------------------------------
(***************************************************************************)
(* Theorems about WaitLock for every number of descriptors and slots, with *)
(* failed writes and retries: the race of any number of runs for the slots *)
(* is safe until somebody lets go, two runs are a semaphore throughout,    *)
(* and one run among dead ones finds its slots free.                       *)
(***************************************************************************)
EXTENDS WaitLockProofs, FiniteSetTheorems

(* No run is killed between the writing of its record and its success. *)
NoKillBeforeSuccess == KillPoints \cap {"open", "flock"} = {}

Complete == {"open", "flock", "held"}
Owning   == {"write", "undo"} \cup Complete

(* The hypothesis of RaceIsSafe: nobody has let go of the lock it got. *)
NobodyLetGo == \A p \in Run : ret[p] = "SUCCESS" => pc[p] = "held"

(* A run holds, or releases, after acquire_lock has succeeded only.  It    *)
(* makes NobodyLetGo a fact about the past: once false, it stays false.    *)
ResultFits ==
    \A p \in Run :
        /\ pc[p] \in {"held", "close", "unlink"} => ret[p] = "SUCCESS"
        /\ ret[p] = "SUCCESS" => pc[p] \in {"held", "close", "unlink", "zombie", "ended"}

(* Until somebody lets go, live runs keep the files they own and only they *)
(* have whole records there, so no record is ever judged stale.            *)
OwnFilePresent == \A p \in Run : pc[p] \in Owning => NewFile(p) \in files
RecordsOwned   == \A f \in written : pc[f.owner] \in Complete
NothingStale   ==
    \A p \in Run : pc[p] # "reap" /\ (pc[p] = "exists" => pc[seen[p]] \in Complete)

OrderlyDirectory == OwnFilePresent /\ RecordsOwned /\ NothingStale

RaceInv ==
    /\ TypeInv
    /\ UniqueNames
    /\ OwnDescriptor
    /\ ResultFits
    /\ NobodyLetGo => OrderlyDirectory

LEMMA ResultFitsStep ==
    ASSUME TypeOK, ResultFits, NEW p \in Run, Step(p) \/ Outside(p)
    PROVE  ResultFits'
<1> USE DEF TypeOK, ResultFits, Goto, Return, dirVars, scanVars, fdVars
<1>1. CASE Step(p)
  <2>1. CASE \/ GiveUp(p) \/ BeginScan(p) \/ Visit(p) \/ CountLive(p) \/ Condemn(p)
             \/ Reap(p) \/ Busy(p) \/ AwaitSlot(p) \/ BeginClaim(p)
    BY <2>1 DEF GiveUp, BeginScan, Visit, CountLive, Condemn, Reap, Busy, AwaitSlot,
       BeginClaim, ScanDone
  <2>2. CASE \/ Create(p) \/ SlotTaken(p) \/ Write(p) \/ Undo(p) \/ Open(p) \/ Flock(p)
             \/ Sleep(p) \/ ReleaseClose(p) \/ ReleaseUnlink(p)
    BY <2>2 DEF Create, SlotTaken, NextSlot, Write, Undo, Open, Flock, Sleep,
       ReleaseClose, ReleaseUnlink
  <2> QED
    BY <1>1, <2>1, <2>2 DEF Step
<1>2. CASE Outside(p)
  BY <1>2 DEF Outside, Start, WriteFails, CommandEnds, Expire, Killed, Die, OrphanEnds,
     ParentWaits, Acquiring
<1> QED
  BY <1>1, <1>2

(* Who has let go stays so, and nobody lets go in a step that leaves       *)
(* NobodyLetGo true.                                                       *)
LEMMA LetGoForGood ==
    ASSUME TypeOK, ResultFits, NEW p \in Run, Step(p) \/ Outside(p), NobodyLetGo'
    PROVE  NobodyLetGo /\ ResultFits'
<1>1. ResultFits'
  BY ResultFitsStep
<1>2. \A q \in Run : ret[q] = "SUCCESS" => ret'[q] = "SUCCESS"
  <2> USE DEF TypeOK, ResultFits, Goto, Return, dirVars, scanVars, fdVars
  <2>1. CASE Step(p)
    BY <2>1 DEF Step, GiveUp, BeginScan, Visit, CountLive, Condemn, Reap, Busy, AwaitSlot,
       BeginClaim, Create, SlotTaken, Write, Undo, Open, Flock, Sleep,
       ReleaseClose, ReleaseUnlink, ScanDone
  <2>2. CASE Outside(p)
    BY <2>2 DEF Outside, Start, WriteFails, CommandEnds, Expire, Killed, Die, OrphanEnds,
       ParentWaits
  <2> QED
    BY <2>1, <2>2
<1>3. \A q \in Run : ret[q] = "SUCCESS" /\ pc'[q] = "held" => pc[q] = "held"
  <2> USE DEF TypeOK, ResultFits, Goto, Return, dirVars, scanVars, fdVars
  <2>1. CASE Step(p)
    BY <2>1 DEF Step, GiveUp, BeginScan, Visit, CountLive, Condemn, Reap, Busy, AwaitSlot,
       BeginClaim, Create, SlotTaken, NextSlot, Write, Undo, Open, Flock, Sleep,
       ReleaseClose, ReleaseUnlink, ScanDone
  <2>2. CASE Outside(p)
    BY <2>2 DEF Outside, Start, WriteFails, CommandEnds, Expire, Killed, Die, OrphanEnds,
       ParentWaits
  <2> QED
    BY <2>1, <2>2
<1> QED
  BY <1>1, <1>2, <1>3 DEF NobodyLetGo

(* A step that leaves the run with the file it owns, if any, or ends it    *)
(* before the record is whole.                                             *)
KeepsFile(p) ==
    /\ pc'[p] \in Owning => pc[p] \in Owning
    /\ pc[p] \in Complete => pc'[p] \in Complete
    /\ pc'[p] \in Owning => at'[p] = at[p] /\ gen'[p] = gen[p]
    /\ files' = files
    /\ \/ written' = written
       \/ written' = written \cup {NewFile(p)} /\ pc[p] = "write" /\ pc'[p] = "open"

(* Only creating a file and undoing it change what a run owns. *)
LEMMA OwnershipSteps ==
    ASSUME TypeOK, ResultFits, NobodyLetGo, NobodyLetGo', NoKillBeforeSuccess, NothingStale,
           NEW p \in Run, Step(p) \/ Outside(p)
    PROVE  Create(p) \/ Undo(p) \/ KeepsFile(p)
<1>1. ResultFits'
  BY ResultFitsStep
<1>2. pc[p] \notin {"close", "unlink", "reap"} /\ pc'[p] \notin {"close", "unlink"}
  BY <1>1 DEF NobodyLetGo, ResultFits, NothingStale, TypeOK
<1> USE DEF TypeOK, Goto, Return, dirVars, scanVars, fdVars, Owning, Complete, KeepsFile
<1>3. CASE GiveUp(p)
  BY <1>3 DEF GiveUp
<1>4. CASE BeginScan(p) \/ Busy(p) \/ AwaitSlot(p) \/ BeginClaim(p)
  BY <1>4 DEF BeginScan, Busy, AwaitSlot, BeginClaim, ScanDone
<1>5. CASE Visit(p)
  <2>1. /\ pc[p] = "scan" /\ pc'[p] \in {"scan", "exists"}
        /\ UNCHANGED dirVars
    BY <1>5 DEF Visit
  <2> QED
    BY <2>1
<1>6. CASE CountLive(p) \/ Condemn(p) \/ Sleep(p)
  BY <1>6 DEF CountLive, Condemn, Sleep
<1>7. CASE SlotTaken(p)
  BY <1>7 DEF SlotTaken, NextSlot
<1>8. CASE Write(p)
  BY <1>8 DEF Write
<1>9. CASE Open(p)
  BY <1>9 DEF Open
<1>10. CASE Flock(p)
  BY <1>10 DEF Flock
<1>11. CASE Killed(p)
  <2>1. pc'[p] = "zombie" /\ UNCHANGED <<ret, files, written>> /\ pc[p] \in KillPoints
    BY <1>11 DEF Killed, Die
  <2>2. pc[p] # "held"
    BY <2>1 DEF NobodyLetGo, ResultFits
  <2>3. pc[p] \notin Complete /\ pc'[p] \notin Owning
    BY <2>1, <2>2 DEF NoKillBeforeSuccess
  <2> QED
    BY <2>1, <2>3
<1>12. CASE Start(p) \/ Expire(p) \/ OrphanEnds(p) \/ ParentWaits(p)
  BY <1>12 DEF Start, Expire, OrphanEnds, ParentWaits, Acquiring
<1>13. CASE WriteFails(p)
  BY <1>13 DEF WriteFails
<1>14. ~ Reap(p) /\ ~ ReleaseClose(p) /\ ~ ReleaseUnlink(p) /\ ~ CommandEnds(p)
  BY <1>2 DEF Reap, ReleaseClose, ReleaseUnlink, CommandEnds
<1> QED
  BY <1>3, <1>4, <1>5, <1>6, <1>7, <1>8, <1>9, <1>10, <1>11, <1>12, <1>13, <1>14
     DEF Step, Outside

(* Condemn needs a record whose process is gone; until somebody lets go    *)
(* every record in reach is that of a process that is there.               *)
LEMMA NothingCondemned ==
    ASSUME OneMachine, TypeOK, NothingStale, NEW p \in Run
    PROVE  ~ Condemn(p)
<1> SUFFICES ASSUME Condemn(p) PROVE FALSE
  OBVIOUS
<1>1. seen[p] \in Run /\ Exists(seen[p])
  BY DEF Condemn, NothingStale, Exists, Complete, Live, Claimed, TypeOK
<1> QED
  BY <1>1 DEF Condemn, ProcessExists, OneMachine

(* One step of one run keeps the directory orderly. *)
LEMMA OrderlyStep ==
    ASSUME OneMachine, NoKillBeforeSuccess, RaceInv, NEW p \in Run, Step(p) \/ Outside(p),
           NobodyLetGo'
    PROVE  OrderlyDirectory'
<1>1. /\ TypeOK /\ UniqueNames /\ ResultFits /\ NobodyLetGo
      /\ OwnFilePresent /\ RecordsOwned /\ NothingStale
  BY LetGoForGood DEF RaceInv, TypeInv, OrderlyDirectory
<1>2. \A q \in Run \ {p} : /\ pc'[q] = pc[q] /\ at'[q] = at[q]
                           /\ seen'[q] = seen[q] /\ gen'[q] = gen[q]
  BY <1>1, OthersUnmoved
<1>3. /\ \A f \in files : f.owner \in Run
      /\ \A f \in written : f.owner \in Run
      /\ \A q \in Run : seen[q] \in Run
  BY <1>1 DEF TypeOK, File
<1>4. \A q \in Run : NewFile(q).owner = q /\ NewFile(q).path = at[q]
  BY DEF NewFile
<1>5. \A q \in Run \ {p} : NewFile(q)' = NewFile(q)
  BY <1>2 DEF NewFile
<1>6. pc'[p] # "reap"
  BY <1>1, NothingCondemned, ExaminerSteps DEF NothingStale
<1>7. \A q \in Run : pc[q] \in Complete => pc'[q] \in Complete
  BY <1>1, <1>2, OwnershipSteps DEF KeepsFile, Create, Undo, Complete
<1>8. pc'[p] = "exists" => pc'[seen'[p]] \in Complete
  <2>1. CASE Visit(p)
    <3>1. pc'[p] = "exists" => \E f \in written : seen'[p] = f.owner
      <4>1. PICK x \in todo[p] :
              \/ UNCHANGED <<pc, at, seen>>
              \/ \E f \in written : /\ seen' = [seen EXCEPT ![p] = f.owner]
        BY <2>1 DEF Visit, ValidAt
      <4>2. pc[p] = "scan"
        BY <2>1 DEF Visit
      <4> QED
        BY <1>1, <4>1, <4>2 DEF TypeOK
    <3> QED
      BY <1>1, <1>3, <1>7, <3>1 DEF RecordsOwned
  <2>2. CASE ~ Visit(p)
    <3>1. pc'[p] = "exists" => pc[p] = "exists" /\ seen'[p] = seen[p]
      <4> USE DEF TypeOK, Goto, Return, dirVars, scanVars, fdVars
      <4>1. CASE Step(p)
        BY <1>1, <2>2, <4>1 DEF Step, GiveUp, BeginScan, CountLive, Condemn, Reap, Busy,
           AwaitSlot, BeginClaim, Create, SlotTaken, NextSlot, Write, Undo, Open, Flock,
           Sleep, ReleaseClose, ReleaseUnlink, ScanDone
      <4>2. CASE Outside(p)
        BY <1>1, <4>2 DEF Outside, Start, WriteFails, CommandEnds, Expire, Killed, Die,
           OrphanEnds, ParentWaits
      <4> QED
        BY <4>1, <4>2
    <3> QED
      BY <1>1, <1>3, <1>7, <3>1 DEF NothingStale
  <2> QED
    BY <2>1, <2>2
<1>9. NothingStale'
  BY <1>1, <1>2, <1>3, <1>6, <1>7, <1>8 DEF NothingStale
<1>10. CASE Create(p)
  <2>1. /\ pc[p] = "claim" /\ pc'[p] = "write" /\ NewFile(p)' = NewFile(p)
        /\ files' = files \cup {NewFile(p)} /\ written' = written
    BY <1>1, <1>10 DEF Create, Goto, TypeOK, NewFile, dirVars
  <2>2. OwnFilePresent'
    BY <1>1, <1>2, <1>5, <2>1 DEF OwnFilePresent
  <2>3. RecordsOwned'
    BY <1>1, <1>3, <1>7, <2>1 DEF RecordsOwned
  <2> QED
    BY <1>9, <2>2, <2>3 DEF OrderlyDirectory
<1>11. CASE Undo(p)
  <2>1. /\ pc[p] = "undo" /\ pc'[p] \in {"claim", "wait"}
        /\ files' = Unlink(files, at[p]) /\ written' = written
    BY <1>1, <1>11 DEF Undo, NextSlot, Goto, TypeOK
  <2>2. NewFile(p) \in files
    BY <1>1, <2>1 DEF OwnFilePresent, Owning
  <2>3. \A f \in files : f.path = at[p] <=> f = NewFile(p)
    BY <1>1, <1>4, <2>2 DEF UniqueNames
  <2>4. files' = files \ {NewFile(p)}
    BY <2>1, <2>3 DEF Unlink
  <2>5. OwnFilePresent'
    BY <1>1, <1>2, <1>4, <1>5, <2>1, <2>4 DEF OwnFilePresent, Owning, Complete
  <2>6. RecordsOwned'
    BY <1>1, <1>3, <1>7, <2>1 DEF RecordsOwned
  <2> QED
    BY <1>9, <2>5, <2>6 DEF OrderlyDirectory
<1>12. CASE KeepsFile(p)
  <2>1. /\ files' = files
        /\ \A q \in Run : pc'[q] \in Owning => pc[q] \in Owning /\ NewFile(q)' = NewFile(q)
    BY <1>2, <1>5, <1>12 DEF KeepsFile, NewFile
  <2>2. OwnFilePresent'
    BY <1>1, <2>1 DEF OwnFilePresent
  <2>3. RecordsOwned'
    BY <1>1, <1>3, <1>4, <1>7, <1>12 DEF KeepsFile, RecordsOwned, Complete
  <2> QED
    BY <1>9, <2>2, <2>3 DEF OrderlyDirectory
<1> QED
  BY <1>1, <1>10, <1>11, <1>12, OwnershipSteps

LEMMA RaceInvInductive ==
    /\ Init => RaceInv
    /\ OneMachine /\ NoKillBeforeSuccess /\ RaceInv /\ [Next]_vars => RaceInv'
<1>1. Init => RaceInv
  <2> SUFFICES ASSUME Init PROVE RaceInv
    OBVIOUS
  <2>1. TypeInv
    BY TypeInvInductive
  <2> QED
    BY <2>1 DEF Init, RaceInv, UniqueNames, OwnDescriptor, ResultFits, OrderlyDirectory,
       OwnFilePresent, RecordsOwned, NothingStale, Owning, Complete, Claimed
<1>2. ASSUME OneMachine, NoKillBeforeSuccess, RaceInv, [Next]_vars PROVE RaceInv'
  <2>1. TypeInv'
    BY <1>2, TypeInvInductive DEF RaceInv
  <2>2. CASE UNCHANGED vars
    BY <1>2, <2>1, <2>2 DEF vars, RaceInv, UniqueNames, OwnDescriptor, ResultFits,
       NobodyLetGo, OrderlyDirectory, OwnFilePresent, RecordsOwned,
       NothingStale, NewFile
  <2>3. CASE \E p \in Run : Step(p) \/ Outside(p)
    <3>1. PICK p \in Run : Step(p) \/ Outside(p)
      BY <2>3
    <3>2. TypeOK /\ UniqueNames /\ OwnDescriptor /\ ResultFits
      BY <1>2 DEF RaceInv, TypeInv
    <3>3. UniqueNames' /\ OwnDescriptor' /\ ResultFits'
      BY <3>1, <3>2, UniqueNamesStep, OwnDescriptorStep, ResultFitsStep
    <3>4. NobodyLetGo' => OrderlyDirectory'
      BY <1>2, <3>1, OrderlyStep
    <3> QED
      BY <2>1, <3>3, <3>4 DEF RaceInv
  <2> QED
    BY <1>2, <2>2, <2>3 DEF Next, Finished
<1> QED
  BY <1>1, <1>2

(* Runs that own files of one descriptor own files of different names, and *)
(* there are only MaxHolders names.                                        *)
LEMMA OwnersFit ==
    ASSUME TypeOK, UniqueNames, OwnDescriptor, NEW d \in Desc, NEW S \in SUBSET Run,
           \A r \in S : pc[r] \in Claimed /\ opts[r].desc = d /\ NewFile(r) \in files
    PROVE  IsFiniteSet(S) /\ Cardinality(S) <= MaxHolders
<1> DEFINE f == [r \in S |-> at[r].slot]
<1>1. \A r \in S : r \in Run /\ at[r].desc = d
  BY DEF OwnDescriptor
<1>2. \A r \in S : at[r] \in [desc : Desc, slot : 0 .. MaxHolders - 1]
  BY <1>1 DEF TypeOK, Path
<1>3. \A r, q \in S : r # q => at[r].slot # at[q].slot
  <2> SUFFICES ASSUME NEW r \in S, NEW q \in S, at[r].slot = at[q].slot PROVE r = q
    OBVIOUS
  <2>1. at[r] = at[q]
    BY <1>1, <1>2
  <2>2. NewFile(r) = NewFile(q)
    BY <2>1 DEF UniqueNames, NewFile
  <2> QED
    BY <2>2 DEF NewFile
<1>4. f \in Injection(S, 0 .. MaxHolders - 1)
  BY <1>2, <1>3 DEF Injection, IsInjective
<1>5. IsFiniteSet(0 .. MaxHolders - 1) /\ Cardinality(0 .. MaxHolders - 1) = MaxHolders
  BY FS_Interval, MaxHoldersAssumption
<1> QED
  BY <1>4, <1>5, FS_Injection

LEMMA OrderlyIsExclusive ==
    ASSUME RaceInv, NobodyLetGo
    PROVE  MutualExclusion
<1> SUFFICES ASSUME NEW d \in Desc PROVE Cardinality(Holders(d)) <= MaxHolders
  BY DEF MutualExclusion
<1>1. TypeOK /\ UniqueNames /\ OwnDescriptor /\ OwnFilePresent
  BY DEF RaceInv, TypeInv, OrderlyDirectory
<1>2. Holders(d) \in SUBSET Run
  BY DEF Holders
<1>3. \A r \in Holders(d) : pc[r] \in Claimed /\ opts[r].desc = d /\ NewFile(r) \in files
  BY <1>1 DEF Holders, OwnFilePresent, Owning, Complete, Claimed
<1> QED
  BY <1>1, <1>2, <1>3, OwnersFit

(* Any number of runs may race for the slots of any number of descriptors, *)
(* their writes may fail, and they may be killed before their records are  *)
(* whole: until somebody lets go of a lock it got, only the exclusive      *)
(* creation of each name decides, and it decides well (lock.c:176-228).    *)
THEOREM RacesAreSafe ==
    OneMachine /\ NoKillBeforeSuccess => (Spec => []RaceIsSafe)
<1> SUFFICES ASSUME OneMachine, NoKillBeforeSuccess PROVE Spec => []RaceIsSafe
  OBVIOUS
<1>1. Init => RaceInv
  BY RaceInvInductive
<1>2. RaceInv /\ [Next]_vars => RaceInv'
  BY RaceInvInductive
<1>3. RaceInv => RaceIsSafe
  BY OrderlyIsExclusive DEF RaceIsSafe, NobodyLetGo
<1> QED
  BY <1>1, <1>2, <1>3, PTL DEF Spec

-----------------------------------------------------------------------------
(* Two runs *)

AtMostTwoRuns == \A p, q, r \in Run : p = q \/ q = r \/ p = r

(* Where a run is from the writing of its record on *)
Recorded == {"open", "flock", "held", "close", "unlink", "zombie", "ended"}

(* A run keeps the file of the slot it has claimed. *)
ClaimPresent == \A p \in Run : pc[p] \in Claimed => NewFile(p) \in files

RecordsLater == \A f \in written : pc[f.owner] \in Recorded

(* A run that is about to remove a stale file is alone: the only other run *)
(* is the one whose record it read, and that one has ended.                *)
JudgedDead ==
    \A p \in Run : /\ pc[p] = "exists" => pc[seen[p]] \in Recorded
                   /\ pc[p] = "reap" => pc[seen[p]] = "ended"

(* What a run has open is a file it created itself. *)
OwnFileOpen ==
    \A p \in Run : /\ pc[p] = "flock" => lock_fd[p] # {}
                   /\ \A f \in lock_fd[p] : f.owner = p

PairInv ==
    /\ TypeInv /\ UniqueNames /\ OwnDescriptor
    /\ ClaimPresent /\ RecordsLater /\ JudgedDead /\ OwnFileOpen

LEMMA RecordsLaterStep ==
    ASSUME TypeOK, RecordsLater, NEW p \in Run, Step(p) \/ Outside(p)
    PROVE  /\ RecordsLater'
           /\ \A q \in Run : pc[q] \in Recorded => pc'[q] \in Recorded
           /\ \A q \in Run : pc[q] = "ended" => pc'[q] = "ended"
<1>1. TypeOK /\ RecordsLater
  OBVIOUS
<1>2. \A q \in Run \ {p} : pc'[q] = pc[q]
  BY <1>1, OthersUnmoved
<1> USE DEF TypeOK, Goto, Return, Recorded, dirVars, scanVars, fdVars
<1>3. /\ pc[p] \in Recorded => pc'[p] \in Recorded
      /\ pc[p] = "ended" => pc'[p] = "ended"
      /\ written' = written \/ Write(p)
  <2>1. CASE Step(p)
    BY <1>1, <2>1 DEF Step, GiveUp, BeginScan, Visit, CountLive, Condemn, Reap, Busy, AwaitSlot,
       BeginClaim, Create, SlotTaken, NextSlot, Undo, Open, Flock, Sleep,
       ReleaseClose, ReleaseUnlink, ScanDone, Write
  <2>2. CASE Outside(p)
    BY <1>1, <2>2, KillPointsAssumption DEF Outside, Start, WriteFails, CommandEnds, Expire,
       Killed, Die, OrphanEnds, ParentWaits, Acquiring, Claimed, Live
  <2> QED
    BY <2>1, <2>2
<1>4. Write(p) => pc'[p] = "open" /\ written' = written \cup {NewFile(p)} /\ NewFile(p).owner = p
  BY <1>1 DEF Write, NewFile
<1> QED
  BY <1>1, <1>2, <1>3, <1>4 DEF RecordsLater, File

(* Nobody else removes the file of a run: the other run reaps only what is *)
(* left of an ended one, and unlinks otherwise only what it created.       *)
LEMMA ClaimPresentStep ==
    ASSUME AtMostTwoRuns, PairInv, NEW p \in Run, Step(p) \/ Outside(p)
    PROVE  ClaimPresent'
<1>1. /\ TypeOK /\ UniqueNames /\ ClaimPresent /\ JudgedDead
      /\ \A q \in Run : seen[q] \in Run
  BY DEF PairInv, TypeInv, TypeOK
<1>2. \A q \in Run \ {p} : pc'[q] = pc[q] /\ NewFile(q)' = NewFile(q)
  BY <1>1, OthersUnmoved DEF NewFile
<1>3. \A q \in Run : NewFile(q).owner = q /\ NewFile(q).path = at[q]
  BY DEF NewFile
<1>4. CASE Create(p)
  <2>1. NewFile(p)' = NewFile(p) /\ files' = files \cup {NewFile(p)}
    BY <1>4 DEF Create, NewFile
  <2> QED
    BY <1>1, <1>2, <2>1 DEF ClaimPresent
<1>5. CASE ~ Create(p)
  <2>1. pc'[p] \in Claimed => pc[p] \in Claimed /\ NewFile(p)' = NewFile(p) /\ files' = files
    BY <1>1, <1>5, OwnerKeepsPath DEF NewFile
  <2>2. CASE files' = files
    BY <1>1, <1>2, <2>1, <2>2 DEF ClaimPresent
  <2>3. CASE files' = Unlink(files, at[p]) /\ Reap(p)
    <3>1. pc[p] = "reap" /\ pc'[p] = "scan" /\ pc[seen[p]] = "ended"
      BY <1>1, <2>3 DEF Reap, Goto, TypeOK, JudgedDead
    <3>2. \A q \in Run : pc'[q] \notin Claimed
      BY <1>1, <1>2, <3>1 DEF AtMostTwoRuns, Claimed
    <3> QED
      BY <3>2 DEF ClaimPresent
  <2>4. CASE files' = Unlink(files, at[p]) /\ (Undo(p) \/ ReleaseUnlink(p))
    <3>1. pc[p] \in Claimed /\ pc'[p] \notin Claimed
      BY <1>1, <2>4 DEF Undo, NextSlot, ReleaseUnlink, Goto, TypeOK, Claimed
    <3>2. NewFile(p) \in files
      BY <1>1, <3>1 DEF ClaimPresent
    <3>3. \A q \in Run \ {p} : NewFile(q) \in files => NewFile(q) \in files'
      BY <1>1, <1>3, <2>4, <3>2 DEF UniqueNames, Unlink
    <3> QED
      BY <1>1, <1>2, <3>1, <3>3 DEF ClaimPresent
  <2> QED
    BY <1>5, <2>2, <2>3, <2>4, DirectorySteps
<1> QED
  BY <1>4, <1>5

LEMMA JudgedDeadStep ==
    ASSUME OneMachine, PairInv, NEW p \in Run, Step(p) \/ Outside(p)
    PROVE  JudgedDead'
<1>1. TypeOK /\ RecordsLater /\ JudgedDead /\ \A q \in Run : seen[q] \in Run
  BY DEF PairInv, TypeInv, TypeOK
<1>2. \A q \in Run \ {p} : pc'[q] = pc[q] /\ seen'[q] = seen[q]
  BY <1>1, OthersUnmoved
<1>3. /\ \A q \in Run : pc[q] \in Recorded => pc'[q] \in Recorded
      /\ \A q \in Run : pc[q] = "ended" => pc'[q] = "ended"
  BY RecordsLaterStep DEF PairInv, TypeInv
<1>4. CASE Visit(p)
  <2>1. pc'[p] # "reap" /\ (pc'[p] = "exists" => \E f \in written : seen'[p] = f.owner)
    <3>1. PICK x \in todo[p] :
            \/ UNCHANGED <<pc, at, seen>>
            \/ \E f \in written : /\ seen' = [seen EXCEPT ![p] = f.owner]
                                  /\ pc' = [pc EXCEPT ![p] = "exists"]
      BY <1>4 DEF Visit, ValidAt, Goto
    <3>2. pc[p] = "scan"
      BY <1>4 DEF Visit
    <3> QED
      BY <1>1, <3>1, <3>2 DEF TypeOK
  <2> QED
    BY <1>1, <1>2, <1>3, <2>1 DEF RecordsLater, JudgedDead, TypeOK, File
<1>5. CASE Condemn(p)
  <2>1. pc[p] = "exists" /\ pc'[p] = "reap" /\ seen' = seen /\ ~ ProcessExists(p, seen[p])
    BY <1>1, <1>5 DEF Condemn, Goto, TypeOK, scanVars
  <2>2. ~ Exists(seen[p])
    BY <1>1, <2>1 DEF ProcessExists, OneMachine
  <2>3. pc[seen[p]] = "ended"
    BY <1>1, <2>1, <2>2 DEF JudgedDead, Recorded, Exists, Live, Claimed
  <2> QED
    BY <1>1, <1>2, <1>3, <2>1, <2>3 DEF JudgedDead
<1>6. CASE ~ Visit(p) /\ ~ Condemn(p)
  <2>1. pc'[p] \in {"exists", "reap"} => pc'[p] = pc[p] /\ seen'[p] = seen[p]
    <3> USE DEF TypeOK, Goto, Return, dirVars, scanVars, fdVars
    <3>1. CASE Step(p)
      BY <1>1, <1>6, <3>1 DEF Step, GiveUp, BeginScan, CountLive, Reap, Busy,
         AwaitSlot, BeginClaim, Create, SlotTaken, NextSlot, Write, Undo, Open, Flock,
         Sleep, ReleaseClose, ReleaseUnlink, ScanDone
    <3>2. CASE Outside(p)
      BY <1>1, <3>2 DEF Outside, Start, WriteFails, CommandEnds, Expire, Killed, Die,
         OrphanEnds, ParentWaits
    <3> QED
      BY <3>1, <3>2
  <2> QED
    BY <1>1, <1>2, <1>3, <2>1 DEF JudgedDead
<1> QED
  BY <1>4, <1>5, <1>6

LEMMA OwnFileOpenStep ==
    ASSUME PairInv, NEW p \in Run, Step(p) \/ Outside(p)
    PROVE  OwnFileOpen'
<1>1. TypeOK /\ UniqueNames /\ ClaimPresent /\ OwnFileOpen
  BY DEF PairInv, TypeInv
<1>2. \A q \in Run \ {p} : pc'[q] = pc[q]
  BY <1>1, OthersUnmoved
<1>3. CASE Open(p)
  <2>1. /\ lock_fd' = [lock_fd EXCEPT ![p] = FilesAt(files, at[p])]
        /\ pc[p] = "open" /\ pc'[p] = "flock" => FilesAt(files, at[p]) # {}
    BY <1>1, <1>3 DEF Open, Goto, TypeOK
  <2>2. NewFile(p) \in files /\ NewFile(p).owner = p /\ NewFile(p).path = at[p]
    BY <1>1, <1>3 DEF Open, ClaimPresent, Claimed, NewFile
  <2>3. \A f \in FilesAt(files, at[p]) : f.owner = p
    BY <1>1, <2>2 DEF FilesAt, UniqueNames
  <2> QED
    BY <1>1, <1>2, <1>3, <2>1, <2>3 DEF OwnFileOpen, TypeOK, Open
<1>4. CASE ~ Open(p)
  <2> USE DEF TypeOK, Goto, Return, dirVars, scanVars, fdVars
  <2>1. /\ \A q \in Run : lock_fd'[q] \in {lock_fd[q], {}}
        /\ pc'[p] = "flock" => pc[p] = "flock" /\ lock_fd' = lock_fd
        /\ \A q \in Run \ {p} : lock_fd'[q] = lock_fd[q]
    <3>1. CASE Step(p)
      BY <1>1, <1>4, <3>1 DEF Step, GiveUp, BeginScan, Visit, CountLive, Condemn, Reap, Busy,
         AwaitSlot, BeginClaim, Create, SlotTaken, NextSlot, Write, Undo, Flock,
         Sleep, ReleaseClose, ReleaseUnlink, ScanDone
    <3>2. CASE Outside(p)
      BY <1>1, <3>2 DEF Outside, Start, WriteFails, CommandEnds, Expire, Killed, Die,
         OrphanEnds, ParentWaits
    <3> QED
      BY <3>1, <3>2
  <2> QED
    BY <1>1, <1>2, <2>1 DEF OwnFileOpen
<1> QED
  BY <1>3, <1>4

LEMMA PairInvInductive ==
    /\ Init => PairInv
    /\ OneMachine /\ AtMostTwoRuns /\ PairInv /\ [Next]_vars => PairInv'
<1>1. Init => PairInv
  <2> SUFFICES ASSUME Init PROVE PairInv
    OBVIOUS
  <2>1. TypeInv
    BY TypeInvInductive
  <2> QED
    BY <2>1 DEF Init, PairInv, UniqueNames, OwnDescriptor, ClaimPresent, RecordsLater,
       JudgedDead, OwnFileOpen, Claimed
<1>2. ASSUME OneMachine, AtMostTwoRuns, PairInv, [Next]_vars PROVE PairInv'
  <2>1. TypeInv'
    BY <1>2, TypeInvInductive DEF PairInv
  <2>2. CASE UNCHANGED vars
    BY <1>2, <2>1, <2>2 DEF vars, PairInv, UniqueNames, OwnDescriptor, ClaimPresent,
       RecordsLater, JudgedDead, OwnFileOpen, NewFile
  <2>3. CASE \E p \in Run : Step(p) \/ Outside(p)
    <3>1. PICK p \in Run : Step(p) \/ Outside(p)
      BY <2>3
    <3>2. UniqueNames' /\ OwnDescriptor'
      BY <1>2, <3>1, UniqueNamesStep, OwnDescriptorStep DEF PairInv, TypeInv
    <3>3. ClaimPresent' /\ RecordsLater' /\ JudgedDead' /\ OwnFileOpen'
      BY <1>2, <3>1, ClaimPresentStep, RecordsLaterStep, JudgedDeadStep, OwnFileOpenStep
         DEF PairInv, TypeInv
    <3> QED
      BY <2>1, <3>2, <3>3 DEF PairInv
  <2> QED
    BY <1>2, <2>2, <2>3 DEF Next, Finished
<1> QED
  BY <1>1, <1>2

(* flock() finds the file free: it is the run's own. *)
FlockFree ==
    \A p \in Run : pc[p] = "flock" => ~ \E q \in Run \ {p} : flocked[q] /\ lock_fd[q] = lock_fd[p]

(* Between two runs the blocking flock never blocks, so no run waits there *)
(* past its timeout, even if a command outlives the other (lock.c:225).    *)
THEOREM PairNeverBlocks == OneMachine /\ AtMostTwoRuns => (Spec => []FlockFree)
<1> SUFFICES ASSUME OneMachine, AtMostTwoRuns PROVE Spec => []FlockFree
  OBVIOUS
<1>1. Init => PairInv
  BY PairInvInductive
<1>2. PairInv /\ [Next]_vars => PairInv'
  BY PairInvInductive
<1>3. PairInv => FlockFree
  BY DEF PairInv, OwnFileOpen, FlockFree
<1> QED
  BY <1>1, <1>2, <1>3, PTL DEF Spec

(* A run that is about to hold finds fewer than MaxHolders holders. *)
LEMMA RoomForOwner ==
    ASSUME PairInv, NEW p \in Run, pc[p] \in Claimed, pc[p] # "held"
    PROVE  Cardinality(Holders(opts[p].desc)) < MaxHolders
<1> DEFINE d == opts[p].desc
           H == Holders(d)
           S == H \cup {p}
<1>1. TypeOK /\ UniqueNames /\ OwnDescriptor /\ ClaimPresent
  BY DEF PairInv, TypeInv
<1>2. d \in Desc
  BY <1>1, OptionsAssumption DEF TypeOK
<1>3. S \in SUBSET Run /\ p \notin H
  BY DEF Holders
<1>4. \A r \in S : pc[r] \in Claimed /\ opts[r].desc = d /\ NewFile(r) \in files
  BY <1>1 DEF Holders, ClaimPresent, Claimed
<1> HIDE DEF d, H
<1>5. IsFiniteSet(S) /\ Cardinality(S) <= MaxHolders
  BY <1>1, <1>2, <1>3, <1>4, OwnersFit
<1>6. IsFiniteSet(H)
  BY <1>5, FS_Subset
<1>7. Cardinality(S) = Cardinality(H) + 1 /\ Cardinality(H) \in Nat
  BY <1>3, <1>6, FS_AddElement, FS_CardinalityType
<1>8. Cardinality(H) < MaxHolders
  BY <1>5, <1>7, MaxHoldersAssumption
<1> QED
  BY <1>8 DEF H, d

(* A run's step adds the run to the holders of its descriptor, takes it    *)
(* away, or leaves all the holders as they are.                            *)
LEMMA HoldersStep ==
    ASSUME PairInv, NEW p \in Run, Step(p) \/ Outside(p), opts' = opts
    PROVE  Sem!Next \/ \A d \in Desc : Holders(d)' = Holders(d)
<1> DEFINE hs == [d \in Desc |-> Holders(d)]
           d0 == opts[p].desc
<1>1. TypeOK
  BY DEF PairInv, TypeInv
<1>2. \A q \in Run \ {p} : \A d \in Desc : q \in Holders(d)' <=> q \in Holders(d)
  BY <1>1, OthersUnmoved DEF Holders
<1>3. \A d \in Desc : Holders(d) \subseteq Run /\ Holders(d)' \subseteq Run
  BY DEF Holders
<1>4. d0 \in Desc
  BY <1>1, OptionsAssumption DEF TypeOK
<1>5. CASE pc'[p] = "held" /\ pc[p] # "held"
  <2>1. pc[p] \in Claimed
    <3>1. ~ Create(p)
      BY <1>1, <1>5 DEF Create, Goto, TypeOK
    <3> QED
      BY <1>1, <1>5, <3>1, OwnerKeepsPath DEF Claimed
  <2>2. \A d \in Desc : Holders(d)' = IF d = d0 THEN Holders(d) \cup {p} ELSE Holders(d)
    BY <1>2, <1>3, <1>5 DEF Holders
  <2>3. p \notin Holders(d0)
    BY <1>5 DEF Holders
  <2>4. Cardinality(Holders(d0)) < MaxHolders
    BY <1>5, <2>1, RoomForOwner
  <2>5. [d \in Desc |-> Holders(d)'] = [hs EXCEPT ![d0] = @ \cup {p}]
    BY <1>4, <2>2
  <2>6. Sem!Cardinality(Holders(d0)) = Cardinality(Holders(d0))
    BY DEF Sem!Cardinality, Cardinality
  <2>7. Sem!Acquire(p, d0)
    BY <1>4, <2>3, <2>4, <2>5, <2>6 DEF Sem!Acquire
  <2> QED
    BY <1>4, <2>7 DEF Sem!Next
<1>6. CASE pc[p] = "held" /\ pc'[p] # "held"
  <2>1. \A d \in Desc : Holders(d)' = IF d = d0 THEN Holders(d) \ {p} ELSE Holders(d)
    BY <1>2, <1>3, <1>6 DEF Holders
  <2>2. p \in Holders(d0)
    BY <1>6 DEF Holders
  <2>3. [d \in Desc |-> Holders(d)'] = [hs EXCEPT ![d0] = @ \ {p}]
    BY <1>4, <2>1
  <2>4. Sem!Leave(p, d0)
    BY <1>4, <2>2, <2>3 DEF Sem!Leave
  <2> QED
    BY <1>4, <2>4 DEF Sem!Next
<1>7. CASE pc'[p] = "held" <=> pc[p] = "held"
  <2>1. \A d \in Desc : p \in Holders(d)' <=> p \in Holders(d)
    BY <1>7 DEF Holders
  <2> QED
    BY <1>2, <1>3, <2>1
<1> QED
  BY <1>5, <1>6, <1>7

(* Two runs on one machine are a semaphore, whatever their options, with   *)
(* failed writes, deaths at any point, reused process ids and commands     *)
(* that outlive their parents.  It takes a third run to break the promise  *)
(* of the README (lock.c:176-228, 341-394).                                *)
THEOREM PairImplementsSemaphore ==
    OneMachine /\ AtMostTwoRuns => (Spec => ImplementsSemaphore)
<1> SUFFICES ASSUME OneMachine, AtMostTwoRuns PROVE Spec => Sem!Spec
  BY DEF ImplementsSemaphore
<1> DEFINE hs == [d \in Desc |-> Holders(d)]
<1>1. Init => PairInv
  BY PairInvInductive
<1>2. PairInv /\ [Next]_vars => PairInv'
  BY PairInvInductive
<1>3. Init => Sem!Init
  BY DEF Init, Sem!Init, Holders
<1>4. PairInv /\ [Next]_vars => [Sem!Next]_hs
  <2> SUFFICES ASSUME PairInv, [Next]_vars PROVE Sem!Next \/ hs' = hs
    OBVIOUS
  <2>1. CASE UNCHANGED vars
    BY <2>1 DEF vars, Holders
  <2>2. CASE \E p \in Run : Step(p) \/ Outside(p)
    <3>1. PICK p \in Run : Step(p) \/ Outside(p)
      BY <2>2
    <3>2. opts' = opts
      BY <3>1 DEF Step, Outside, GiveUp, BeginScan, Visit, CountLive, Condemn, Reap, Busy,
         AwaitSlot, BeginClaim, Create, SlotTaken, Write, Undo, Open, Flock, Sleep,
         ReleaseClose, ReleaseUnlink, Start, WriteFails, CommandEnds, Expire, Killed, Die,
         OrphanEnds, ParentWaits
    <3> QED
      BY <3>1, <3>2, HoldersStep
  <2> QED
    BY <2>1, <2>2 DEF Next, Finished
<1> QED
  BY <1>1, <1>2, <1>3, <1>4, PTL DEF Spec, Sem!Spec

(* So there are never more holders than places. *)
THEOREM PairExcludes == OneMachine /\ AtMostTwoRuns => (Spec => []MutualExclusion)
<1> SUFFICES ASSUME OneMachine, AtMostTwoRuns PROVE Spec => []MutualExclusion
  OBVIOUS
<1>1. Init => PairInv
  BY PairInvInductive
<1>2. PairInv /\ [Next]_vars => PairInv'
  BY PairInvInductive
<1>3. PairInv => MutualExclusion
  <2> SUFFICES ASSUME PairInv, NEW d \in Desc PROVE Cardinality(Holders(d)) <= MaxHolders
    BY DEF MutualExclusion
  <2>1. TypeOK /\ UniqueNames /\ OwnDescriptor
    BY DEF PairInv, TypeInv
  <2>2. Holders(d) \in SUBSET Run
    BY DEF Holders
  <2>3. \A r \in Holders(d) : pc[r] \in Claimed /\ opts[r].desc = d /\ NewFile(r) \in files
    BY DEF Holders, PairInv, ClaimPresent, Claimed
  <2> QED
    BY <2>1, <2>2, <2>3, OwnersFit
<1> QED
  BY <1>1, <1>2, <1>3, PTL DEF Spec

-----------------------------------------------------------------------------
(* One run among the dead *)

(* A run that is the only one left has counted nobody. *)
CountsNobody(p) ==
    /\ OthersEnded(p)
    /\ pc[p] \in {"scan", "exists", "reap"} => active_locks[p] = 0
    /\ pc[p] = "exists" => seen[p] # p
    /\ ret[p] # "BUSY"

(* acquire_lock has no result until it returns. *)
NotYetAnswered ==
    \A p \in Run : pc[p] \in {"unborn", "open", "flock"} \cup Acquiring => ret[p] = "none"

AnswerInv ==
    TypeInv /\ OwnDescriptor /\ NobodyForgets /\ RecordsLater /\ NotYetAnswered

LEMMA CountsNobodyStep ==
    ASSUME OwnNumbers, AnswerInv, NEW p \in Run, CountsNobody(p),
           NEW q \in Run, Step(q) \/ Outside(q)
    PROVE  CountsNobody(p)'
<1>1. TypeOK /\ RecordsLater
  BY DEF AnswerInv, TypeInv
<1>2. OthersEnded(p)'
  BY <1>1, RecordsLaterStep DEF CountsNobody, OthersEnded
<1> USE DEF TypeOK, CountsNobody, Goto, Return, dirVars, scanVars, fdVars
<1>3. CASE q # p
  <2>1. pc[q] = "ended"
    BY <1>3 DEF OthersEnded
  <2>2. OrphanEnds(q)
    BY <2>1, KillPointsAssumption DEF Step, GiveUp, BeginScan, Visit, CountLive, Condemn, Reap,
       Busy, AwaitSlot, BeginClaim, Create, SlotTaken, Write, Undo, Open, Flock, Sleep,
       ReleaseClose, ReleaseUnlink, ScanDone, Outside, Start, WriteFails, CommandEnds, Expire,
       Killed, ParentWaits, Acquiring, Claimed, Live
  <2> QED
    BY <1>2, <2>2 DEF OrphanEnds
<1>4. CASE q = p /\ CountLive(p)
  <2>1. ProcessExists(p, seen[p]) /\ pc[p] = "exists"
    BY <1>4 DEF CountLive
  <2>2. PICK r \in Run : Exists(r) /\ PidOf[r] = PidOf[seen[p]]
    BY <2>1 DEF ProcessExists
  <2>3. r = p
    BY <2>2 DEF OthersEnded, Exists, Acquiring, Claimed, Live
  <2> QED
    BY <1>1, <2>1, <2>2, <2>3 DEF OwnNumbers
<1>5. CASE q = p /\ Busy(p)
  <2>1. opts[p].max \in 1 .. MaxHolders
    BY <1>1, OptionsAssumption
  <2> QED
    BY <1>5, <2>1, MaxHoldersAssumption DEF Busy, ScanDone, Full
<1>6. CASE q = p /\ Visit(p)
  <2>1. PICK x \in todo[p] :
          \/ UNCHANGED <<pc, at, seen>>
          \/ \E f \in written : /\ seen' = [seen EXCEPT ![p] = f.owner]
                                /\ pc' = [pc EXCEPT ![p] = "exists"]
    BY <1>6 DEF Visit, ValidAt
  <2>2. active_locks' = active_locks /\ ret' = ret /\ pc[p] = "scan"
    BY <1>6 DEF Visit
  <2>3. \A f \in written : f.owner \in Run /\ f.owner # p
    BY <1>1, <2>2 DEF RecordsLater, Recorded, File
  <2> QED
    BY <1>1, <1>2, <2>1, <2>2, <2>3
<1>7. CASE q = p /\ Step(p) /\ ~ CountLive(p) /\ ~ Busy(p) /\ ~ Visit(p)
  BY <1>1, <1>2, <1>7 DEF Step, GiveUp, BeginScan, Condemn, Reap, AwaitSlot,
     BeginClaim, Create, SlotTaken, NextSlot, Write, Undo, Open, Flock, Sleep, ReleaseClose,
     ReleaseUnlink, ScanDone
<1>8. CASE q = p /\ Outside(p)
  BY <1>1, <1>2, <1>8 DEF Outside, Start, WriteFails, CommandEnds, Expire, Killed, Die,
     OrphanEnds, ParentWaits
<1> QED
  BY <1>3, <1>4, <1>5, <1>6, <1>7, <1>8

LEMMA NotYetAnsweredStep ==
    ASSUME TypeOK, NotYetAnswered, NEW p \in Run, Step(p) \/ Outside(p)
    PROVE  NotYetAnswered'
<1> USE DEF TypeOK, NotYetAnswered, Acquiring, Goto, Return, dirVars, scanVars, fdVars
<1>1. CASE Step(p)
  <2>1. CASE \/ GiveUp(p) \/ BeginScan(p) \/ Visit(p) \/ CountLive(p) \/ Condemn(p)
             \/ Reap(p) \/ Busy(p) \/ AwaitSlot(p) \/ BeginClaim(p)
    BY <2>1 DEF GiveUp, BeginScan, Visit, CountLive, Condemn, Reap, Busy, AwaitSlot,
       BeginClaim, ScanDone
  <2>2. CASE \/ Create(p) \/ SlotTaken(p) \/ Write(p) \/ Undo(p) \/ Open(p) \/ Flock(p)
             \/ Sleep(p) \/ ReleaseClose(p) \/ ReleaseUnlink(p)
    BY <2>2 DEF Create, SlotTaken, NextSlot, Write, Undo, Open, Flock, Sleep,
       ReleaseClose, ReleaseUnlink
  <2> QED
    BY <1>1, <2>1, <2>2 DEF Step
<1>2. CASE Outside(p)
  BY <1>2 DEF Outside, Start, WriteFails, CommandEnds, Expire, Killed, Die, OrphanEnds,
     ParentWaits
<1> QED
  BY <1>1, <1>2

LEMMA AnswerInvInductive ==
    /\ Init => AnswerInv
    /\ AnswerInv /\ [Next]_vars => AnswerInv'
<1>1. Init => AnswerInv
  BY TypeInvInductive DEF AnswerInv, Init, OwnDescriptor, NobodyForgets, Claimed,
     NotYetAnswered, RecordsLater
<1>2. ASSUME AnswerInv, [Next]_vars PROVE AnswerInv'
  <2>1. TypeInv'
    BY <1>2, TypeInvInductive DEF AnswerInv
  <2>2. CASE UNCHANGED vars
    BY <1>2, <2>1, <2>2 DEF AnswerInv, vars, OwnDescriptor, NobodyForgets,
       NotYetAnswered, RecordsLater
  <2>3. CASE \E p \in Run : Step(p) \/ Outside(p)
    BY <1>2, <2>1, <2>3, OwnDescriptorStep, NobodyForgetsStep, NotYetAnsweredStep,
       RecordsLaterStep DEF AnswerInv, TypeInv
  <2> QED
    BY <1>2, <2>2, <2>3 DEF Next, Finished
<1> QED
  BY <1>1, <1>2

(* A run that begins when every other run is dead is never told that the   *)
(* descriptor is busy, wherever the others died and whatever files they    *)
(* left (lock.c:186-190): the safety half of StaleLocksReclaimed.          *)
THEOREM NeverBusyAmongTheDead ==
    ASSUME OwnNumbers, NEW p \in Run
    PROVE  Spec => [](pc[p] = "loop" /\ OthersEnded(p) => [](ret[p] # "BUSY"))
<1>1. Init => AnswerInv
  BY AnswerInvInductive
<1>2. AnswerInv /\ [Next]_vars => AnswerInv'
  BY AnswerInvInductive
<1>3. AnswerInv /\ pc[p] = "loop" /\ OthersEnded(p) => CountsNobody(p)
  BY DEF AnswerInv, NotYetAnswered, Acquiring, CountsNobody
<1>4. AnswerInv /\ CountsNobody(p) /\ [Next]_vars => CountsNobody(p)'
  <2>1. CountsNobody(p) /\ UNCHANGED vars => CountsNobody(p)'
    BY DEF CountsNobody, OthersEnded, vars, scanVars
  <2> QED
    BY <2>1, CountsNobodyStep DEF Next, Finished
<1>5. CountsNobody(p) => ret[p] # "BUSY"
  BY DEF CountsNobody
<1> QED
  BY <1>1, <1>2, <1>3, <1>4, <1>5, PTL DEF Spec

(* Where all records were whole, such a run finds every slot free that it  *)
(* tries: its scan has removed each file of its descriptor.                *)
Reclaims(p) ==
    /\ CountsNobody(p)
    /\ \A f \in files : f \in written \/ (f.owner = p /\ pc[p] \in Claimed \cup Dead)
    /\ \A f \in files : f.path.desc = opts[p].desc =>
         /\ pc[p] # "claim"
         /\ pc[p] = "scan" => f.path \in todo[p]
         /\ pc[p] \in {"exists", "reap"} => f.path \in todo[p] \cup {at[p]}
         /\ pc[p] \in {"write", "undo"} => f.path = at[p]

(* The scan looks at every file of the run's descriptor (lock.c:182). *)
LEMMA AcquireFindsOwn ==
    ASSUME NEW x \in Path
    PROVE  x \in AcquireMatches(x.desc)
<1> DEFINE a == x.desc
           b == EntryName(x)
           n == Len(a)
<1>1. /\ a \in Seq(STRING) /\ \E S : b \in Seq(S)
      /\ Len(b) = n + 5 /\ \A i \in 1 .. n : b[i] = a[i]
  BY EntryNameShape
<1>2. n \in Nat
  BY <1>1, LenProperties
<1> HIDE DEF a, b
<1>3. SubSeq(a, 1, n) = SubSeq(b, 1, n)
  BY <1>1, <1>2
<1>4. IsPrefix(a, b)
  BY <1>1, <1>2, <1>3 DEF IsPrefix
<1> QED
  BY <1>4 DEF AcquireMatches, a, b

LEMMA ReclaimsStep ==
    ASSUME OwnNumbers, AnswerInv, NEW p \in Run, Reclaims(p),
           NEW q \in Run, Step(q) \/ Outside(q)
    PROVE  Reclaims(p)'
<1>1. TypeOK /\ RecordsLater /\ OwnDescriptor /\ NobodyForgets /\ CountsNobody(p)
  BY DEF AnswerInv, TypeInv, Reclaims
<1>2. CountsNobody(p)'
  BY <1>1, CountsNobodyStep
<1>3. \A f \in files : f.path \in Path /\ f.owner \in Run
  BY <1>1 DEF TypeOK, File
<1> USE DEF TypeOK, Reclaims, Goto, Return, dirVars, scanVars, fdVars
<1>4. CASE q # p
  <2>1. pc[q] = "ended"
    BY <1>1, <1>4 DEF CountsNobody, OthersEnded
  <2>2. OrphanEnds(q)
    BY <2>1, KillPointsAssumption DEF Step, GiveUp, BeginScan, Visit, CountLive, Condemn, Reap,
       Busy, AwaitSlot, BeginClaim, Create, SlotTaken, Write, Undo, Open, Flock, Sleep,
       ReleaseClose, ReleaseUnlink, ScanDone, Outside, Start, WriteFails, CommandEnds, Expire,
       Killed, ParentWaits, Acquiring, Claimed, Live
  <2> QED
    BY <1>2, <2>2 DEF OrphanEnds
<1>5. CASE q = p /\ BeginScan(p)
  <2>1. \A f \in files : f.path.desc = opts[p].desc => f.path \in AcquireMatches(opts[p].desc)
    BY <1>3, AcquireFindsOwn
  <2>2. /\ pc[p] = "loop" /\ pc'[p] = "scan" /\ opts' = opts
        /\ todo'[p] = AcquireMatches(opts[p].desc)
        /\ files' = files /\ written' = written
    BY <1>1, <1>5 DEF BeginScan
  <2> QED
    BY <1>2, <2>1, <2>2 DEF Claimed, Dead
<1>6. CASE q = p /\ Visit(p)
  <2>1. PICK x \in todo[p] :
          /\ todo' = [todo EXCEPT ![p] = @ \ {x}]
          /\ \/ /\ ValidAt(files, written, x) = {}
                /\ UNCHANGED <<pc, at, seen>>
             \/ /\ at' = [at EXCEPT ![p] = x]
                /\ pc' = [pc EXCEPT ![p] = "exists"]
    BY <1>6 DEF Visit
  <2>2. UNCHANGED <<files, written, opts>> /\ pc[p] = "scan"
    BY <1>6 DEF Visit
  <2>3. \A f \in files : f \in written
    BY <2>2 DEF Claimed, Dead
  <2>4. ValidAt(files, written, x) = {} => \A f \in files : f.path # x
    BY <2>3 DEF ValidAt, FilesAt
  <2> QED
    BY <1>1, <1>2, <2>1, <2>2, <2>3, <2>4
<1>7. CASE q = p /\ CountLive(p)
  <2>1. PICK r \in Run : Exists(r) /\ PidOf[r] = PidOf[seen[p]]
    BY <1>7 DEF CountLive, ProcessExists
  <2>2. r = p
    BY <1>1, <2>1 DEF CountsNobody, OthersEnded, Exists, Acquiring, Claimed, Live
  <2> QED
    BY <1>1, <1>7, <2>1, <2>2 DEF CountLive, CountsNobody, OwnNumbers
<1>8. CASE q = p /\ Reap(p)
  <2>1. /\ files' = Unlink(files, at[p]) /\ pc[p] = "reap" /\ pc'[p] = "scan"
        /\ UNCHANGED <<written, opts, todo>>
    BY <1>1, <1>8 DEF Reap
  <2> QED
    BY <1>2, <2>1 DEF Unlink, Claimed, Dead
<1>9. CASE q = p /\ SlotTaken(p)
  <2>1. PICK f \in files : f.path = at[p]
    BY <1>9 DEF SlotTaken, FilesAt
  <2>2. f.path.desc = opts[p].desc /\ pc[p] = "claim"
    BY <1>1, <1>9, <2>1 DEF SlotTaken, OwnDescriptor
  <2> QED
    BY <2>2
<1>10. CASE q = p /\ Create(p)
  <2>1. /\ files' = files \cup {NewFile(p)} /\ pc[p] = "claim" /\ pc'[p] = "write"
        /\ UNCHANGED <<written, opts, at>>
        /\ NewFile(p).owner = p /\ NewFile(p).path = at[p]
    BY <1>1, <1>10 DEF Create, NewFile
  <2> QED
    BY <1>2, <2>1 DEF Claimed, Dead
<1>11. CASE q = p /\ Undo(p)
  <2>1. /\ files' = Unlink(files, at[p]) /\ pc[p] = "undo" /\ pc'[p] \in {"claim", "wait"}
        /\ UNCHANGED <<written, opts>>
    BY <1>1, <1>11 DEF Undo, NextSlot
  <2>2. \A f \in files' : f.owner # p
    BY <1>1, <2>1 DEF NobodyForgets, Unlink, Dead
  <2> QED
    BY <1>2, <2>1, <2>2 DEF Unlink
<1>12. CASE q = p /\ ReleaseUnlink(p)
  <2>1. /\ files' = Unlink(files, at[p]) /\ pc'[p] = "zombie"
        /\ UNCHANGED <<written, opts>>
    BY <1>1, <1>12 DEF ReleaseUnlink
  <2> QED
    BY <1>2, <2>1 DEF Unlink, Dead
<1>13. CASE q = p /\ BeginClaim(p)
  <2>1. /\ pc[p] = "scan" /\ todo[p] = {} /\ pc'[p] = "claim"
        /\ UNCHANGED <<files, written, opts>>
    BY <1>1, <1>13 DEF BeginClaim, ScanDone
  <2> QED
    BY <1>2, <2>1 DEF Claimed, Dead
<1>14. CASE \/ q = p /\ Outside(p)
            \/ /\ q = p /\ Step(p)
               /\ ~ BeginScan(p) /\ ~ Visit(p) /\ ~ CountLive(p) /\ ~ Reap(p) /\ ~ SlotTaken(p)
               /\ ~ Create(p) /\ ~ Undo(p) /\ ~ ReleaseUnlink(p) /\ ~ BeginClaim(p)
  <2>1. /\ files' = files /\ opts' = opts /\ todo'[p] \in {todo[p], {}}
        /\ written \subseteq written'
        /\ pc[p] \in Claimed \cup Dead => pc'[p] \in Claimed \cup Dead
        /\ \/ pc'[p] \notin {"scan", "exists", "reap", "claim", "write", "undo"}
           \/ /\ pc'[p] = pc[p] /\ UNCHANGED <<todo, at>>
           \/ Condemn(p) \/ WriteFails(p)
    <3>1. CASE Outside(p)
      BY <1>1, <3>1 DEF Outside, Start, WriteFails, CommandEnds, Expire, Killed, Die,
         OrphanEnds, ParentWaits, Acquiring, Claimed, Dead
    <3>2. CASE Step(p)
      BY <1>1, <1>14, <3>1, <3>2 DEF Step, GiveUp, Condemn, Busy, AwaitSlot, Write, Open, Flock,
         Sleep, ReleaseClose, ScanDone, Claimed, Dead
    <3> QED
      BY <1>14, <3>1, <3>2
  <2>2. CASE Condemn(p) \/ WriteFails(p)
    BY <1>1, <1>2, <2>2 DEF Condemn, WriteFails, Claimed, Dead
  <2> QED
    BY <1>1, <1>2, <2>1, <2>2
<1> QED
  BY <1>4, <1>5, <1>6, <1>7, <1>8, <1>9, <1>10, <1>11, <1>12, <1>13, <1>14

(* A run that begins when every other run is dead, with no half-written    *)
(* file in the directory, never finds a slot taken: whatever files the     *)
(* dead have left, it gets the first slot it can write (lock.c:186-218).   *)
(* A file whose owner died while writing it is in the way for ever.        *)
THEOREM SlotsAreReclaimed ==
    ASSUME OwnNumbers, NEW p \in Run
    PROVE  Spec => [](pc[p] = "loop" /\ OthersEnded(p) /\ files \subseteq written
                        => [](pc[p] = "claim" => FilesAt(files, at[p]) = {}))
<1>1. Init => AnswerInv
  BY AnswerInvInductive
<1>2. AnswerInv /\ [Next]_vars => AnswerInv'
  BY AnswerInvInductive
<1>3. AnswerInv /\ pc[p] = "loop" /\ OthersEnded(p) /\ files \subseteq written => Reclaims(p)
  BY DEF AnswerInv, NotYetAnswered, Acquiring, CountsNobody, Reclaims
<1>4. AnswerInv /\ Reclaims(p) /\ [Next]_vars => Reclaims(p)'
  <2>1. Reclaims(p) /\ UNCHANGED vars => Reclaims(p)'
    BY DEF Reclaims, CountsNobody, OthersEnded, vars, scanVars
  <2> QED
    BY <2>1, ReclaimsStep DEF Next, Finished
<1>5. AnswerInv /\ Reclaims(p) => (pc[p] = "claim" => FilesAt(files, at[p]) = {})
  BY DEF AnswerInv, OwnDescriptor, Reclaims, FilesAt
<1> QED
  BY <1>1, <1>2, <1>3, <1>4, <1>5, PTL DEF Spec
=============================================================================
