-------------------------- MODULE ClaimAuditProofs ---------------------------
(***************************************************************************)
(* Theorems about ClaimAudit: what a run keeps when it claims a slot that  *)
(* nobody else is examining, and that its flock finds the file free, for   *)
(* every number of runs and slots, with runs killed anywhere and process   *)
(* ids reused, on one machine.                                             *)
(***************************************************************************)
EXTENDS ClaimAudit, WaitLockProofs, FiniteSetTheorems

CleanType == clean \in [Run -> BOOLEAN]

(* A run that has read a record at the path of a clean claim has read the  *)
(* claimant's own, and has not judged it dead.                             *)
OthersHarmless ==
    \A p, q \in Run :
        /\ p # q
        /\ clean[p] /\ pc[p] \in Claimed
        /\ pc[q] \in {"exists", "reap"}
        /\ at[q] = at[p]
        => pc[q] = "exists" /\ seen[q] = p

AuditInv ==
    /\ TypeInv
    /\ CleanType
    /\ UniqueNames
    /\ CleanClaimKept
    /\ CleanRunIsAlone
    /\ OthersHarmless

CleanUpdate ==
    clean' = [p \in Run |-> IF pc[p] = "claim" /\ pc'[p] = "write"
                               THEN Quiet(p)
                               ELSE clean[p]]

(* The history variable changes where a file is created and nowhere else.  *)
LEMMA CleanSteps ==
    ASSUME TypeOK, CleanType, NEW p \in Run, Step(p) \/ Outside(p), CleanUpdate
    PROVE  /\ clean' \in [Run -> BOOLEAN]
           /\ \A q \in Run \ {p} : clean'[q] = clean[q]
           /\ Create(p) => clean'[p] = Quiet(p)
           /\ pc'[p] \in Claimed /\ ~ Create(p) => clean'[p] = clean[p]
<1>1. \A q \in Run \ {p} : pc'[q] = pc[q]
  BY OthersUnmoved
<1>2. Create(p) => pc[p] = "claim" /\ pc'[p] = "write"
  BY DEF Create, Goto, TypeOK
<1>3. pc'[p] \in Claimed /\ ~ Create(p) => pc[p] # "claim"
  BY OwnerKeepsPath DEF Claimed
<1>4. \A q \in Run : Quiet(q) \in BOOLEAN
  BY DEF Quiet
<1> QED
  BY <1>1, <1>2, <1>3, <1>4 DEF CleanUpdate, CleanType

-----------------------------------------------------------------------------
(* The invariant is preserved by every step of every run.  In the three    *)
(* lemmas p is the run that moves.                                         *)
LEMMA CleanClaimKeptStep ==
    ASSUME AuditInv, NEW p \in Run, Step(p) \/ Outside(p), CleanUpdate
    PROVE  CleanClaimKept'
<1> USE DEF AuditInv, TypeInv
<1> SUFFICES ASSUME NEW r \in Run, clean'[r], pc'[r] \in Claimed
             PROVE  NewFile(r)' \in files'
  BY DEF CleanClaimKept
<1>1. CASE Create(p) /\ r = p
  BY <1>1 DEF Create, NewFile
<1>2. CASE ~ Create(p) /\ r = p
  <2>1. clean[p] /\ pc[p] \in Claimed
    BY <1>2, CleanSteps, OwnerKeepsPath
  <2>2. NewFile(p)' = NewFile(p) /\ files' = files
    BY <1>2, OwnerKeepsPath DEF NewFile
  <2> QED
    BY <1>2, <2>1, <2>2 DEF CleanClaimKept
<1>3. CASE r # p
  <2>1. clean[r] /\ pc[r] \in Claimed
    BY <1>3, CleanSteps, OthersUnmoved
  <2>2. NewFile(r)' = NewFile(r)
    BY <1>3, OthersUnmoved DEF NewFile
  <2>3. NewFile(r) \in files
    BY <2>1 DEF CleanClaimKept
  <2>4. CASE Create(p) \/ files' = files
    BY <2>2, <2>3, <2>4 DEF Create
  <2>5. CASE files' = Unlink(files, at[p]) /\ (Reap(p) \/ Undo(p) \/ ReleaseUnlink(p))
    <3>1. pc[p] = "reap" \/ pc[p] \in Claimed
      BY <2>5 DEF Reap, Undo, ReleaseUnlink, Claimed
    <3>2. at[p] # at[r]
      BY <1>3, <2>1, <3>1 DEF OthersHarmless, CleanRunIsAlone
    <3> QED
      BY <2>2, <2>3, <2>5, <3>2 DEF Unlink, NewFile
  <2> QED
    BY <2>4, <2>5, DirectorySteps
<1> QED
  BY <1>1, <1>2, <1>3

LEMMA CleanRunIsAloneStep ==
    ASSUME AuditInv, NEW p \in Run, Step(p) \/ Outside(p), CleanUpdate
    PROVE  CleanRunIsAlone'
<1> USE DEF AuditInv, TypeInv
<1> SUFFICES ASSUME NEW r \in Run, NEW q \in Run, r # q,
                    clean'[r], pc'[r] \in Claimed, pc'[q] \in Claimed
             PROVE  at'[r] # at'[q]
  BY DEF CleanRunIsAlone
<1>1. CASE r = p /\ Create(p)
  <2>1. Quiet(p) /\ at' = at
    BY <1>1, CleanSteps DEF Create
  <2>2. pc[q] \in Claimed
    BY <1>1, OthersUnmoved
  <2> QED
    BY <1>1, <2>1, <2>2 DEF Quiet, Armed
<1>2. CASE q = p /\ Create(p)
  <2>1. clean[r] /\ pc[r] \in Claimed /\ at' = at
    BY <1>2, CleanSteps, OthersUnmoved DEF Create
  <2>2. NewFile(r) \in files /\ NewFile(r).path = at[r]
    BY <2>1 DEF CleanClaimKept, NewFile
  <2> QED
    BY <1>2, <2>1, <2>2 DEF Create, FilesAt
<1>3. CASE ~ Create(p) \/ (r # p /\ q # p)
  <2>1. clean[r] /\ pc[r] \in Claimed /\ at'[r] = at[r]
    BY <1>3, CleanSteps, OwnerKeepsPath, OthersUnmoved
  <2>2. pc[q] \in Claimed /\ at'[q] = at[q]
    BY <1>3, OwnerKeepsPath, OthersUnmoved
  <2> QED
    BY <2>1, <2>2 DEF CleanRunIsAlone
<1> QED
  BY <1>1, <1>2, <1>3

LEMMA OthersHarmlessStep ==
    ASSUME OneMachine, AuditInv, NEW p \in Run, Step(p) \/ Outside(p), CleanUpdate
    PROVE  OthersHarmless'
<1> USE DEF AuditInv, TypeInv
<1> SUFFICES ASSUME NEW r \in Run, NEW q \in Run, r # q,
                    clean'[r], pc'[r] \in Claimed,
                    pc'[q] \in {"exists", "reap"}, at'[q] = at'[r]
             PROVE  pc'[q] = "exists" /\ seen'[q] = r
  BY DEF OthersHarmless
<1>1. CASE r = p /\ Create(p)
  <2>1. Quiet(p) /\ at' = at
    BY <1>1, CleanSteps DEF Create
  <2>2. pc[q] \in {"exists", "reap"}
    BY <1>1, OthersUnmoved
  <2> QED
    BY <1>1, <2>1, <2>2 DEF Quiet, Armed
<1>2. CASE r = p /\ ~ Create(p)
  <2>1. clean[p] /\ pc[p] \in Claimed /\ at'[p] = at[p]
    BY <1>2, CleanSteps, OwnerKeepsPath
  <2>2. pc'[q] = pc[q] /\ at'[q] = at[q] /\ seen'[q] = seen[q]
    BY <1>2, OthersUnmoved
  <2> QED
    BY <1>2, <2>1, <2>2 DEF OthersHarmless
<1>3. CASE r # p
  <2>1. clean[r] /\ pc[r] \in Claimed /\ at'[r] = at[r]
    BY <1>3, CleanSteps, OthersUnmoved
  <2>2. CASE q # p
    BY <1>3, <2>1, <2>2, OthersUnmoved DEF OthersHarmless
  <2>3. CASE q = p
    <3>1. CASE pc'[p] = "exists" /\ \E f \in files : f.path = at'[p] /\ f.owner = seen'[p]
      <4>1. PICK f \in files : f.path = at'[p] /\ f.owner = seen'[p]
        BY <3>1
      <4>2. NewFile(r) \in files /\ NewFile(r).path = at[r] /\ NewFile(r).owner = r
        BY <2>1 DEF CleanClaimKept, NewFile
      <4>3. f = NewFile(r)
        BY <2>1, <2>3, <4>1, <4>2 DEF UniqueNames
      <4> QED
        BY <2>3, <3>1, <4>1, <4>2, <4>3
    <3>2. CASE Condemn(p)
      <4>1. pc[p] = "exists" /\ at' = at
        BY <3>2 DEF Condemn
      <4>2. seen[p] = r
        BY <1>3, <2>1, <2>3, <4>1 DEF OthersHarmless
      <4>3. Exists(r) /\ HostOf[r] = HostOf[p]
        BY <2>1 DEF Exists, Live, OneMachine
      <4>4. ProcessExists(p, seen[p])
        BY <4>2, <4>3 DEF ProcessExists
      <4> QED
        BY <3>2, <4>4 DEF Condemn
    <3>3. CASE pc'[p] = pc[p] /\ at'[p] = at[p] /\ seen'[p] = seen[p]
      BY <1>3, <2>1, <2>3, <3>3 DEF OthersHarmless
    <3> QED
      BY <2>3, <3>1, <3>2, <3>3, ExaminerSteps
  <2> QED
    BY <2>2, <2>3
<1> QED
  BY <1>1, <1>2, <1>3

LEMMA AuditInvInductive ==
    /\ AuditInit => AuditInv
    /\ OneMachine /\ AuditInv /\ [AuditNext]_auditVars => AuditInv'
<1>1. AuditInit => AuditInv
  <2> SUFFICES ASSUME AuditInit PROVE AuditInv
    OBVIOUS
  <2>1. TypeInv
    BY TypeInvInductive DEF AuditInit
  <2> QED
    BY <2>1 DEF AuditInit, Init, AuditInv, CleanType, UniqueNames, CleanClaimKept,
       CleanRunIsAlone, OthersHarmless
<1>2. ASSUME OneMachine, AuditInv, [AuditNext]_auditVars PROVE AuditInv'
  <2>1. TypeInv'
    BY <1>2, TypeInvInductive DEF AuditInv, AuditNext, auditVars
  <2>2. CASE UNCHANGED auditVars
    BY <1>2, <2>1, <2>2 DEF AuditInv, auditVars, vars, CleanType, UniqueNames,
       CleanClaimKept, CleanRunIsAlone, OthersHarmless, NewFile
  <2>3. CASE CleanUpdate /\ Finished
    <3>1. UNCHANGED vars
      BY <2>3 DEF Finished
    <3>2. clean' = clean
      BY <1>2, <2>3, <3>1 DEF CleanUpdate, vars, AuditInv, CleanType
    <3> QED
      BY <1>2, <2>2, <3>1, <3>2 DEF auditVars
  <2>4. CASE CleanUpdate /\ \E p \in Run : Step(p) \/ Outside(p)
    <3>1. PICK p \in Run : Step(p) \/ Outside(p)
      BY <2>4
    <3>2. CleanClaimKept' /\ CleanRunIsAlone' /\ OthersHarmless'
      BY <1>2, <2>4, <3>1, CleanClaimKeptStep, CleanRunIsAloneStep, OthersHarmlessStep
    <3>3. UniqueNames'
      BY <1>2, <3>1, UniqueNamesStep DEF AuditInv
    <3>4. CleanType'
      BY <1>2, <2>4, <3>1, CleanSteps DEF AuditInv, TypeInv, CleanType
    <3> QED
      BY <2>1, <3>2, <3>3, <3>4 DEF AuditInv
  <2> QED
    BY <1>2, <2>2, <2>3, <2>4 DEF AuditNext, Next, CleanUpdate
<1> QED
  BY <1>1, <1>2

(* A file created under a quiet name stays until its creator is done with  *)
(* it, for every number of runs, killed anywhere, with numbers reused.     *)
THEOREM CleanClaimsAreKept == OneMachine => (AuditSpec => []CleanClaimKept)
<1> SUFFICES ASSUME OneMachine PROVE AuditSpec => []CleanClaimKept
  OBVIOUS
<1>1. AuditInit => AuditInv
  BY AuditInvInductive
<1>2. AuditInv /\ [AuditNext]_auditVars => AuditInv'
  BY AuditInvInductive
<1>3. AuditInv => CleanClaimKept
  BY DEF AuditInv
<1> QED
  BY <1>1, <1>2, <1>3, PTL DEF AuditSpec

(* ... and no other live run believes it owns the same slot.               *)
THEOREM CleanRunsAreAlone == OneMachine => (AuditSpec => []CleanRunIsAlone)
<1> SUFFICES ASSUME OneMachine PROVE AuditSpec => []CleanRunIsAlone
  OBVIOUS
<1>1. AuditInit => AuditInv
  BY AuditInvInductive
<1>2. AuditInv /\ [AuditNext]_auditVars => AuditInv'
  BY AuditInvInductive
<1>3. AuditInv => CleanRunIsAlone
  BY DEF AuditInv
<1> QED
  BY <1>1, <1>2, <1>3, PTL DEF AuditSpec

-----------------------------------------------------------------------------
(* Refinement of the semaphore *)

LEMMA OwnDescriptorInductive ==
    /\ AuditInit => OwnDescriptor
    /\ TypeOK /\ OwnDescriptor /\ [AuditNext]_auditVars => OwnDescriptor'
<1>1. AuditInit => OwnDescriptor
  BY DEF AuditInit, Init, OwnDescriptor, Claimed
<1>2. ASSUME TypeOK, OwnDescriptor, NEW p \in Run, Step(p) \/ Outside(p)
      PROVE  OwnDescriptor'
  BY <1>2, OwnDescriptorStep
<1>3. TypeOK /\ OwnDescriptor /\ [AuditNext]_auditVars => OwnDescriptor'
  <2>1. UNCHANGED vars /\ OwnDescriptor => OwnDescriptor'
    BY DEF OwnDescriptor, vars
  <2> QED
    BY <1>2, <2>1 DEF AuditNext, Next, Finished, auditVars
<1> QED
  BY <1>1, <1>3

(* Clean holders of one descriptor sit in different slots, so a run that   *)
(* is about to join them on a clean claim finds fewer than MaxHolders.     *)
LEMMA RoomForCleanClaim ==
    ASSUME AuditInv, OwnDescriptor, NEW p \in Run,
           clean[p], pc[p] \in Claimed, pc[p] # "held"
    PROVE  Cardinality(CleanHolders(opts[p].desc)) < MaxHolders
<1> DEFINE H == CleanHolders(opts[p].desc)
           S == H \cup {p}
           f == [r \in S |-> at[r].slot]
<1>1. \A r \in S : r \in Run /\ clean[r] /\ pc[r] \in Claimed /\ at[r].desc = opts[p].desc
  BY DEF CleanHolders, Holders, Claimed, OwnDescriptor
<1>2. \A r \in S : at[r] \in [desc : Desc, slot : 0 .. MaxHolders - 1]
  BY <1>1 DEF AuditInv, TypeInv, TypeOK, Path
<1>3. \A r, q \in S : r # q => at[r].slot # at[q].slot
  <2> SUFFICES ASSUME NEW r \in S, NEW q \in S, r # q, at[r].slot = at[q].slot PROVE FALSE
    OBVIOUS
  <2>1. at[r] = at[q]
    BY <1>1, <1>2
  <2> QED
    BY <1>1, <2>1 DEF AuditInv, CleanRunIsAlone
<1>4. f \in Injection(S, 0 .. MaxHolders - 1)
  BY <1>2, <1>3 DEF Injection, IsInjective
<1>5. IsFiniteSet(0 .. MaxHolders - 1) /\ Cardinality(0 .. MaxHolders - 1) = MaxHolders
  BY FS_Interval, MaxHoldersAssumption
<1>6. IsFiniteSet(S) /\ Cardinality(S) <= MaxHolders
  BY <1>4, <1>5, FS_Injection
<1>7. p \notin H
  BY DEF CleanHolders, Holders
<1>8. IsFiniteSet(H)
  BY <1>6, FS_Subset
<1>9. Cardinality(S) = Cardinality(H) + 1 /\ Cardinality(H) \in Nat
  BY <1>7, <1>8, FS_AddElement, FS_CardinalityType
<1> QED
  BY <1>6, <1>9, MaxHoldersAssumption

(* A run's step adds the run to the holders of its descriptor, takes it    *)
(* away, or leaves all the holders as they are.                            *)
LEMMA CleanHoldersStep ==
    ASSUME AuditInv, OwnDescriptor, NEW p \in Run, Step(p) \/ Outside(p), CleanUpdate,
           opts' = opts
    PROVE  CleanSem!Next \/ \A d \in Desc : CleanHolders(d)' = CleanHolders(d)
<1> USE DEF AuditInv, TypeInv
<1>1. \A q \in Run \ {p} : \A d \in Desc : q \in CleanHolders(d)' <=> q \in CleanHolders(d)
  BY OthersUnmoved, CleanSteps DEF CleanHolders, Holders
<1>2. \A d \in Desc : CleanHolders(d) \subseteq Run /\ CleanHolders(d)' \subseteq Run
  BY DEF CleanHolders, Holders
<1>3. opts[p].desc \in Desc
  BY OptionsAssumption DEF TypeOK
<1>4. pc'[p] = "held" => clean'[p] = clean[p] /\ pc[p] \in Claimed
  <2>1. Create(p) => pc'[p] # "held"
    BY DEF Create, Goto, TypeOK
  <2> QED
    BY <2>1, CleanSteps, OwnerKeepsPath DEF Claimed
<1> DEFINE hs == [d \in Desc |-> CleanHolders(d)]
           d0 == opts[p].desc
<1>5. CASE pc'[p] = "held" /\ pc[p] # "held" /\ clean[p]
  <2>1. \A d \in Desc : CleanHolders(d)' =
                          IF d = d0 THEN CleanHolders(d) \cup {p} ELSE CleanHolders(d)
    BY <1>1, <1>2, <1>4, <1>5 DEF CleanHolders, Holders
  <2>2. p \notin CleanHolders(d0)
    BY <1>5 DEF CleanHolders, Holders
  <2>3. Cardinality(CleanHolders(d0)) < MaxHolders
    BY <1>4, <1>5, RoomForCleanClaim
  <2>4. [d \in Desc |-> CleanHolders(d)'] = [hs EXCEPT ![d0] = @ \cup {p}]
    BY <1>3, <2>1
  <2>5. CleanSem!Cardinality(CleanHolders(d0)) = Cardinality(CleanHolders(d0))
    BY DEF CleanSem!Cardinality, Cardinality
  <2>6. CleanSem!Acquire(p, d0)
    BY <1>3, <2>2, <2>3, <2>4, <2>5 DEF CleanSem!Acquire
  <2> QED
    BY <1>3, <2>6 DEF CleanSem!Next
<1>6. CASE pc[p] = "held" /\ pc'[p] # "held" /\ clean[p]
  <2>1. \A d \in Desc : CleanHolders(d)' =
                          IF d = d0 THEN CleanHolders(d) \ {p} ELSE CleanHolders(d)
    BY <1>1, <1>2, <1>6 DEF CleanHolders, Holders
  <2>2. p \in CleanHolders(d0)
    BY <1>6 DEF CleanHolders, Holders
  <2>3. [d \in Desc |-> CleanHolders(d)'] = [hs EXCEPT ![d0] = @ \ {p}]
    BY <1>3, <2>1
  <2>4. CleanSem!Leave(p, d0)
    BY <1>3, <2>2, <2>3 DEF CleanSem!Leave
  <2> QED
    BY <1>3, <2>4 DEF CleanSem!Next
<1>7. CASE (pc'[p] = "held" <=> pc[p] = "held") \/ ~ clean[p]
  <2>1. \A d \in Desc : p \in CleanHolders(d)' <=> p \in CleanHolders(d)
    BY <1>4, <1>7 DEF CleanHolders, Holders
  <2> QED
    BY <1>1, <1>2, <2>1
<1> QED
  BY <1>5, <1>6, <1>7

(* The runs that hold on a clean claim are a semaphore with MaxHolders     *)
(* places, for every number of runs and slots: all that can break the      *)
(* promise of the README is a claim made inside another run's window.      *)
THEOREM CleanClaimsImplementSemaphore == OneMachine => (AuditSpec => ImplementsCleanSemaphore)
<1> SUFFICES ASSUME OneMachine PROVE AuditSpec => CleanSem!Spec
  BY DEF ImplementsCleanSemaphore
<1> DEFINE hs == [d \in Desc |-> CleanHolders(d)]
<1>1. AuditInit => AuditInv /\ OwnDescriptor
  BY AuditInvInductive, OwnDescriptorInductive
<1>2. AuditInv /\ OwnDescriptor /\ [AuditNext]_auditVars => AuditInv' /\ OwnDescriptor'
  BY AuditInvInductive, OwnDescriptorInductive DEF AuditInv, TypeInv
<1>3. AuditInit => CleanSem!Init
  BY DEF AuditInit, Init, CleanSem!Init, CleanHolders, Holders
<1>4. AuditInv /\ OwnDescriptor /\ [AuditNext]_auditVars => [CleanSem!Next]_hs
  <2> SUFFICES ASSUME AuditInv, OwnDescriptor, [AuditNext]_auditVars
               PROVE  CleanSem!Next \/ hs' = hs
    OBVIOUS
  <2>1. CASE UNCHANGED vars /\ UNCHANGED clean
    BY <2>1 DEF vars, CleanHolders, Holders
  <2>2. CASE CleanUpdate /\ Finished
    <3>1. clean' = clean
      BY <2>2 DEF CleanUpdate, Finished, vars, AuditInv, CleanType
    <3> QED
      BY <2>1, <2>2, <3>1 DEF Finished
  <2>3. CASE CleanUpdate /\ \E p \in Run : Step(p) \/ Outside(p)
    <3>1. PICK p \in Run : Step(p) \/ Outside(p)
      BY <2>3
    <3>2. opts' = opts
      BY <3>1 DEF Step, Outside, GiveUp, BeginScan, Visit, CountLive, Condemn, Reap, Busy,
         AwaitSlot, BeginClaim, Create, SlotTaken, Write, Undo, Open, Flock, Sleep,
         ReleaseClose, ReleaseUnlink, Start, WriteFails, CommandEnds, Expire, Killed, Die,
         OrphanEnds, ParentWaits
    <3> QED
      BY <2>3, <3>1, <3>2, CleanHoldersStep
  <2> QED
    BY <2>1, <2>2, <2>3 DEF AuditNext, Next, CleanUpdate, auditVars
<1> QED
  BY <1>1, <1>2, <1>3, <1>4, PTL DEF AuditSpec, CleanSem!Spec
-----------------------------------------------------------------------------
(* The lock on the file (lock.c:222-228) *)

(* The files in the directory and the removed ones that somebody has open  *)
InUse(f) == f \in files \/ \E q \in Run : f \in lock_fd[q]

(* A run that creates a file creates another one than before.              *)
Numbered ==
    \A f \in File :
        InUse(f) => \/ f.gen < gen[f.owner]
                    \/ f.gen = gen[f.owner] /\ pc[f.owner] \in Claimed \cup Dead

(* Nobody else has the file of a clean claim open.                         *)
CleanFilePrivate ==
    \A p, q \in Run : p # q /\ clean[p] /\ pc[p] \in Claimed => NewFile(p) \notin lock_fd[q]

CleanFileOpen ==
    \A p \in Run : clean[p] /\ pc[p] = "flock" => lock_fd[p] = {NewFile(p)}

(* flock() finds the file of a clean claim free.                           *)
CleanFlockFree ==
    \A p \in Run : clean[p] /\ pc[p] = "flock" =>
        ~ \E q \in Run \ {p} : flocked[q] /\ lock_fd[q] = lock_fd[p]

FlockInv == AuditInv /\ Numbered /\ CleanFilePrivate /\ CleanFileOpen

(* A run comes to have a file open where Open finds it, and nowhere else.  *)
LEMMA DescriptorSteps ==
    ASSUME TypeOK, NEW p \in Run, Step(p) \/ Outside(p)
    PROVE  /\ \A q \in Run \ {p} : lock_fd'[q] = lock_fd[q]
           /\ Open(p) => lock_fd'[p] = FilesAt(files, at[p])
           /\ ~ Open(p) => lock_fd'[p] \in {lock_fd[p], {}}
           /\ ~ Open(p) /\ pc'[p] = "flock" => pc[p] = "flock" /\ lock_fd'[p] = lock_fd[p]
<1> USE DEF TypeOK, Goto, Return, dirVars, scanVars, fdVars
<1>1. CASE Open(p)
  BY <1>1 DEF Open
<1>2. CASE Step(p) /\ ~ Open(p)
  BY <1>2 DEF Step, GiveUp, BeginScan, Visit, CountLive, Condemn, Reap, Busy, AwaitSlot,
     BeginClaim, Create, SlotTaken, NextSlot, Write, Undo, Flock, Sleep, ReleaseClose,
     ReleaseUnlink, ScanDone
<1>3. CASE Outside(p) /\ ~ Open(p)
  BY <1>3 DEF Outside, Start, WriteFails, CommandEnds, Expire, Killed, Die, OrphanEnds,
     ParentWaits
<1> QED
  BY <1>1, <1>2, <1>3

LEMMA NumberedStep ==
    ASSUME TypeOK, Numbered, NEW p \in Run, Step(p) \/ Outside(p)
    PROVE  Numbered'
<1>1. \A q \in Run : gen[q] \in Nat /\ gen[q] \in 0 .. MaxWriteFailures
  BY MaxWriteFailuresAssumption DEF TypeOK
<1>2. SUFFICES ASSUME NEW f \in File, InUse(f)'
               PROVE  \/ f.gen < gen'[f.owner]
                      \/ f.gen = gen'[f.owner] /\ pc'[f.owner] \in Claimed \cup Dead
  BY DEF Numbered
<1>3. f.owner \in Run /\ f.gen \in Nat
  BY MaxWriteFailuresAssumption DEF File
<1>4. InUse(f) \/ (Create(p) /\ f = NewFile(p))
  <2>1. f \in files' => f \in files \/ (Create(p) /\ f = NewFile(p))
    BY DirectorySteps DEF Create, Unlink
  <2>2. \A q \in Run : f \in lock_fd'[q] => f \in lock_fd[q] \/ f \in files
    BY DescriptorSteps DEF FilesAt
  <2> QED
    BY <1>2, <2>1, <2>2 DEF InUse
<1>5. CASE Create(p)
  <2>1. gen' = gen /\ pc[p] = "claim" /\ pc'[p] = "write" /\ NewFile(p).gen = gen[p]
        /\ NewFile(p).owner = p
    BY <1>5 DEF Create, Goto, TypeOK, NewFile
  <2>2. \A q \in Run \ {p} : pc'[q] = pc[q]
    BY OthersUnmoved
  <2> QED
    BY <1>3, <1>4, <2>1, <2>2 DEF Numbered, Claimed
<1>6. CASE Undo(p)
  <2>1. InUse(f) /\ gen'[p] = gen[p] + 1 /\ \A q \in Run \ {p} : gen'[q] = gen[q] /\ pc'[q] = pc[q]
    BY <1>4, <1>6, OthersUnmoved DEF Undo, Create, TypeOK
  <2> QED
    BY <1>1, <1>3, <2>1 DEF Numbered
<1>7. CASE ~ Create(p) /\ ~ Undo(p)
  <2>1. gen' = gen /\ (pc[p] \in Claimed \cup Dead => pc'[p] \in Claimed \cup Dead)
    <3> USE DEF TypeOK, Goto, Return, Claimed, Dead, dirVars, scanVars, fdVars
    <3>1. CASE Step(p)
      BY <1>7, <3>1 DEF Step, GiveUp, BeginScan, Visit, CountLive, Condemn, Reap, Busy,
         AwaitSlot, BeginClaim, SlotTaken, NextSlot, Write, Open, Flock, Sleep,
         ReleaseClose, ReleaseUnlink, ScanDone
    <3>2. CASE Outside(p)
      BY <3>2 DEF Outside, Start, WriteFails, CommandEnds, Expire, Killed, Die, OrphanEnds,
         ParentWaits, Acquiring
    <3> QED
      BY <3>1, <3>2
  <2>2. \A q \in Run \ {p} : pc'[q] = pc[q]
    BY OthersUnmoved
  <2> QED
    BY <1>3, <1>4, <1>7, <2>1, <2>2 DEF Numbered
<1> QED
  BY <1>5, <1>6, <1>7

LEMMA CleanFilePrivateStep ==
    ASSUME FlockInv, AuditInv', NEW p \in Run, Step(p) \/ Outside(p), CleanUpdate
    PROVE  CleanFilePrivate'
<1>1. TypeOK /\ CleanType /\ Numbered /\ CleanFilePrivate /\ CleanClaimKept /\ CleanRunIsAlone
  BY DEF FlockInv, AuditInv, TypeInv
<1>2. SUFFICES ASSUME NEW r \in Run, NEW q \in Run, r # q, clean'[r], pc'[r] \in Claimed
               PROVE  NewFile(r)' \notin lock_fd'[q]
  BY DEF CleanFilePrivate
<1>3. CASE r = p /\ Create(p)
  <2>1. NewFile(p)' = NewFile(p) /\ pc[p] = "claim" /\ lock_fd' = lock_fd
    BY <1>3 DEF Create, NewFile, fdVars
  <2>2. NewFile(p) \in File /\ NewFile(p).owner = p /\ NewFile(p).gen = gen[p]
    BY <1>1 DEF NewFile, File, TypeOK
  <2>3. gen[p] \in Nat
    BY <1>1, MaxWriteFailuresAssumption DEF TypeOK
  <2>4. ~ InUse(NewFile(p))
    BY <1>1, <2>1, <2>2, <2>3 DEF Numbered, Claimed, Dead
  <2> QED
    BY <1>3, <2>1, <2>4 DEF InUse
<1>4. CASE ~ (r = p /\ Create(p))
  <2>1. clean[r] /\ pc[r] \in Claimed /\ NewFile(r)' = NewFile(r)
    BY <1>1, <1>2, <1>4, CleanSteps, OwnerKeepsPath, OthersUnmoved DEF NewFile
  <2>2. NewFile(r) \notin lock_fd[q]
    BY <1>1, <1>2, <2>1 DEF CleanFilePrivate
  <2>3. CASE q = p /\ Open(p)
    <3>1. pc[p] \in Claimed
      BY <2>3 DEF Open, Claimed
    <3>2. at[r] # at[p]
      BY <1>1, <1>2, <2>1, <2>3, <3>1 DEF CleanRunIsAlone
    <3>3. lock_fd'[q] = FilesAt(files, at[p])
      BY <1>1, <2>3, DescriptorSteps
    <3> QED
      BY <2>1, <3>2, <3>3 DEF FilesAt, NewFile
  <2>4. CASE ~ (q = p /\ Open(p))
    BY <1>1, <2>1, <2>2, <2>4, DescriptorSteps
  <2> QED
    BY <2>3, <2>4
<1> QED
  BY <1>3, <1>4

LEMMA CleanFileOpenStep ==
    ASSUME FlockInv, NEW p \in Run, Step(p) \/ Outside(p), CleanUpdate
    PROVE  CleanFileOpen'
<1>1. TypeOK /\ CleanType /\ UniqueNames /\ CleanClaimKept /\ CleanFileOpen
  BY DEF FlockInv, AuditInv, TypeInv
<1>2. SUFFICES ASSUME NEW r \in Run, clean'[r], pc'[r] = "flock"
               PROVE  lock_fd'[r] = {NewFile(r)'}
  BY DEF CleanFileOpen
<1>3. ~ (r = p /\ Create(p))
  BY <1>1, <1>2 DEF Create, Goto, TypeOK
<1>4. clean[r] /\ pc[r] \in Claimed /\ NewFile(r)' = NewFile(r)
  BY <1>1, <1>2, <1>3, CleanSteps, OwnerKeepsPath, OthersUnmoved DEF NewFile, Claimed
<1>5. CASE r = p /\ Open(p)
  <2>1. lock_fd'[p] = FilesAt(files, at[p])
    BY <1>1, <1>5, DescriptorSteps
  <2>2. NewFile(p) \in files /\ NewFile(p).path = at[p]
    BY <1>1, <1>4, <1>5 DEF CleanClaimKept, NewFile
  <2>3. FilesAt(files, at[p]) = {NewFile(p)}
    BY <1>1, <2>2 DEF FilesAt, UniqueNames
  <2> QED
    BY <1>4, <1>5, <2>1, <2>3
<1>6. CASE ~ (r = p /\ Open(p))
  <2>1. pc[r] = "flock" /\ lock_fd'[r] = lock_fd[r]
    BY <1>1, <1>2, <1>6, DescriptorSteps, OthersUnmoved
  <2> QED
    BY <1>1, <1>4, <2>1 DEF CleanFileOpen
<1> QED
  BY <1>5, <1>6

(* The flock of lock.c:225 has no LOCK_NB and no timeout, but it delays    *)
(* only runs that claimed inside another run's window: one that claimed    *)
(* under a quiet name finds its file free, for every number of runs killed *)
(* anywhere, with commands that outlive them and write failures.           *)
THEOREM CleanClaimsNeverBlock == OneMachine => (AuditSpec => []CleanFlockFree)
<1> SUFFICES ASSUME OneMachine PROVE AuditSpec => []CleanFlockFree
  OBVIOUS
<1>1. AuditInit => FlockInv
  BY AuditInvInductive DEF AuditInit, Init, FlockInv, Numbered, InUse, CleanFilePrivate,
     CleanFileOpen
<1>2. FlockInv /\ [AuditNext]_auditVars => FlockInv'
  <2> SUFFICES ASSUME FlockInv, [AuditNext]_auditVars PROVE FlockInv'
    OBVIOUS
  <2>1. AuditInv'
    BY AuditInvInductive DEF FlockInv
  <2>2. CASE UNCHANGED vars /\ UNCHANGED clean
    BY <2>1, <2>2 DEF vars, FlockInv, Numbered, InUse, CleanFilePrivate, CleanFileOpen, NewFile
  <2>3. CASE CleanUpdate /\ Finished
    <3>1. clean' = clean
      BY <2>3 DEF CleanUpdate, Finished, vars, FlockInv, AuditInv, CleanType
    <3> QED
      BY <2>2, <2>3, <3>1 DEF Finished
  <2>4. CASE CleanUpdate /\ \E p \in Run : Step(p) \/ Outside(p)
    <3>1. PICK p \in Run : Step(p) \/ Outside(p)
      BY <2>4
    <3>2. Numbered'
      BY <3>1, NumberedStep DEF FlockInv, AuditInv, TypeInv
    <3>3. CleanFilePrivate' /\ CleanFileOpen'
      BY <2>1, <2>4, <3>1, CleanFilePrivateStep, CleanFileOpenStep
    <3> QED
      BY <2>1, <3>2, <3>3 DEF FlockInv
  <2> QED
    BY <2>2, <2>3, <2>4 DEF AuditNext, Next, CleanUpdate, auditVars
<1>3. FlockInv => CleanFlockFree
  <2> SUFFICES ASSUME FlockInv, NEW p \in Run, clean[p], pc[p] = "flock",
                      NEW q \in Run \ {p}, lock_fd[q] = lock_fd[p]
               PROVE  FALSE
    BY DEF CleanFlockFree
  <2> QED
    BY DEF FlockInv, CleanFilePrivate, CleanFileOpen, Claimed
<1> QED
  BY <1>1, <1>2, <1>3, PTL DEF AuditSpec
=============================================================================
