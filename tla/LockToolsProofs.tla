--------------------------- MODULE LockToolsProofs ---------------------------
(***************************************************************************)
(* Theorems about LockTools: what --check, --done and --list promise, for  *)
(* every number of runs, tools, descriptors and slots, with runs killed    *)
(* anywhere and files removed under their names.                           *)
(***************************************************************************)
EXTENDS LockTools, WaitLockProofs, FiniteSetTheorems

-----------------------------------------------------------------------------
(* Which entries the tools take *)

LEMMA DotShape ==
    ASSUME NEW d \in Desc
    PROVE  /\ Len(d) \in Nat
           /\ Len(d \o <<".">>) = Len(d) + 1
           /\ \A i \in 1 .. Len(d) : (d \o <<".">>)[i] = d[i]
           /\ (d \o <<".">>)[Len(d) + 1] = "."
           /\ \E S : d \o <<".">> \in Seq(S)
<1> DEFINE S == STRING \cup {"."}
           dot == <<".">>
<1>1. d \in Seq(STRING)
  BY DescAssumption
<1>2. d \in Seq(S)
  BY <1>1, SeqMonotonic
<1>3. dot \in Seq(S) /\ Len(dot) = 1 /\ dot[1] = "."
  OBVIOUS
<1> HIDE DEF S, dot
<1>4. Len(d) \in Nat
  BY <1>1, LenProperties
<1>5. /\ d \o dot \in Seq(S)
      /\ Len(d \o dot) = Len(d) + 1
      /\ \A i \in 1 .. Len(d) + 1 : (d \o dot)[i] = IF i <= Len(d) THEN d[i] ELSE dot[i - Len(d)]
  BY <1>2, <1>3, ConcatProperties
<1>6. \E T : d \o dot \in Seq(T)
  BY <1>5
<1> QED
  BY <1>3, <1>4, <1>5, <1>6 DEF dot

(* A file of the descriptor is among the entries --done looks at, whatever *)
(* the descriptor (lock.c:709-711).                                        *)
LEMMA DoneFindsOwn ==
    ASSUME NEW x \in Path
    PROVE  x \in DoneMatches(x.desc)
<1>1. x.desc \in Desc
  BY DEF Path
<1> DEFINE a == x.desc \o <<".">>
           b == EntryName(x)
           n == Len(x.desc)
<1>2. /\ n \in Nat /\ Len(a) = n + 1 /\ Len(b) = n + 5
      /\ \A i \in 1 .. n + 1 : a[i] = b[i]
  BY <1>1, DotShape, EntryNameShape
<1>3. /\ \E S : a \in Seq(S)
      /\ \E S : b \in Seq(S)
  BY <1>1, DotShape, EntryNameShape
<1> HIDE DEF a, b, n
<1>4. SubSeq(a, 1, n + 1) = SubSeq(b, 1, n + 1)
  BY <1>2, <1>3
<1>5. IsPrefix(a, b)
  BY <1>2, <1>4 DEF IsPrefix
<1> QED
  BY <1>5 DEF DoneMatches, a, b

(* The entries of a descriptor without a dot are found by --check, however *)
(* many dots other descriptors have (lock.c:416-418).                      *)
LEMMA CheckFindsOwn ==
    ASSUME NEW x \in Path, Undotted(x.desc)
    PROVE  x \in CheckMatches(x.desc)
<1>1. x.desc \in Desc
  BY DEF Path
<1> DEFINE b == EntryName(x)
           n == Len(x.desc)
<1>2. /\ n \in Nat /\ Len(b) = n + 5 /\ b[n + 1] = "."
      /\ \A i \in 1 .. n : b[i] = x.desc[i] /\ b[i] # "."
  BY <1>1, DotShape, EntryNameShape DEF Undotted
<1>3. /\ \E S : b \in Seq(S)
      /\ x.desc \in Seq(STRING)
  BY EntryNameShape
<1>4. SubSeq(b, 1, n) = x.desc
  <2> HIDE DEF b
  <2>1. PICK S : b \in Seq(S)
    BY <1>3
  <2>2. SubSeq(b, 1, n) \in Seq(S) /\ Len(SubSeq(b, 1, n)) = n
        /\ \A i \in 1 .. n : SubSeq(b, 1, n)[i] = x.desc[i]
    BY <1>2, <1>3, <2>1
  <2>3. /\ SubSeq(b, 1, n) \in Seq(S \cup STRING)
        /\ x.desc \in Seq(S \cup STRING)
    BY <1>3, <2>2, SeqMonotonic
  <2> QED
    BY <2>2, <2>3, SeqEqual
<1>5. /\ n + 1 \in 1 .. Len(b)
      /\ b[n + 1] = "."
      /\ \A j \in 1 .. (n + 1) - 1 : b[j] # "."
      /\ SubSeq(b, 1, (n + 1) - 1) = x.desc
  BY <1>2, <1>4
<1> QED
  BY <1>5 DEF CheckMatches

-----------------------------------------------------------------------------
(* The runs, under the hands of the tools *)

(* A record is complete once its run is past the write. *)
HolderHasWritten ==
    \A r \in Run : pc[r] \in {"open", "flock", "held"} => NewFile(r) \in written

(* Files and records are of runs that were born, under their descriptor. *)
FilesFit ==
    \A f \in files \cup written :
        pc[f.owner] # "unborn" /\ f.path.desc = opts[f.owner].desc

RunsInv == TypeInv /\ UniqueNames /\ OwnDescriptor /\ HolderHasWritten /\ FilesFit

(* How one process, and the directory, may be moved by anybody. *)
RunMoves(p) == Step(p) \/ Outside(p) \/ (pc[p] \in Live /\ Die(p))

LEMMA DieType ==
    ASSUME TypeInv, NEW p \in Run, pc[p] \in Live, Die(p)
    PROVE  TypeInv'
BY DEF TypeInv, TypeOK, UndoCounted, Die, Goto, dirVars, scanVars, fdVars, Label, Live,
   Acquiring, Claimed

LEMMA RunMovesOne ==
    ASSUME TypeOK, NEW p \in Run, RunMoves(p)
    PROVE  /\ opts' = opts
           /\ \A q \in Run \ {p} : pc'[q] = pc[q] /\ at'[q] = at[q] /\ gen'[q] = gen[q]
<1> USE DEF TypeOK, Goto, dirVars, scanVars, fdVars
<1>1. CASE Step(p) \/ Outside(p)
  <2>1. opts' = opts
    BY <1>1 DEF Step, Outside, GiveUp, BeginScan, Visit, CountLive, Condemn, Reap, Busy,
       AwaitSlot, BeginClaim, Create, SlotTaken, Write, Undo, Open, Flock, Sleep,
       ReleaseClose, ReleaseUnlink, Start, WriteFails, CommandEnds, Expire, Killed, Die,
       OrphanEnds, ParentWaits
  <2> QED
    BY <1>1, <2>1, OthersUnmoved
<1>2. CASE Die(p)
  BY <1>2 DEF Die
<1> QED
  BY <1>1, <1>2 DEF RunMoves

(* Nobody who ended or was never born comes to a lock; a holder stays with *)
(* the path and the file it has.                                           *)
LEMMA RunMovesOn ==
    ASSUME TypeOK, NEW p \in Run, RunMoves(p)
    PROVE  /\ pc'[p] # "unborn"
           /\ pc[p] = "ended" => pc'[p] = "ended"
           /\ pc'[p] \in {"open", "flock", "held"} =>
                 /\ at'[p] = at[p] /\ gen'[p] = gen[p]
                 /\ \/ pc[p] \in {"open", "flock", "held"}
                    \/ pc[p] = "write" /\ written' = written \cup {NewFile(p)}
           /\ \/ written' = written
              \/ written' = written \cup {NewFile(p)} /\ pc[p] = "write"
           /\ \/ files' \subseteq files
              \/ files' = files \cup {NewFile(p)} /\ pc[p] = "claim"
<1> USE DEF TypeOK, Goto, Return, dirVars, scanVars, fdVars
<1>1. CASE Step(p)
  <2>1. CASE \/ GiveUp(p) \/ BeginScan(p) \/ Visit(p) \/ CountLive(p) \/ Condemn(p)
             \/ Reap(p) \/ Busy(p) \/ AwaitSlot(p) \/ BeginClaim(p)
    BY <2>1 DEF GiveUp, BeginScan, Visit, CountLive, Condemn, Reap, Busy, AwaitSlot,
       BeginClaim, ScanDone, Unlink
  <2>2. CASE SlotTaken(p) \/ Undo(p) \/ Sleep(p)
    BY <2>2 DEF SlotTaken, Undo, NextSlot, Sleep, Unlink
  <2>3. CASE Create(p) \/ Write(p) \/ Open(p) \/ Flock(p)
    BY <2>3 DEF Create, Write, Open, Flock
  <2>4. CASE ReleaseClose(p) \/ ReleaseUnlink(p)
    BY <2>4 DEF ReleaseClose, ReleaseUnlink, Unlink
  <2> QED
    BY <1>1, <2>1, <2>2, <2>3, <2>4 DEF Step
<1>2. CASE Outside(p) /\ ~ Killed(p)
  BY <1>2 DEF Outside, Start, WriteFails, CommandEnds, Expire, OrphanEnds, ParentWaits,
     Acquiring
<1>3. CASE Die(p) /\ pc[p] \in Live
  BY <1>3 DEF Die, Live, Acquiring, Claimed
<1>4. Killed(p) => Die(p) /\ pc[p] \in Live
  BY KillPointsAssumption DEF Killed
<1> QED
  BY <1>1, <1>2, <1>3, <1>4 DEF RunMoves

LEMMA RunsInvMoves ==
    ASSUME RunsInv, NEW p \in Run, RunMoves(p)
    PROVE  RunsInv'
<1>1. TypeOK /\ TypeInv /\ UniqueNames /\ OwnDescriptor /\ HolderHasWritten /\ FilesFit
  BY DEF RunsInv, TypeInv
<1>2. TypeInv' /\ UniqueNames' /\ OwnDescriptor'
  <2>1. CASE Step(p) \/ Outside(p)
    <3>1. TypeInv'
      BY <1>1, <2>1, TypeInvInductive DEF Next
    <3> QED
      BY <1>1, <2>1, <3>1, UniqueNamesStep, OwnDescriptorStep
  <2>2. CASE Die(p) /\ pc[p] \in Live
    <3>1. TypeInv'
      BY <1>1, <2>2, DieType
    <3>2. UniqueNames'
      BY <1>1, <2>2 DEF Die, dirVars, UniqueNames
    <3>3. OwnDescriptor'
      BY <1>1, <2>2 DEF Die, Goto, TypeOK, OwnDescriptor, Claimed
    <3> QED
      BY <3>1, <3>2, <3>3
  <2> QED
    BY <2>1, <2>2 DEF RunMoves
<1>3. HolderHasWritten'
  <2> SUFFICES ASSUME NEW r \in Run, pc'[r] \in {"open", "flock", "held"}
               PROVE  NewFile(r)' \in written'
    BY DEF HolderHasWritten
  <2>1. at'[r] = at[r] /\ gen'[r] = gen[r]
    BY <1>1, RunMovesOne, RunMovesOn
  <2>2. NewFile(r)' = NewFile(r)
    BY <2>1 DEF NewFile
  <2>3. NewFile(r) \in written'
    BY <1>1, RunMovesOne, RunMovesOn DEF HolderHasWritten
  <2> QED
    BY <2>2, <2>3
<1>4. FilesFit'
  <2> SUFFICES ASSUME NEW f \in files' \cup written'
               PROVE  pc'[f.owner] # "unborn" /\ f.path.desc = opts'[f.owner].desc
    BY DEF FilesFit
  <2>1. f \in files \cup written \/ (f = NewFile(p) /\ pc[p] \in {"claim", "write"})
    BY <1>1, RunMovesOn
  <2>2. CASE f \in files \cup written
    <3>1. f.owner \in Run
      BY <1>1, <2>2 DEF TypeOK, File
    <3> QED
      BY <1>1, <2>2, <3>1, RunMovesOne, RunMovesOn DEF FilesFit
  <2>3. CASE f = NewFile(p) /\ pc[p] \in {"claim", "write"}
    <3>1. f.owner = p /\ f.path = at[p] /\ at[p].desc = opts[p].desc
      BY <1>1, <2>3 DEF NewFile, OwnDescriptor, Claimed
    <3> QED
      BY <1>1, <3>1, RunMovesOne, RunMovesOn
  <2> QED
    BY <2>1, <2>2, <2>3
<1> QED
  BY <1>2, <1>3, <1>4 DEF RunsInv

(* Removing an entry disturbs none of this. *)
LEMMA RunsInvRemove ==
    ASSUME RunsInv, files' \subseteq files,
           UNCHANGED <<written, opts, pc, scanVars, at, gen, fdVars, expired, ret>>
    PROVE  RunsInv'
BY DEF RunsInv, TypeInv, TypeOK, UndoCounted, UniqueNames, OwnDescriptor,
   HolderHasWritten, FilesFit, NewFile, scanVars, fdVars

-----------------------------------------------------------------------------
(* The tools: types *)

ToolRecord ==
    [pc : ToolLabel, todo : SUBSET Path, at : Path, seen : SUBSET Run,
     active_locks : Nat, max_holders : 1 .. MaxHolders,
     found_locks : Nat, released_locks : Nat, ret : ToolResult]

ToolTypes ==
    /\ cmd \in [Tool -> ToolOptions]
    /\ tool \in [Tool -> ToolRecord]
    /\ steady \in [Tool -> SUBSET Run]
    /\ hit \in [Tool -> SUBSET Run]
    /\ shown \in [Tool -> SUBSET (Run \X {"active", "stale"})]

(* Only --done goes to kill, and it has found more records than it has     *)
(* released as long as it is busy with one; a command that is through has  *)
(* seen every entry.                                                       *)
ToolShape ==
    \A t \in Tool :
        /\ tool[t].released_locks <= tool[t].found_locks
        /\ tool[t].pc \in {"kill", "recheck"} => cmd[t].kind = "done"
        /\ cmd[t].kind = "done" /\ tool[t].pc \in {"exists", "kill", "recheck"}
              => tool[t].released_locks < tool[t].found_locks
        /\ tool[t].pc = "done" => tool[t].todo = {}

(* What a record says was written by a run that was born, to a file under  *)
(* a name the command looks for.                                           *)
SeenFits ==
    \A t \in Tool :
        /\ \A x \in tool[t].todo : x \in Matches(t)
        /\ tool[t].pc \in {"binary", "text"} => tool[t].at \in Matches(t)
        /\ tool[t].pc \in {"exists", "kill", "recheck"} =>
              \E f \in written : /\ tool[t].seen = {f.owner}
                                 /\ pc[f.owner] # "unborn"
                                 /\ f.path \in Matches(t)

ToolsInv == RunsInv /\ ToolTypes /\ ToolShape /\ SeenFits

(* A step is that of a run, with the tools as they are, or of one tool.    *)
ToolActs(t) == ToolStart(t) \/ ToolStep(t)

LEMMA MatchesType == ASSUME ToolTypes, NEW t \in Tool PROVE Matches(t) \subseteq Path
<1>1. cmd[t].kind \in {"check", "done", "list"}
  BY ToolOptionsAssumption DEF ToolTypes
<1> QED
  BY <1>1 DEF Matches, CheckMatches, DoneMatches

LEMMA ToolActsAlone ==
    ASSUME ToolTypes, NEW t \in Tool, ToolActs(t)
    PROVE  /\ cmd' = cmd
           /\ \A u \in Tool \ {t} : /\ tool'[u] = tool[u]
                                    /\ hit'[u] = hit[u] /\ shown'[u] = shown[u]
BY DEF ToolTypes, ToolActs, ToolStart, ToolStep, ReadEntry, ReadBinary, ReadText, RemoveEntry,
   CheckExists, CheckEnd, DoneExists, Kill, KillFails, DoneRecheck, DoneEnd, ListExists,
   ListEnd

(* The runs under a step of the commands: nothing, an unlink or a death.   *)
LEMMA RunsUnderTools ==
    ASSUME RunsInv, NEW t \in Tool, ToolActs(t)
    PROVE  /\ RunsInv' /\ opts' = opts /\ written \subseteq written'
           /\ \A q \in Run : /\ pc[q] # "unborn" => pc'[q] # "unborn"
                             /\ pc[q] = "ended" => pc'[q] = "ended"
           /\ \A q \in Run : pc'[q] = "held" => at'[q] = at[q] /\ gen'[q] = gen[q]
<1>0. RunsInv /\ TypeOK
  BY DEF RunsInv, TypeInv
<1>1. CASE UNCHANGED vars
  <2>1. RunsInv'
    BY <1>0, <1>1 DEF vars, RunsInv, TypeInv, TypeOK, UndoCounted, UniqueNames,
       OwnDescriptor, HolderHasWritten, FilesFit, NewFile
  <2> QED
    BY <1>1, <2>1 DEF vars
<1>2. CASE RemoveEntry(t)
  <2>1. files' \subseteq files
    BY <1>2 DEF RemoveEntry, Unlink
  <2>2. UNCHANGED <<written, opts, pc, scanVars, at, gen, fdVars, expired, ret>>
    BY <1>2 DEF RemoveEntry
  <2> QED
    BY <1>0, <2>1, <2>2, RunsInvRemove
<1>3. CASE Kill(t)
  <2>1. PICK r \in Run : Terminate(r)
    BY <1>3 DEF Kill, Named
  <2>2. UNCHANGED vars \/ RunMoves(r)
    BY <2>1 DEF Terminate, RunMoves, Outside
  <2>3. CASE RunMoves(r)
    BY <1>0, <2>3, RunsInvMoves, RunMovesOne, RunMovesOn
  <2> QED
    BY <1>1, <2>2, <2>3
<1>4. UNCHANGED vars \/ RemoveEntry(t) \/ Kill(t)
  BY DEF ToolActs, ToolStart, ToolStep, ReadEntry, ReadBinary, ReadText,
     CheckExists, CheckEnd, DoneExists, KillFails, DoneRecheck, DoneEnd, ListExists, ListEnd
<1> QED
  BY <1>1, <1>2, <1>3, <1>4

LEMMA RunsUnderRuns ==
    ASSUME RunsInv, Next
    PROVE  /\ RunsInv' /\ opts' = opts /\ written \subseteq written'
           /\ \A q \in Run : /\ pc[q] # "unborn" => pc'[q] # "unborn"
                             /\ pc[q] = "ended" => pc'[q] = "ended"
           /\ \A q \in Run : pc'[q] = "held" => at'[q] = at[q] /\ gen'[q] = gen[q]
<1>0. TypeOK
  BY DEF RunsInv, TypeInv
<1>1. CASE Finished
  BY <1>0, <1>1 DEF Finished, vars, RunsInv, TypeInv, TypeOK, UndoCounted, UniqueNames,
     OwnDescriptor, HolderHasWritten, FilesFit, NewFile
<1>2. CASE \E p \in Run : Step(p) \/ Outside(p)
  <2>1. PICK p \in Run : RunMoves(p)
    BY <1>2 DEF RunMoves
  <2> QED
    BY <1>0, <2>1, RunsInvMoves, RunMovesOne, RunMovesOn
<1> QED
  BY <1>1, <1>2 DEF Next

(* What a command wrote down about the runs names runs. *)
LEMMA HistoryTypes ==
    ASSUME ToolsInv, NEW t \in Tool, ToolActs(t)
    PROVE  /\ steady' \in [Tool -> SUBSET Run]
           /\ hit' \in [Tool -> SUBSET Run]
           /\ shown' \in [Tool -> SUBSET (Run \X {"active", "stale"})]
<1>1. /\ steady \in [Tool -> SUBSET Run] /\ hit \in [Tool -> SUBSET Run]
      /\ shown \in [Tool -> SUBSET (Run \X {"active", "stale"})]
      /\ tool[t].seen \subseteq Run
  BY DEF ToolsInv, ToolTypes, ToolRecord
<1>2. steady' \in [Tool -> SUBSET Run]
  <2>1. SoughtBy(t) \subseteq Run
    BY DEF SoughtBy
  <2>2. CASE ToolStart(t)
    BY <1>1, <2>1, <2>2 DEF ToolStart
  <2>3. CASE StillSteady
    BY <1>1, <2>3 DEF StillSteady
  <2>4. ToolStart(t) \/ StillSteady \/ steady' = steady
    BY DEF ToolActs, ToolStep, ReadEntry, ReadBinary, ReadText, RemoveEntry, CheckExists,
       CheckEnd, DoneExists, Kill, KillFails, DoneRecheck, DoneEnd, ListExists, ListEnd
  <2> QED
    BY <1>1, <2>2, <2>3, <2>4
<1>3. hit' \in [Tool -> SUBSET Run]
  <2>1. CASE Kill(t)
    <3>1. PICK r \in Run : hit' = [hit EXCEPT ![t] = @ \cup {r}]
      BY <2>1 DEF Kill, Named
    <3> QED
      BY <1>1, <3>1
  <2>2. Kill(t) \/ hit' = hit
    BY DEF ToolActs, ToolStart, ToolStep, ReadEntry, ReadBinary, ReadText, RemoveEntry,
       CheckExists, CheckEnd, DoneExists, KillFails, DoneRecheck, DoneEnd, ListExists, ListEnd
  <2> QED
    BY <1>1, <2>1, <2>2
<1>4. shown' \in [Tool -> SUBSET (Run \X {"active", "stale"})]
  <2>1. CASE ListExists(t)
    <3>1. PICK c \in {"stale", "active"} :
            shown' = [shown EXCEPT ![t] = @ \cup tool[t].seen \X {c}] \/ shown' = shown
      BY <1>1, <2>1, Zenon DEF ListExists
    <3>2. tool[t].seen \X {c} \subseteq Run \X {"active", "stale"}
      BY <1>1
    <3> QED
      BY <1>1, <3>1, <3>2
  <2>2. ListExists(t) \/ shown' = shown
    BY DEF ToolActs, ToolStart, ToolStep, ReadEntry, ReadBinary, ReadText, RemoveEntry,
       CheckExists, CheckEnd, DoneExists, Kill, KillFails, DoneRecheck, DoneEnd, ListEnd
  <2> QED
    BY <1>1, <2>1, <2>2
<1> QED
  BY <1>2, <1>3, <1>4

LEMMA ToolTypesStep ==
    ASSUME ToolsInv, NEW t \in Tool, ToolActs(t)
    PROVE  ToolTypes'
<1> USE DEF ToolRecord, ToolLabel, ToolResult
<1>0. /\ TypeOK /\ ToolTypes /\ cmd' = cmd
      /\ tool \in [Tool -> ToolRecord] /\ tool[t] \in ToolRecord /\ cmd \in [Tool -> ToolOptions]
  BY ToolActsAlone DEF ToolsInv, RunsInv, TypeInv, ToolTypes
<1> SUFFICES tool' \in [Tool -> ToolRecord]
  BY <1>0, HistoryTypes DEF ToolTypes
<1>1. CASE ToolStart(t)
  <2>1. Matches(t) \subseteq Path
    BY <1>0, MatchesType
  <2> QED
    BY <1>0, <1>1, <2>1 DEF ToolStart
<1>2. CASE ReadEntry(t)
  <2>1. PICK x \in tool[t].todo, l \in {"scan", "binary"} :
         tool' = [tool EXCEPT ![t].todo = @ \ {x}, ![t].at = x, ![t].pc = l]
    BY <1>2 DEF ReadEntry
  <2>2. x \in Path /\ tool[t].todo \ {x} \in SUBSET Path
    BY <1>0
  <2> QED
    BY <1>0, <2>1, <2>2
<1>3. CASE ReadBinary(t)
  <2>1. \A f \in files : f.owner \in Run
    BY <1>0 DEF TypeOK, File
  <2>2. CASE tool' = [tool EXCEPT ![t].pc = "text"]
    BY <1>0, <2>2
  <2>3. CASE \E f \in ValidAt(files, written, tool[t].at) :
            tool' = [tool EXCEPT ![t].pc = "exists", ![t].seen = {f.owner},
                                 ![t].found_locks = IF cmd[t].kind = "done" THEN @ + 1 ELSE @]
    <3>1. PICK q \in Run :
            tool' = [tool EXCEPT ![t].pc = "exists", ![t].seen = {q},
                                 ![t].found_locks = IF cmd[t].kind = "done" THEN @ + 1 ELSE @]
      BY <2>1, <2>3 DEF ValidAt, FilesAt
    <3> DEFINE n == IF cmd[t].kind = "done" THEN tool[t].found_locks + 1
                    ELSE tool[t].found_locks
    <3>2. n \in Nat
      BY <1>0
    <3>3. tool' = [tool EXCEPT ![t].pc = "exists", ![t].seen = {q}, ![t].found_locks = n]
      BY <1>0, <3>1
    <3> HIDE DEF n
    <3> QED
      BY <1>0, <3>2, <3>3
  <2> QED
    BY <1>3, <2>2, <2>3 DEF ReadBinary
<1>4. CASE ReadText(t)
  BY <1>0, <1>4 DEF ReadText
<1>5. CASE RemoveEntry(t)
  BY <1>0, <1>5 DEF RemoveEntry
<1>6. CASE CheckExists(t)
  <2>1. \A q \in tool[t].seen : opts[q].max \in 1 .. MaxHolders
    BY <1>0, OptionsAssumption DEF TypeOK
  <2>2. CASE tool' = [tool EXCEPT ![t].pc = "scan", ![t].seen = {}]
    BY <1>0, <2>2
  <2>3. CASE \E q \in tool[t].seen :
               tool' = [tool EXCEPT ![t].pc = "scan", ![t].seen = {},
                                    ![t].active_locks = @ + 1,
                                    ![t].max_holders = opts[q].max]
    <3>1. PICK m \in 1 .. MaxHolders :
               tool' = [tool EXCEPT ![t].pc = "scan", ![t].seen = {},
                                    ![t].active_locks = @ + 1, ![t].max_holders = m]
      BY <2>1, <2>3
    <3> DEFINE n == tool[t].active_locks + 1
    <3>2. n \in Nat
      BY <1>0
    <3>3. tool' = [tool EXCEPT ![t].pc = "scan", ![t].seen = {},
                               ![t].active_locks = n, ![t].max_holders = m]
      BY <1>0, <3>1
    <3> HIDE DEF n
    <3> QED
      BY <1>0, <3>2, <3>3
  <2> QED
    BY <1>6, <2>2, <2>3 DEF CheckExists
<1>7. CASE CheckEnd(t)
  BY <1>0, <1>7 DEF CheckEnd
<1>8. CASE DoneExists(t)
  BY <1>0, <1>8 DEF DoneExists
<1>9. CASE Kill(t)
  BY <1>0, <1>9 DEF Kill
<1>10. CASE KillFails(t)
  BY <1>0, <1>10 DEF KillFails
<1>11. CASE DoneRecheck(t)
  BY <1>0, <1>11 DEF DoneRecheck
<1>12. CASE DoneEnd(t)
  <2> DEFINE r == CASE tool[t].found_locks = 0 -> "NOTFOUND"
                    [] tool[t].released_locks = 0 -> "SYSTEM"
                    [] OTHER -> "SUCCESS"
  <2>1. r \in ToolResult
    OBVIOUS
  <2>2. tool' = [tool EXCEPT ![t].pc = "done", ![t].ret = r]
    BY <1>12, Zenon DEF DoneEnd
  <2> HIDE DEF r
  <2> QED
    BY <1>0, <2>1, <2>2
<1>13. CASE ListExists(t)
  BY <1>0, <1>13 DEF ListExists
<1>14. CASE ListEnd(t)
  BY <1>0, <1>14 DEF ListEnd
<1> QED
  BY <1>1, <1>2, <1>3, <1>4, <1>5, <1>6, <1>7, <1>8, <1>9, <1>10, <1>11, <1>12, <1>13, <1>14
     DEF ToolActs, ToolStep

(* What a step does to the variables of the command, field by field. *)
SameCounts(t) ==
    /\ tool'[t].active_locks = tool[t].active_locks
    /\ tool'[t].max_holders = tool[t].max_holders
    /\ tool'[t].released_locks = tool[t].released_locks
    /\ tool'[t].ret = tool[t].ret

LEMMA EntryFields ==
    ASSUME ToolTypes, NEW t \in Tool
    PROVE  /\ ToolStart(t) =>
                /\ SameCounts(t) /\ tool'[t].found_locks = tool[t].found_locks
                /\ tool'[t].pc = "scan" /\ tool'[t].todo = Matches(t)
           /\ ReadEntry(t) =>
                /\ SameCounts(t) /\ tool'[t].found_locks = tool[t].found_locks
                /\ \E x \in tool[t].todo :
                     /\ tool'[t].todo = tool[t].todo \ {x} /\ tool'[t].at = x
                     /\ IF FilesAt(files, x) = {} THEN tool'[t].pc = "scan"
                                                 ELSE tool'[t].pc = "binary"
           /\ ReadBinary(t) =>
                /\ SameCounts(t) /\ tool'[t].todo = tool[t].todo /\ tool'[t].at = tool[t].at
                /\ \/ /\ ValidAt(files, written, tool[t].at) = {} /\ tool'[t].pc = "text"
                      /\ tool'[t].found_locks = tool[t].found_locks
                   \/ /\ tool'[t].pc = "exists"
                      /\ \E f \in files \cap written :
                            f.path = tool[t].at /\ tool'[t].seen = {f.owner}
                      /\ tool'[t].found_locks = IF cmd[t].kind = "done"
                                               THEN tool[t].found_locks + 1
                                               ELSE tool[t].found_locks
<1> USE DEF ToolTypes, ToolRecord, SameCounts
<1>1. CASE ToolStart(t)
  <2>1. tool[t].pc # "binary" /\ tool[t].pc # "scan"
    BY <1>1 DEF ToolStart
  <2>2. ~ ReadEntry(t) /\ ~ ReadBinary(t)
    BY <2>1 DEF ReadEntry, ReadBinary
  <2>3. tool' = [tool EXCEPT ![t].pc = "scan", ![t].todo = Matches(t)]
    BY <1>1 DEF ToolStart
  <2> QED
    BY <2>2, <2>3
<1>2. CASE ReadEntry(t)
  <2>1. tool[t].pc = "scan"
    BY <1>2 DEF ReadEntry
  <2>2. ~ ToolStart(t) /\ ~ ReadBinary(t)
    BY <2>1 DEF ToolStart, ReadBinary
  <2>3. PICK x \in tool[t].todo :
         tool' = [tool EXCEPT ![t].todo = @ \ {x}, ![t].at = x,
                              ![t].pc = IF FilesAt(files, x) = {} THEN "scan" ELSE "binary"]
    BY <1>2 DEF ReadEntry
  <2>4. /\ tool'[t].todo = tool[t].todo \ {x} /\ tool'[t].at = x
        /\ SameCounts(t) /\ tool'[t].found_locks = tool[t].found_locks
    BY <2>3
  <2>5. IF FilesAt(files, x) = {} THEN tool'[t].pc = "scan" ELSE tool'[t].pc = "binary"
    BY <2>3
  <2> QED
    BY <2>2, <2>4, <2>5
<1>3. CASE ReadBinary(t)
  <2>1. tool[t].pc = "binary"
    BY <1>3 DEF ReadBinary
  <2>2. ~ ToolStart(t) /\ ~ ReadEntry(t)
    BY <2>1 DEF ToolStart, ReadEntry
  <2>3. CASE /\ ValidAt(files, written, tool[t].at) = {}
             /\ tool' = [tool EXCEPT ![t].pc = "text"]
    BY <2>2, <2>3
  <2>4. CASE \E f \in ValidAt(files, written, tool[t].at) :
            tool' = [tool EXCEPT ![t].pc = "exists", ![t].seen = {f.owner},
                                 ![t].found_locks = IF cmd[t].kind = "done" THEN @ + 1 ELSE @]
    <3>1. PICK f \in files \cap written :
            /\ f.path = tool[t].at
            /\ tool' = [tool EXCEPT ![t].pc = "exists", ![t].seen = {f.owner},
                                 ![t].found_locks = IF cmd[t].kind = "done" THEN @ + 1 ELSE @]
      BY <2>4 DEF ValidAt, FilesAt
    <3>2. /\ tool'[t].pc = "exists" /\ tool'[t].seen = {f.owner}
          /\ SameCounts(t) /\ tool'[t].todo = tool[t].todo /\ tool'[t].at = tool[t].at
          /\ tool'[t].found_locks = IF cmd[t].kind = "done" THEN tool[t].found_locks + 1
                                                           ELSE tool[t].found_locks
      BY <3>1
    <3> QED
      BY <2>2, <3>1, <3>2
  <2> QED
    BY <1>3, <2>3, <2>4 DEF ReadBinary
<1> QED
  BY <1>1, <1>2, <1>3

LEMMA ToolShapeStep ==
    ASSUME ToolsInv, NEW t \in Tool, ToolActs(t)
    PROVE  ToolShape'
<1>0. /\ TypeOK /\ ToolTypes /\ ToolShape /\ cmd' = cmd
      /\ tool \in [Tool -> ToolRecord] /\ cmd[t].kind \in {"check", "done", "list"}
      /\ \A u \in Tool \ {t} : tool'[u] = tool[u]
  BY ToolActsAlone, ToolOptionsAssumption DEF ToolsInv, RunsInv, TypeInv, ToolTypes
<1> SUFFICES
      /\ tool'[t].released_locks <= tool'[t].found_locks
      /\ tool'[t].pc \in {"kill", "recheck"} => cmd[t].kind = "done"
      /\ cmd[t].kind = "done" /\ tool'[t].pc \in {"exists", "kill", "recheck"}
            => tool'[t].released_locks < tool'[t].found_locks
      /\ tool'[t].pc = "done" => tool'[t].todo = {}
  BY <1>0 DEF ToolShape
<1> USE DEF ToolRecord, ToolShape
<1>1. CASE ToolStart(t) \/ ReadEntry(t)
  BY <1>0, <1>1, EntryFields DEF ToolStart, ReadEntry, SameCounts
<1>3. CASE ReadBinary(t)
  <2>1. tool[t].released_locks \in Nat /\ tool[t].found_locks \in Nat
    BY <1>0
  <2>2. /\ tool'[t].pc \in {"text", "exists"}
        /\ tool'[t].released_locks = tool[t].released_locks
        /\ tool'[t].found_locks \in {tool[t].found_locks, tool[t].found_locks + 1}
        /\ cmd[t].kind = "done" /\ tool'[t].pc = "exists"
              => tool'[t].found_locks = tool[t].found_locks + 1
    BY <1>0, <1>3, EntryFields DEF SameCounts
  <2>3. tool[t].released_locks <= tool[t].found_locks
    BY <1>0
  <2> QED
    BY <2>1, <2>2, <2>3
<1>4. CASE ReadText(t) \/ RemoveEntry(t)
  BY <1>0, <1>4 DEF ReadText, RemoveEntry
<1>6. CASE CheckExists(t) \/ CheckEnd(t)
  BY <1>0, <1>6 DEF CheckExists, CheckEnd
<1>8. CASE DoneExists(t)
  BY <1>0, <1>8 DEF DoneExists
<1>9. CASE Kill(t) \/ KillFails(t)
  BY <1>0, <1>9 DEF Kill, KillFails
<1>11. CASE DoneRecheck(t) \/ DoneEnd(t)
  BY <1>0, <1>11 DEF DoneRecheck, DoneEnd
<1>13. CASE ListExists(t) \/ ListEnd(t)
  BY <1>0, <1>13 DEF ListExists, ListEnd
<1> QED
  BY <1>1, <1>3, <1>4, <1>6, <1>8, <1>9, <1>11, <1>13 DEF ToolActs, ToolStep

LEMMA SeenFitsStep ==
    ASSUME ToolsInv, NEW t \in Tool, ToolActs(t)
    PROVE  SeenFits'
<1>0. /\ TypeOK /\ ToolTypes /\ SeenFits /\ RunsInv /\ cmd' = cmd
      /\ tool \in [Tool -> ToolRecord]
      /\ \A u \in Tool \ {t} : tool'[u] = tool[u]
  BY ToolActsAlone DEF ToolsInv, RunsInv, TypeInv, ToolTypes
<1>1. /\ \A q \in Run : pc[q] # "unborn" => pc'[q] # "unborn"
      /\ written \subseteq written' /\ \A f \in written : f.owner \in Run
      /\ \A u \in Tool : Matches(u)' = Matches(u)
  BY <1>0, RunsUnderTools DEF Matches, TypeOK, File
<1> SUFFICES
      /\ \A x \in tool'[t].todo : x \in Matches(t)
      /\ tool'[t].pc \in {"binary", "text"} => tool'[t].at \in Matches(t)
      /\ tool'[t].pc \in {"exists", "kill", "recheck"} =>
            \E f \in written : /\ tool'[t].seen = {f.owner}
                               /\ pc'[f.owner] # "unborn"
                               /\ f.path \in Matches(t)
  BY <1>0, <1>1 DEF SeenFits
<1> USE DEF ToolRecord
<1>2. \/ tool'[t].todo = Matches(t)
      \/ tool'[t].todo \subseteq tool[t].todo
  <2>1. CASE ToolStart(t) \/ ReadEntry(t) \/ ReadBinary(t)
    BY <1>0, <2>1, EntryFields
  <2>2. CASE ~ (ToolStart(t) \/ ReadEntry(t) \/ ReadBinary(t))
    BY <1>0, <2>2 DEF ToolActs, ToolStep, ReadText, RemoveEntry, CheckExists, CheckEnd,
       DoneExists, Kill, KillFails, DoneRecheck, DoneEnd, ListExists, ListEnd
  <2> QED
    BY <2>1, <2>2
<1>3. CASE ToolStart(t) \/ ReadEntry(t)
  <2>1. /\ tool'[t].pc \in {"scan", "binary"}
        /\ tool'[t].pc = "binary" => tool'[t].at \in tool[t].todo
    BY <1>0, <1>3, EntryFields
  <2> QED
    BY <1>0, <1>2, <2>1 DEF SeenFits
<1>4. CASE ReadBinary(t)
  <2>1. tool[t].at \in Matches(t)
    BY <1>0, <1>4 DEF ReadBinary, SeenFits
  <2>2. CASE tool'[t].pc = "text" /\ tool'[t].at = tool[t].at
    BY <1>0, <1>2, <2>1, <2>2 DEF SeenFits
  <2>3. CASE /\ tool'[t].pc = "exists"
             /\ \E f \in files \cap written :
                   f.path = tool[t].at /\ tool'[t].seen = {f.owner}
    <3>1. PICK f \in files \cap written : f.path = tool[t].at /\ tool'[t].seen = {f.owner}
      BY <2>3
    <3>2. f.owner \in Run /\ pc[f.owner] # "unborn"
      BY <1>0, <3>1 DEF TypeOK, File, RunsInv, FilesFit
    <3> QED
      BY <1>0, <1>1, <1>2, <2>1, <2>3, <3>1, <3>2 DEF SeenFits
  <2> QED
    BY <1>0, <1>4, <2>2, <2>3, EntryFields
<1>5. CASE ~ ToolStart(t) /\ ~ ReadEntry(t) /\ ~ ReadBinary(t)
  <2>1. /\ tool'[t].pc \notin {"binary", "text"}
        /\ tool'[t].pc \in {"exists", "kill", "recheck"} =>
              tool'[t].seen = tool[t].seen /\ tool[t].pc \in {"exists", "kill", "recheck"}
    BY <1>0, <1>5 DEF ToolActs, ToolStep, ReadText, RemoveEntry,
       CheckExists, CheckEnd, DoneExists, Kill, KillFails, DoneRecheck, DoneEnd, ListExists,
       ListEnd
  <2> QED
    BY <1>0, <1>1, <1>2, <1>5, <2>1 DEF SeenFits, ToolActs
<1> QED
  BY <1>3, <1>4, <1>5

LEMMA ToolsInvInductive ==
    /\ ToolsInit => ToolsInv
    /\ ToolsInv /\ [ToolsNext]_toolsVars => ToolsInv'
<1>1. ToolsInit => ToolsInv
  <2> SUFFICES ASSUME ToolsInit PROVE ToolsInv
    OBVIOUS
  <2>1. RunsInv
    BY TypeInvInductive DEF ToolsInit, Init, RunsInv, UniqueNames, OwnDescriptor,
       HolderHasWritten, FilesFit, Claimed
  <2>2. \A t \in Tool : (CHOOSE x \in Path : TRUE) \in Path
    <3> SUFFICES ASSUME NEW t \in Tool PROVE \E x \in Path : TRUE
      BY Zenon
    <3>1. cmd[t].desc \in Desc
      BY ToolOptionsAssumption DEF ToolsInit
    <3>2. [desc |-> cmd[t].desc, slot |-> 0] \in Path
      BY <3>1, MaxHoldersAssumption DEF Path
    <3> QED
      BY <3>2
  <2>3. ToolTypes
    <3>1. 1 \in 1 .. MaxHolders
      BY MaxHoldersAssumption
    <3> QED
      BY <2>2, <3>1 DEF ToolsInit, ToolTypes, ToolRecord, ToolLabel, ToolResult
  <2>4. ToolShape /\ SeenFits
    BY DEF ToolsInit, ToolShape, SeenFits
  <2> QED
    BY <2>1, <2>3, <2>4 DEF ToolsInv
<1>2. ASSUME ToolsInv, [ToolsNext]_toolsVars PROVE ToolsInv'
  <2>1. CASE UNCHANGED toolsVars
    <3>1. UNCHANGED vars /\ UNCHANGED <<cmd, tool, steady, hit, shown>>
      BY <2>1 DEF toolsVars, toolVars
    <3>2. RunsInv'
      BY <1>2, <3>1 DEF vars, ToolsInv, RunsInv, TypeInv, TypeOK, UndoCounted, UniqueNames,
         OwnDescriptor, HolderHasWritten, FilesFit, NewFile
    <3>3. ToolTypes' /\ ToolShape'
      BY <1>2, <3>1 DEF ToolsInv, ToolTypes, ToolShape
    <3>4. SeenFits'
      BY <1>2, <3>1 DEF vars, ToolsInv, SeenFits, Matches
    <3> QED
      BY <3>2, <3>3, <3>4 DEF ToolsInv
  <2>2. CASE RunStep
    <3>1. /\ RunsInv' /\ written \subseteq written' /\ \A f \in written : f.owner \in Run
          /\ \A q \in Run : pc[q] # "unborn" => pc'[q] # "unborn"
      BY <1>2, <2>2, RunsUnderRuns DEF ToolsInv, RunStep, RunsInv, TypeInv, TypeOK, File
    <3>2. UNCHANGED <<cmd, tool, hit, shown>> /\ StillSteady
      BY <2>2 DEF RunStep
    <3>3. ToolTypes'
      BY <1>2, <3>2 DEF ToolsInv, ToolTypes, StillSteady
    <3>4. ToolShape'
      BY <1>2, <3>2 DEF ToolsInv, ToolShape
    <3>5. SeenFits'
      BY <1>2, <3>1, <3>2 DEF ToolsInv, SeenFits, Matches
    <3> QED
      BY <3>1, <3>3, <3>4, <3>5 DEF ToolsInv
  <2>3. CASE \E t \in Tool : ToolActs(t)
    <3>1. PICK t \in Tool : ToolActs(t)
      BY <2>3
    <3> QED
      BY <1>2, <3>1, RunsUnderTools, ToolTypesStep, ToolShapeStep, SeenFitsStep DEF ToolsInv
  <2> QED
    BY <1>2, <2>1, <2>2, <2>3 DEF ToolsNext, ToolActs
<1> QED
  BY <1>1, <1>2

(* The variables of the commands and the runs keep their types, whatever   *)
(* the commands remove and whomever --done signals.                        *)
THEOREM ToolTypesKept == ToolsSpec => []ToolTypeOK
<1>1. ToolsInit => ToolsInv
  BY ToolsInvInductive
<1>2. ToolsInv /\ [ToolsNext]_toolsVars => ToolsInv'
  BY ToolsInvInductive
<1>3. ToolsInv => ToolTypeOK
  BY DEF ToolsInv, RunsInv, TypeInv, ToolTypes, ToolRecord, ToolShape, ToolTypeOK
<1> QED
  BY <1>1, <1>2, <1>3, PTL DEF ToolsSpec

-----------------------------------------------------------------------------
(* Whoever holds a lock all along is not passed over *)

(* A command that has read the entry of a steady holder has read that      *)
(* holder's record, and does not take it for garbage.                      *)
SteadyInv ==
    \A t \in Tool : \A r \in steady[t] :
        /\ Steadfast(r) /\ r \in SoughtBy(t) /\ tool[t].pc # "idle"
        /\ tool[t].pc \in {"text", "recheck", "unlink"} => tool[t].at # at[r]
        /\ tool[t].pc \in {"exists", "kill"} /\ tool[t].at = at[r] => tool[t].seen = {r}

(* The steady holders of a command stay where they are, and none is added  *)
(* after its start.                                                        *)
LEMMA SteadyStays ==
    ASSUME ToolsInv, SteadyInv, ToolsNext
    PROVE  /\ cmd' = cmd /\ opts' = opts
           /\ \A t \in Tool : SoughtBy(t)' = SoughtBy(t)
           /\ \A t \in Tool : \A r \in steady'[t] :
                /\ r \in Run /\ Steadfast(r)' /\ at'[r] = at[r]
                /\ r \in steady[t] \/ (ToolStart(t) /\ r \in SoughtBy(t) /\ Steadfast(r))
<1>1. /\ cmd' = cmd /\ opts' = opts
      /\ \A q \in Run : pc'[q] = "held" => at'[q] = at[q]
  <2>1. CASE RunStep
    BY <2>1, RunsUnderRuns DEF RunStep, ToolsInv
  <2>2. CASE \E t \in Tool : ToolActs(t)
    BY <2>2, RunsUnderTools, ToolActsAlone DEF ToolsInv
  <2> QED
    BY <2>1, <2>2 DEF ToolsNext, ToolActs
<1>2. steady \in [Tool -> SUBSET Run] /\ steady' \in [Tool -> SUBSET Run]
  BY ToolsInvInductive DEF ToolsInv, ToolTypes
<1>3. ASSUME NEW t \in Tool, NEW r \in steady'[t]
      PROVE  /\ Steadfast(r)'
             /\ r \in steady[t] \/ (ToolStart(t) /\ r \in SoughtBy(t) /\ Steadfast(r))
  <2>1. CASE StillSteady
    BY <1>2, <1>3, <2>1 DEF StillSteady
  <2>2. CASE UNCHANGED <<vars, steady>>
    BY <1>2, <1>3, <2>2 DEF SteadyInv, Steadfast, NewFile, vars
  <2>3. CASE \E u \in Tool : ToolStart(u)
    <3>1. PICK u \in Tool : ToolStart(u)
      BY <2>3
    <3>2. /\ UNCHANGED vars
          /\ steady' = [steady EXCEPT ![u] = {q \in SoughtBy(u) : Steadfast(q)}]
      BY <3>1 DEF ToolStart
    <3>3. \A q : Steadfast(q)' = Steadfast(q)
      BY <3>2 DEF vars, Steadfast, NewFile
    <3>4. CASE t = u
      BY <1>2, <1>3, <3>1, <3>2, <3>3, <3>4
    <3>5. CASE t # u
      BY <1>2, <1>3, <3>2, <3>3, <3>5 DEF SteadyInv
    <3> QED
      BY <3>4, <3>5
  <2>4. StillSteady \/ UNCHANGED <<vars, steady>> \/ \E u \in Tool : ToolStart(u)
    BY DEF ToolsNext, RunStep, ToolStep, ReadEntry, ReadBinary, ReadText, RemoveEntry,
       CheckExists, CheckEnd, DoneExists, Kill, KillFails, DoneRecheck, DoneEnd, ListExists,
       ListEnd
  <2> QED
    BY <2>1, <2>2, <2>3, <2>4
<1>4. \A t \in Tool : SoughtBy(t)' = SoughtBy(t)
  BY <1>1 DEF SoughtBy
<1>5. \A t \in Tool : \A r \in steady'[t] : r \in Run /\ pc'[r] = "held"
  BY <1>2, <1>3 DEF Steadfast
<1> QED
  BY <1>1, <1>3, <1>4, <1>5

LEMMA SteadyInvStep ==
    ASSUME ToolsInv, SteadyInv, ToolsNext
    PROVE  SteadyInv'
<1> SUFFICES ASSUME NEW t \in Tool, NEW r \in steady'[t]
             PROVE  /\ tool'[t].pc # "idle"
                    /\ tool'[t].pc \in {"text", "recheck", "unlink"} => tool'[t].at # at[r]
                    /\ tool'[t].pc \in {"exists", "kill"} /\ tool'[t].at = at[r]
                         => tool'[t].seen = {r}
  BY SteadyStays DEF SteadyInv
<1>1. /\ TypeOK /\ ToolTypes /\ RunsInv /\ tool \in [Tool -> ToolRecord] /\ r \in Run
  BY SteadyStays DEF ToolsInv, RunsInv, TypeInv, ToolTypes
<1>2. CASE ToolStart(t)
  BY <1>1, <1>2, EntryFields
<1>3. CASE ~ ToolStart(t)
  <2>1. /\ r \in steady[t] /\ Steadfast(r) /\ tool[t].pc # "idle"
        /\ tool[t].pc \in {"text", "recheck", "unlink"} => tool[t].at # at[r]
        /\ tool[t].pc \in {"exists", "kill"} /\ tool[t].at = at[r] => tool[t].seen = {r}
    BY <1>3, SteadyStays DEF SteadyInv
  <2>2. CASE tool'[t] = tool[t]
    BY <2>1, <2>2
  <2>3. tool[t].seen = {r} => Named(t) # {}
    BY <1>1, <2>1 DEF Named, Exists, Steadfast, Live, Claimed
  <2>4. CASE ReadEntry(t)
    BY <1>1, <2>4, EntryFields
  <2>5. CASE ReadBinary(t)
    <3>1. NewFile(r) \in files /\ NewFile(r).path = at[r] /\ NewFile(r).owner = r
      BY <2>1 DEF Steadfast, NewFile
    <3>2. tool[t].at = at[r] => ValidAt(files, written, tool[t].at) # {}
      BY <1>1, <2>1, <3>1 DEF ValidAt, FilesAt, RunsInv, HolderHasWritten, Steadfast
    <3>3. \A f \in files : f.path = at[r] => f.owner = r
      BY <1>1, <3>1 DEF RunsInv, UniqueNames
    <3> QED
      BY <1>1, <2>5, <3>2, <3>3, EntryFields
  <2>6. CASE ReadText(t) \/ RemoveEntry(t)
    BY <1>1, <2>1, <2>6 DEF ReadText, RemoveEntry, ToolRecord
  <2>7. CASE CheckExists(t) \/ CheckEnd(t) \/ ListExists(t) \/ ListEnd(t) \/ DoneEnd(t)
    <3>1. tool'[t].pc \in {"scan", "done"}
      BY <1>1, <2>7 DEF CheckExists, CheckEnd, ListExists, ListEnd, DoneEnd, ToolRecord
    <3> QED
      BY <3>1
  <2>8. CASE DoneExists(t)
    BY <1>1, <2>1, <2>3, <2>8 DEF DoneExists, ToolRecord
  <2>9. CASE Kill(t) \/ KillFails(t)
    BY <1>1, <2>1, <2>3, <2>9 DEF Kill, KillFails, ToolRecord
  <2>10. CASE DoneRecheck(t)
    BY <1>1, <2>1, <2>10 DEF DoneRecheck, ToolRecord
  <2>11. tool'[t] = tool[t] \/ ToolStep(t)
    BY <1>1, <1>3, ToolActsAlone DEF ToolsNext, RunStep, ToolActs
  <2> QED
    BY <2>2, <2>4, <2>5, <2>6, <2>7, <2>8, <2>9, <2>10, <2>11 DEF ToolStep
<1> QED
  BY <1>2, <1>3

LEMMA SteadyInvInductive ==
    /\ ToolsInit => SteadyInv
    /\ ToolsInv /\ SteadyInv /\ [ToolsNext]_toolsVars => SteadyInv'
<1>1. ToolsInit => SteadyInv
  BY DEF ToolsInit, SteadyInv
<1>2. ASSUME ToolsInv, SteadyInv, UNCHANGED toolsVars PROVE SteadyInv'
  BY <1>2 DEF toolsVars, toolVars, vars, SteadyInv, Steadfast, NewFile, SoughtBy
<1> QED
  BY <1>1, <1>2, SteadyInvStep

(* The entry of run r is behind command t, and so is its record. *)
Visited(t, r) ==
    /\ at[r] \notin tool[t].todo
    /\ ~ (tool[t].pc \in {"binary", "exists", "kill"} /\ tool[t].at = at[r])

(* The step that puts a steady holder behind a command is the one that     *)
(* counts it, lists it or signals a process of its number.                 *)
LEMMA VisitSteps ==
    ASSUME ToolsInv, SteadyInv, ToolsNext,
           NEW t \in Tool, NEW r \in steady'[t], Visited(t, r)', at[r] \in Matches(t)
    PROVE  /\ r \in steady[t]
           /\ \/ Visited(t, r)
              \/ /\ CheckExists(t) \/ ListExists(t) \/ Kill(t)
                 /\ tool[t].seen = {r} /\ Named(t) # {}
<1>1. /\ TypeOK /\ ToolTypes /\ RunsInv /\ tool \in [Tool -> ToolRecord] /\ r \in Run
      /\ at'[r] = at[r] /\ SteadyInv'
  BY SteadyStays, SteadyInvStep DEF ToolsInv, RunsInv, TypeInv, ToolTypes
<1>2. /\ at[r] \notin tool'[t].todo
      /\ ~ (tool'[t].pc \in {"binary", "exists", "kill"} /\ tool'[t].at = at[r])
      /\ tool'[t].pc \in {"text", "recheck", "unlink"} => tool'[t].at # at[r]
  BY <1>1 DEF Visited, SteadyInv
<1>3. ~ ToolStart(t)
  BY <1>1, <1>2, EntryFields
<1>4. /\ r \in steady[t] /\ Steadfast(r)
      /\ tool[t].pc \in {"exists", "kill"} /\ tool[t].at = at[r] => tool[t].seen = {r}
  BY <1>3, SteadyStays DEF SteadyInv
<1>5. tool[t].seen = {r} => Named(t) # {}
  BY <1>1, <1>4 DEF Named, Exists, Steadfast, Live, Claimed
<1> SUFFICES ASSUME ~ Visited(t, r)
             PROVE  /\ CheckExists(t) \/ ListExists(t) \/ Kill(t)
                    /\ tool[t].seen = {r}
  BY <1>4, <1>5
<1>6. at[r] \in tool[t].todo \/ (tool[t].pc \in {"binary", "exists", "kill"} /\ tool[t].at = at[r])
  BY DEF Visited
<1>7. CASE tool'[t] = tool[t]
  BY <1>2, <1>6, <1>7
<1>8. CASE ReadEntry(t)
  <2>1. FilesAt(files, at[r]) # {}
    BY <1>4 DEF Steadfast, FilesAt, NewFile
  <2>2. tool[t].pc = "scan"
    BY <1>8 DEF ReadEntry
  <2> QED
    BY <1>1, <1>2, <1>6, <1>8, <2>1, <2>2, EntryFields
<1>9. CASE ReadBinary(t)
  <2>1. tool[t].pc = "binary"
    BY <1>9 DEF ReadBinary
  <2> QED
    BY <1>1, <1>2, <1>6, <1>9, <2>1, EntryFields
<1>10. CASE \/ ReadText(t) \/ RemoveEntry(t) \/ CheckEnd(t) \/ DoneExists(t) \/ KillFails(t)
            \/ DoneRecheck(t) \/ DoneEnd(t) \/ ListEnd(t)
  <2>1. tool'[t].todo = tool[t].todo /\ tool'[t].at = tool[t].at
    BY <1>1, <1>10 DEF ReadText, RemoveEntry, CheckEnd, DoneExists, KillFails, DoneRecheck,
       DoneEnd, ListEnd, ToolRecord
  <2>2. \/ tool'[t].pc \in {"kill", "recheck", "unlink"}
        \/ tool[t].pc \notin {"binary", "exists", "kill"}
    BY <1>1, <1>10 DEF ReadText, RemoveEntry, CheckEnd, DoneExists, KillFails, DoneRecheck,
       DoneEnd, ListEnd, ToolRecord
  <2> QED
    BY <1>2, <1>6, <2>1, <2>2
<1>11. CASE CheckExists(t) \/ ListExists(t) \/ Kill(t)
  <2>1. tool'[t].todo = tool[t].todo /\ tool[t].pc \in {"exists", "kill"}
    BY <1>1, <1>11 DEF CheckExists, ListExists, Kill, ToolRecord
  <2> QED
    BY <1>2, <1>4, <1>6, <1>11, <2>1
<1>12. tool'[t] = tool[t] \/ ToolStep(t)
  BY <1>1, <1>3, ToolActsAlone DEF ToolsNext, RunStep, ToolActs
<1> QED
  BY <1>7, <1>8, <1>9, <1>10, <1>11, <1>12 DEF ToolStep

(* Nothing a command has written down is lost, but by its own step. *)
LEMMA Unmoved ==
    ASSUME ToolsInv, ToolsNext, NEW t \in Tool
    PROVE  \/ ToolActs(t)
           \/ tool'[t] = tool[t] /\ hit'[t] = hit[t] /\ shown'[t] = shown[t]
BY ToolActsAlone DEF ToolsInv, ToolsNext, RunStep, ToolActs

-----------------------------------------------------------------------------
(* --list *)

ListInv ==
    \A t \in Tool :
        /\ cmd[t].kind = "list" /\ "--stale-only" \notin cmd[t].set =>
             \A r \in steady[t] : Visited(t, r) => <<r, "active">> \in shown[t]
        /\ \A r \in Run : <<r, "stale">> \in shown[t] => pc[r] = "ended"

LEMMA ListInvStep ==
    ASSUME ToolsInv, SteadyInv, ListInv, ToolsNext
    PROVE  ListInv'
<1> SUFFICES ASSUME NEW t \in Tool
             PROVE  /\ cmd[t].kind = "list" /\ "--stale-only" \notin cmd[t].set =>
                         \A r \in steady'[t] : Visited(t, r)' => <<r, "active">> \in shown'[t]
                    /\ \A r \in Run : <<r, "stale">> \in shown'[t] => pc'[r] = "ended"
  BY SteadyStays DEF ListInv
<1>1. /\ TypeOK /\ ToolTypes /\ RunsInv /\ (cmd[t].kind = "list" => Matches(t) = Path)
      /\ shown \in [Tool -> SUBSET (Run \X {"active", "stale"})]
      /\ \A r \in Run : at[r] \in Path
      /\ \A r \in Run : pc[r] = "ended" => pc'[r] = "ended"
  <2>1. \A r \in Run : pc[r] = "ended" => pc'[r] = "ended"
    BY RunsUnderRuns, RunsUnderTools DEF ToolsInv, ToolsNext, RunStep, ToolActs
  <2>2. cmd[t].kind = "list" => Matches(t) = Path
    BY DEF Matches
  <2> QED
    BY <2>1, <2>2 DEF ToolsInv, RunsInv, TypeInv, TypeOK, ToolTypes
<1>2. CASE ~ ListExists(t)
  <2>1. shown'[t] = shown[t]
    BY <1>1, <1>2, Unmoved DEF ToolActs, ToolStart, ToolStep, ReadEntry, ReadBinary, ReadText,
       RemoveEntry, CheckExists, CheckEnd, DoneExists, Kill, KillFails, DoneRecheck, DoneEnd,
       ListEnd
  <2>2. ASSUME cmd[t].kind = "list", NEW r \in steady'[t], Visited(t, r)'
        PROVE  r \in steady[t] /\ Visited(t, r)
    <3>1. ~ CheckExists(t) /\ ~ Kill(t)
      BY <2>2 DEF CheckExists, Kill, ToolsInv, ToolShape
    <3>2. at[r] \in Matches(t)
      BY <1>1, <2>2, SteadyStays
    <3> QED
      BY <1>2, <2>2, <3>1, <3>2, VisitSteps
  <2> QED
    BY <1>1, <2>1, <2>2 DEF ListInv
<1>3. CASE ListExists(t)
  <2>1. PICK q \in Run : tool[t].seen = {q} /\ pc[q] # "unborn"
    BY <1>1, <1>3 DEF ListExists, ToolsInv, SeenFits, TypeOK, File
  <2>2. pc' = pc
    BY <1>3 DEF ListExists, vars
  <2> DEFINE stale == Named(t) = {}
             how == IF stale THEN "stale" ELSE "active"
  <2>3. shown'[t] = IF Shows(t, stale) THEN shown[t] \cup {q} \X {how} ELSE shown[t]
    <3>1. shown' = [shown EXCEPT ![t] =
              IF Shows(t, stale) THEN shown[t] \cup tool[t].seen \X {how} ELSE shown[t]]
      BY <1>3, Zenon DEF ListExists
    <3> HIDE DEF stale, how
    <3> QED
      BY <1>1, <2>1, <3>1
  <2>4. stale => pc[q] = "ended"
    <3>1. stale => ~ Exists(q)
      BY <2>1 DEF Named
    <3> QED
      BY <1>1, <2>1, <3>1 DEF Exists, TypeOK, Label
  <2>5. ASSUME NEW r \in Run, <<r, "stale">> \in shown'[t] PROVE pc'[r] = "ended"
    <3>1. <<r, "stale">> \in shown[t] \/ (r = q /\ stale)
      BY <2>3, <2>5
    <3> QED
      BY <2>2, <2>4, <3>1 DEF ListInv
  <2>6. ASSUME cmd[t].kind = "list", "--stale-only" \notin cmd[t].set, NEW r \in steady'[t], Visited(t, r)'
        PROVE  <<r, "active">> \in shown'[t]
    <3>1. at[r] \in Matches(t)
      BY <1>1, <2>6, SteadyStays
    <3>2. r \in steady[t] /\ (Visited(t, r) \/ (r = q /\ ~ stale))
      BY <2>1, <2>6, <3>1, VisitSteps
    <3>3. CASE Visited(t, r)
      BY <2>3, <2>6, <3>2, <3>3 DEF ListInv
    <3>4. CASE r = q /\ ~ stale
      <4>1. Shows(t, stale)
        BY <2>6, <3>4 DEF Shows
      <4> QED
        BY <2>3, <3>4, <4>1
    <3> QED
      BY <3>2, <3>3, <3>4
  <2> QED
    BY <2>5, <2>6
<1> QED
  BY <1>2, <1>3

(* --list names every run that holds a lock all the while, whatever other  *)
(* commands remove and whoever comes and goes, and calls no run stale that *)
(* could still live (lock.c:492-516).                                      *)
THEOREM ListIsTrue == ToolsSpec => []ListTellsHolders
<1> DEFINE Inv == ToolsInv /\ SteadyInv /\ ListInv
<1>1. ToolsInit => Inv
  <2>1. ToolsInit => ListInv
    BY DEF ToolsInit, ListInv
  <2> QED
    BY <2>1, ToolsInvInductive, SteadyInvInductive
<1>2. Inv /\ [ToolsNext]_toolsVars => Inv'
  <2>1. ListInv /\ UNCHANGED toolsVars => ListInv'
    BY DEF toolsVars, toolVars, vars, ListInv, Visited
  <2> QED
    BY <2>1, ToolsInvInductive, SteadyInvInductive, ListInvStep
<1>3. Inv => ListTellsHolders
  <2> SUFFICES ASSUME Inv, NEW t \in Tool
               PROVE  /\ ToolDone(t, "list") /\ "--stale-only" \notin cmd[t].set
                           => steady[t] \X {"active"} \subseteq shown[t]
                      /\ \A r \in Run : <<r, "stale">> \in shown[t] => pc[r] = "ended"
    BY DEF ListTellsHolders
  <2>1. ToolDone(t, "list") => \A r \in steady[t] : Visited(t, r)
    BY DEF ToolDone, ToolsInv, ToolShape, Visited
  <2>2. ToolDone(t, "list") /\ "--stale-only" \notin cmd[t].set
           => \A r \in steady[t] : <<r, "active">> \in shown[t]
    BY <2>1 DEF ToolDone, ListInv
  <2> QED
    BY <2>2 DEF ListInv
<1> QED
  BY <1>1, <1>2, <1>3, PTL DEF ToolsSpec

-----------------------------------------------------------------------------
(* --done *)

(* A new process gets a number no live process of its machine has. *)
LivePidsDiffer ==
    \A p, q \in Run : Exists(p) /\ Exists(q) /\ PidOf[p] = PidOf[q] => p = q

LEMMA LivePidsStep ==
    ASSUME OneMachine, ToolsInv, LivePidsDiffer, ToolsNext
    PROVE  LivePidsDiffer'
<1>1. TypeOK
  BY DEF ToolsInv, RunsInv, TypeInv
<1>2. ASSUME NEW p \in Run, RunMoves(p), ~ Start(p) PROVE LivePidsDiffer'
  <2>1. Exists(p)' => Exists(p)
    <3> USE DEF TypeOK, Goto, Return, dirVars, scanVars, fdVars, Exists, Live, Acquiring, Claimed
    <3>1. CASE Step(p)
      <4>1. CASE \/ GiveUp(p) \/ BeginScan(p) \/ Visit(p) \/ CountLive(p) \/ Condemn(p)
                 \/ Reap(p) \/ Busy(p) \/ AwaitSlot(p) \/ BeginClaim(p)
        BY <1>1, <4>1 DEF GiveUp, BeginScan, Visit, CountLive, Condemn, Reap, Busy, AwaitSlot,
           BeginClaim, ScanDone
      <4>2. CASE \/ Create(p) \/ SlotTaken(p) \/ Write(p) \/ Undo(p) \/ Open(p) \/ Flock(p)
                 \/ Sleep(p) \/ ReleaseClose(p) \/ ReleaseUnlink(p)
        BY <1>1, <4>2 DEF Create, SlotTaken, NextSlot, Write, Undo, Open, Flock, Sleep,
           ReleaseClose, ReleaseUnlink
      <4> QED
        BY <3>1, <4>1, <4>2 DEF Step
    <3>2. CASE Outside(p) /\ ~ Killed(p)
      BY <1>1, <1>2, <3>2 DEF Outside, WriteFails, CommandEnds, Expire, OrphanEnds, ParentWaits
    <3>3. CASE pc[p] \in Live
      BY <1>1, <3>3
    <3>4. Killed(p) => pc[p] \in Live
      BY KillPointsAssumption DEF Killed
    <3> QED
      BY <1>2, <3>1, <3>2, <3>3, <3>4 DEF RunMoves
  <2>2. \A q \in Run : Exists(q)' => Exists(q)
    BY <1>1, <1>2, <2>1, RunMovesOne DEF Exists
  <2> QED
    BY <2>2 DEF LivePidsDiffer
<1>3. ASSUME NEW p \in Run, Start(p) PROVE LivePidsDiffer'
  <2>1. \A q \in Run : Exists(q) => PidOf[q] # PidOf[p]
    BY <1>3 DEF Start, ProcessExists, OneMachine
  <2>2. \A q \in Run \ {p} : Exists(q)' => Exists(q)
    BY <1>1, <1>3 DEF Start, Goto, Exists, TypeOK
  <2> QED
    BY <2>1, <2>2 DEF LivePidsDiffer
<1>4. CASE pc' = pc
  BY <1>4 DEF LivePidsDiffer, Exists
<1>5. pc' = pc \/ \E p \in Run : RunMoves(p)
  <2>1. CASE RunStep
    BY <2>1 DEF RunStep, Next, Finished, vars, RunMoves
  <2>2. CASE \E t \in Tool : Kill(t)
    <3>1. PICK r \in Run : Terminate(r)
      BY <2>2 DEF Kill, Named
    <3> QED
      BY <3>1 DEF Terminate, RunMoves, Outside, vars
  <2>3. RunStep \/ (\E t \in Tool : Kill(t)) \/ pc' = pc
    BY DEF ToolsNext, ToolStart, ToolStep, ReadEntry, ReadBinary, ReadText, RemoveEntry,
       CheckExists, CheckEnd, DoneExists, KillFails, DoneRecheck, DoneEnd, ListExists,
       ListEnd, vars
  <2> QED
    BY <2>1, <2>2, <2>3
<1> QED
  BY <1>2, <1>3, <1>4, <1>5

(* The entry of a holder is one that --done looks at. *)
LEMMA HolderIsMatched ==
    ASSUME ToolsInv, NEW t \in Tool, cmd[t].kind \in {"done", "check"},
           cmd[t].kind = "check" => Undotted(cmd[t].desc), NEW r \in SoughtBy(t), pc[r] = "held"
    PROVE  at[r] \in Matches(t) /\ at[r].desc = cmd[t].desc
<1>1. r \in Run /\ opts[r].desc = cmd[t].desc /\ at[r] \in Path
  BY DEF SoughtBy, ToolsInv, RunsInv, TypeInv, TypeOK
<1>2. at[r].desc = cmd[t].desc
  BY <1>1 DEF ToolsInv, RunsInv, OwnDescriptor, Claimed
<1>3. CASE cmd[t].kind = "done"
  BY <1>1, <1>2, <1>3, DoneFindsOwn DEF Matches
<1>4. CASE cmd[t].kind = "check"
  BY <1>1, <1>2, <1>4, CheckFindsOwn DEF Matches
<1> QED
  BY <1>2, <1>3, <1>4

DoneInv ==
    \A t \in Tool : cmd[t].kind = "done" =>
        \A r \in steady[t] : Visited(t, r) => opts[r].mode = "exec"

LEMMA DoneInvStep ==
    ASSUME LivePidsDiffer, ToolsInv, SteadyInv, DoneInv, ToolsNext
    PROVE  DoneInv'
<1> SUFFICES ASSUME NEW t \in Tool, cmd[t].kind = "done", NEW r \in steady'[t], Visited(t, r)'
             PROVE  opts[r].mode = "exec"
  BY SteadyStays DEF DoneInv
<1>1. /\ TypeOK /\ r \in Run /\ r \in SoughtBy(t) /\ pc[r] = "held" /\ Steadfast(r)'
  BY SteadyStays DEF SteadyInv, Steadfast, ToolsInv, RunsInv, TypeInv
<1>2. /\ r \in steady[t]
      /\ Visited(t, r) \/ (Kill(t) /\ tool[t].seen = {r})
  BY <1>1, HolderIsMatched, VisitSteps DEF CheckExists, ListExists
<1>3. CASE Visited(t, r)
  BY <1>2, <1>3 DEF DoneInv
<1>4. CASE Kill(t) /\ tool[t].seen = {r}
  <2>1. PICK q \in Named(t) : Terminate(q)
    BY <1>4 DEF Kill
  <2>2. Exists(r)
    BY <1>1 DEF Exists, Live, Claimed
  <2>3. q = r
    BY <1>1, <1>4, <2>1, <2>2 DEF Named, LivePidsDiffer
  <2>4. ~ Die(r)
    BY <1>1 DEF Die, Goto, TypeOK, Steadfast
  <2> QED
    BY <1>1, <2>1, <2>3, <2>4 DEF Terminate
<1> QED
  BY <1>2, <1>3, <1>4

(* Who holds the lock outside exec mode when --done starts has let go, or  *)
(* been killed, when it ends, for every number of runs and of --done at    *)
(* once (lock.c:702-762).                                                  *)
THEOREM DoneReachesAll == OneMachine => (ToolsSpec => []DoneReachesHolders)
<1> SUFFICES ASSUME OneMachine PROVE ToolsSpec => []DoneReachesHolders
  OBVIOUS
<1> DEFINE Inv == ToolsInv /\ SteadyInv /\ LivePidsDiffer /\ DoneInv
<1>1. ToolsInit => Inv
  <2>1. ToolsInit => LivePidsDiffer /\ DoneInv
    BY DEF ToolsInit, Init, LivePidsDiffer, Exists, DoneInv, Live, Acquiring, Claimed
  <2> QED
    BY <2>1, ToolsInvInductive, SteadyInvInductive
<1>2. Inv /\ [ToolsNext]_toolsVars => Inv'
  <2>1. LivePidsDiffer /\ DoneInv /\ UNCHANGED toolsVars => LivePidsDiffer' /\ DoneInv'
    BY DEF toolsVars, toolVars, vars, LivePidsDiffer, Exists, DoneInv, Visited
  <2> QED
    BY <2>1, ToolsInvInductive, SteadyInvInductive, LivePidsStep, DoneInvStep
<1>3. Inv => DoneReachesHolders
  BY DEF DoneReachesHolders, ToolDone, ToolsInv, ToolShape, DoneInv, Visited
<1> QED
  BY <1>1, <1>2, <1>3, PTL DEF ToolsSpec

LEMMA DoneFollowsStep ==
    ASSUME LivePidsDiffer, ToolsInv, DoneFollowsRecords, ToolsNext
    PROVE  DoneFollowsRecords'
<1>1. /\ cmd' = cmd /\ written \subseteq written'
      /\ \A q \in Run : pc[q] = "ended" => pc'[q] = "ended"
  BY RunsUnderRuns, RunsUnderTools, ToolActsAlone DEF ToolsInv, ToolsNext, RunStep, ToolActs
<1>2. TypeOK /\ \A f \in written : f.owner \in Run
  BY DEF ToolsInv, RunsInv, TypeInv, TypeOK, File
<1> SUFFICES ASSUME NEW t \in Tool, NEW r \in hit'[t]
             PROVE  \E f \in written :
                      /\ IsPrefix(cmd[t].desc \o <<".">>, EntryName(f.path))
                      /\ PidOf[f.owner] = PidOf[r]
                      /\ f.owner = r \/ pc[f.owner] = "ended"
  BY <1>1, <1>2 DEF DoneFollowsRecords
<1>3. CASE r \in hit[t]
  BY <1>3 DEF DoneFollowsRecords
<1>4. CASE r \notin hit[t]
  <2>1. Kill(t)
    BY <1>4, Unmoved DEF ToolActs, ToolStart, ToolStep, ReadEntry, ReadBinary, ReadText,
       RemoveEntry, CheckExists, CheckEnd, DoneExists, KillFails, DoneRecheck, DoneEnd,
       ListExists, ListEnd
  <2>2. r \in Named(t)
    BY <1>4, <2>1 DEF Kill, ToolsInv, ToolTypes
  <2>3. PICK f \in written : /\ tool[t].seen = {f.owner} /\ pc[f.owner] # "unborn"
                             /\ f.path \in Matches(t)
    BY <2>1 DEF Kill, ToolsInv, SeenFits
  <2>4. IsPrefix(cmd[t].desc \o <<".">>, EntryName(f.path))
    BY <2>1, <2>3 DEF Kill, ToolsInv, ToolShape, Matches, DoneMatches
  <2>5. r \in Run /\ Exists(r) /\ PidOf[f.owner] = PidOf[r]
    BY <2>2, <2>3 DEF Named
  <2>6. f.owner = r \/ ~ Exists(f.owner)
    BY <1>2, <2>5 DEF LivePidsDiffer
  <2>7. f.owner = r \/ pc[f.owner] = "ended"
    BY <1>2, <2>3, <2>6 DEF Exists, TypeOK, Label, Live
  <2> QED
    BY <2>4, <2>5, <2>7
<1> QED
  BY <1>3, <1>4

(* The signal of --done goes by the records: to the run that wrote one     *)
(* under a matching name, or to a later one that got the number of such a  *)
(* writer after its end; whatever the descriptors and the numbers are, and *)
(* however many runs and commands there are (lock.c:709-711, 725).         *)
THEOREM DoneGoesByRecords == OneMachine => (ToolsSpec => []DoneFollowsRecords)
<1> SUFFICES ASSUME OneMachine PROVE ToolsSpec => []DoneFollowsRecords
  OBVIOUS
<1> DEFINE Inv == ToolsInv /\ LivePidsDiffer /\ DoneFollowsRecords
<1>1. ToolsInit => Inv
  <2>1. ToolsInit => LivePidsDiffer /\ DoneFollowsRecords
    BY DEF ToolsInit, Init, LivePidsDiffer, Exists, Live, Acquiring, Claimed, DoneFollowsRecords
  <2> QED
    BY <2>1, ToolsInvInductive
<1>2. Inv /\ [ToolsNext]_toolsVars => Inv'
  <2>1. LivePidsDiffer /\ DoneFollowsRecords /\ UNCHANGED toolsVars
          => LivePidsDiffer' /\ DoneFollowsRecords'
    BY DEF toolsVars, toolVars, vars, LivePidsDiffer, Exists, DoneFollowsRecords
  <2>2. ASSUME ToolsInv, LivePidsDiffer, DoneFollowsRecords, ToolsNext PROVE DoneFollowsRecords'
    BY <2>2, DoneFollowsStep
  <2> QED
    BY <2>1, <2>2, ToolsInvInductive, LivePidsStep
<1>3. Inv => DoneFollowsRecords
  OBVIOUS
<1> QED
  BY <1>1, <1>2, <1>3, PTL DEF ToolsSpec

-----------------------------------------------------------------------------
(* --check *)

Counted(t) == {r \in steady[t] : Visited(t, r)}

CheckInv ==
    \A t \in Tool : cmd[t].kind = "check" /\ Undotted(cmd[t].desc) =>
        /\ IsFiniteSet(Counted(t)) /\ Cardinality(Counted(t)) <= tool[t].active_locks
        /\ tool[t].ret = "SUCCESS" =>
             tool[t].pc = "done" /\ tool[t].active_locks < tool[t].max_holders

LEMMA CheckInvStep ==
    ASSUME ToolsInv, SteadyInv, CheckInv, ToolsNext
    PROVE  CheckInv'
<1> SUFFICES ASSUME NEW t \in Tool, cmd[t].kind = "check", Undotted(cmd[t].desc)
             PROVE  /\ IsFiniteSet(Counted(t)')
                    /\ Cardinality(Counted(t)') <= tool'[t].active_locks
                    /\ tool'[t].ret = "SUCCESS" =>
                         tool'[t].pc = "done" /\ tool'[t].active_locks < tool'[t].max_holders
  BY SteadyStays DEF CheckInv, Undotted
<1>1. /\ TypeOK /\ ToolTypes /\ tool \in [Tool -> ToolRecord]
      /\ tool[t].active_locks \in Nat /\ tool'[t].active_locks \in Nat
  BY ToolsInvInductive DEF ToolsInv, RunsInv, TypeInv, ToolTypes, ToolRecord
<1>2. /\ IsFiniteSet(Counted(t)) /\ Cardinality(Counted(t)) <= tool[t].active_locks
      /\ Cardinality(Counted(t)) \in Nat
      /\ tool[t].ret = "SUCCESS" =>
           tool[t].pc = "done" /\ tool[t].active_locks < tool[t].max_holders
  BY FS_CardinalityType DEF CheckInv
<1>3. \A r \in Counted(t)' :
         r \in Counted(t) \/ (CheckExists(t) /\ tool[t].seen = {r} /\ Named(t) # {})
  <2> SUFFICES ASSUME NEW r \in steady'[t], Visited(t, r)'
               PROVE  /\ r \in steady[t]
                      /\ \/ Visited(t, r)
                         \/ CheckExists(t) /\ tool[t].seen = {r} /\ Named(t) # {}
    BY DEF Counted
  <2>1. r \in SoughtBy(t) /\ pc[r] = "held"
    BY SteadyStays DEF SteadyInv, Steadfast
  <2>2. ~ ListExists(t) /\ ~ Kill(t)
    BY DEF ListExists, Kill, ToolsInv, ToolShape
  <2> QED
    BY <2>1, <2>2, HolderIsMatched, VisitSteps
<1>4. CASE CheckExists(t) /\ Named(t) # {}
  <2>1. PICK q : tool[t].seen = {q}
    BY <1>4 DEF CheckExists, ToolsInv, SeenFits
  <2>2. /\ tool'[t].active_locks = tool[t].active_locks + 1
        /\ tool'[t].ret = tool[t].ret /\ tool[t].ret # "SUCCESS"
    <3>1. tool[t].pc = "exists"
      BY <1>4 DEF CheckExists
    <3> QED
      BY <1>1, <1>2, <1>4, <3>1 DEF CheckExists, ToolRecord
  <2>3. Counted(t)' \subseteq Counted(t) \cup {q}
    BY <1>3, <2>1
  <2>4. /\ IsFiniteSet(Counted(t) \cup {q})
        /\ Cardinality(Counted(t) \cup {q}) <= Cardinality(Counted(t)) + 1
    <3>1. /\ IsFiniteSet(Counted(t) \cup {q})
          /\ \/ Cardinality(Counted(t) \cup {q}) = Cardinality(Counted(t))
             \/ Cardinality(Counted(t) \cup {q}) = Cardinality(Counted(t)) + 1
      BY <1>2, FS_AddElement
    <3> QED
      BY <1>2, <3>1
  <2>5. /\ IsFiniteSet(Counted(t)')
        /\ Cardinality(Counted(t)') <= Cardinality(Counted(t) \cup {q})
    BY <2>3, <2>4, FS_Subset
  <2>6. Cardinality(Counted(t)') \in Nat /\ Cardinality(Counted(t) \cup {q}) \in Nat
    BY <2>4, <2>5, FS_CardinalityType
  <2> QED
    BY <1>1, <1>2, <2>2, <2>4, <2>5, <2>6
<1>5. CASE ~ (CheckExists(t) /\ Named(t) # {})
  <2>1. Counted(t)' \subseteq Counted(t)
    BY <1>3, <1>5
  <2>2. /\ IsFiniteSet(Counted(t)') /\ Cardinality(Counted(t)') <= Cardinality(Counted(t))
        /\ Cardinality(Counted(t)') \in Nat
    BY <1>2, <2>1, FS_Subset, FS_CardinalityType
  <2>3. /\ tool'[t].active_locks = tool[t].active_locks
        /\ tool'[t].ret = "SUCCESS" =>
             tool'[t].pc = "done" /\ tool'[t].active_locks < tool'[t].max_holders
    <3>1. CASE tool'[t] = tool[t]
      BY <1>2, <3>1
    <3>2. CASE ToolStart(t) \/ ReadEntry(t) \/ ReadBinary(t)
      <4>1. tool[t].pc # "done"
        BY <3>2 DEF ToolStart, ReadEntry, ReadBinary
      <4> QED
        BY <1>1, <1>2, <3>2, <4>1, EntryFields DEF SameCounts
    <3>3. CASE ReadText(t) \/ RemoveEntry(t) \/ KillFails(t) \/ DoneRecheck(t) \/ DoneExists(t)
      <4>1. ~ KillFails(t) /\ ~ DoneRecheck(t) /\ ~ DoneExists(t)
        BY DEF KillFails, DoneRecheck, DoneExists, ToolsInv, ToolShape
      <4> QED
        BY <1>1, <1>2, <3>3, <4>1 DEF ReadText, RemoveEntry, ToolRecord
    <3>4. CASE CheckExists(t)
      BY <1>1, <1>2, <1>5, <3>4 DEF CheckExists, ToolRecord
    <3>5. CASE CheckEnd(t)
      <4>1. /\ tool'[t].active_locks = tool[t].active_locks
            /\ tool'[t].max_holders = tool[t].max_holders
            /\ tool'[t].pc = "done"
            /\ tool'[t].ret = IF tool[t].active_locks >= tool[t].max_holders
                             THEN "BUSY" ELSE "SUCCESS"
        BY <1>1, <3>5 DEF CheckEnd, ToolRecord
      <4>2. tool[t].max_holders \in Nat
        BY <1>1 DEF ToolRecord
      <4> QED
        BY <1>1, <4>1, <4>2
    <3>6. ~ Kill(t) /\ ~ DoneEnd(t) /\ ~ ListExists(t) /\ ~ ListEnd(t)
      BY DEF Kill, DoneEnd, ListExists, ListEnd, ToolsInv, ToolShape
    <3> QED
      BY <3>1, <3>2, <3>3, <3>4, <3>5, <3>6, Unmoved DEF ToolActs, ToolStep
  <2> QED
    BY <1>1, <1>2, <2>2, <2>3
<1> QED
  BY <1>4, <1>5

(* --check never answers that a slot is free where as many runs as there   *)
(* are slots hold all the while: none is overlooked in a directory that    *)
(* changes under the scan, whatever the other descriptors (lock.c:414-463).*)
THEOREM CheckSeesHolders == ToolsSpec => []CheckSeesSteadyHolders
<1> DEFINE Inv == ToolsInv /\ SteadyInv /\ CheckInv
<1>1. ToolsInit => Inv
  <2>1. ASSUME ToolsInit PROVE CheckInv
    <3>1. \A t \in Tool : Counted(t) = {}
      BY <2>1 DEF ToolsInit, Counted
    <3>2. IsFiniteSet({}) /\ Cardinality({}) = 0
      BY FS_EmptySet
    <3>3. \A t \in Tool : tool[t].active_locks = 0 /\ tool[t].ret = "none"
      BY <2>1 DEF ToolsInit
    <3> QED
      BY <3>1, <3>2, <3>3 DEF CheckInv
  <2> QED
    BY <2>1, ToolsInvInductive, SteadyInvInductive
<1>2. Inv /\ [ToolsNext]_toolsVars => Inv'
  <2>1. CheckInv /\ UNCHANGED toolsVars => CheckInv'
    BY DEF toolsVars, toolVars, vars, CheckInv, Counted, Visited
  <2> QED
    BY <2>1, ToolsInvInductive, SteadyInvInductive, CheckInvStep
<1>3. Inv => CheckSeesSteadyHolders
  <2> SUFFICES ASSUME Inv, NEW t \in Tool, ToolDone(t, "check"), tool[t].ret = "SUCCESS",
                      Undotted(cmd[t].desc)
               PROVE  Cardinality(steady[t]) < MaxHolders
    BY DEF CheckSeesSteadyHolders
  <2>1. Counted(t) = steady[t]
    BY DEF ToolDone, ToolsInv, ToolShape, Counted, Visited
  <2>2. /\ IsFiniteSet(steady[t]) /\ Cardinality(steady[t]) <= tool[t].active_locks
        /\ tool[t].active_locks < tool[t].max_holders
    BY <2>1 DEF ToolDone, CheckInv
  <2>3. /\ tool[t].active_locks \in Nat /\ tool[t].max_holders \in 1 .. MaxHolders
        /\ Cardinality(steady[t]) \in Nat
    BY <2>2, FS_CardinalityType DEF ToolsInv, ToolTypes, ToolRecord
  <2> QED
    BY <2>2, <2>3, MaxHoldersAssumption
<1> QED
  BY <1>1, <1>2, <1>3, PTL DEF ToolsSpec

-----------------------------------------------------------------------------
(* A command among the dead *)

AllEnded == \A r \in Run : pc[r] = "ended"

(* Before it starts a command has counted, answered, signalled and shown   *)
(* nothing.                                                                *)
NothingDone(t) ==
    /\ tool[t].active_locks = 0
    /\ tool[t].ret # "BUSY"
    /\ hit[t] = {}
    /\ \A r \in Run : <<r, "active">> \notin shown[t]

IdleInv == \A t \in Tool : tool[t].pc = "idle" => NothingDone(t)

(* Where all runs have ended that stays so, and --done leaves no file of   *)
(* its descriptor behind it, be it whole or half-written.                  *)
AmongTheDead(t) ==
    /\ AllEnded
    /\ NothingDone(t)
    /\ tool[t].pc \notin {"kill", "recheck"}
    /\ cmd[t].kind = "done" /\ tool[t].pc # "idle" =>
         \A f \in files : f.path.desc = cmd[t].desc =>
           /\ tool[t].pc # "done"
           /\ \/ f.path \in tool[t].todo
              \/ tool[t].pc \in {"binary", "text", "exists", "unlink"} /\ f.path = tool[t].at

(* Among the dead nobody moves but the commands, and these only unlink.    *)
LEMMA DeadStay ==
    ASSUME ToolsInv, AllEnded, ToolsNext
    PROVE  /\ AllEnded'
           /\ files' \subseteq files
           /\ \A t \in Tool : Named(t) = {}
<1>1. TypeOK /\ RunsInv
  BY DEF ToolsInv, RunsInv, TypeInv
<1>2. \A t \in Tool : Named(t) = {}
  BY DEF AllEnded, Named, Exists, Acquiring, Claimed, Live
<1>3. AllEnded'
  <2>1. CASE Next
    BY <1>1, <2>1, RunsUnderRuns DEF AllEnded
  <2>2. CASE \E t \in Tool : ToolActs(t)
    BY <1>1, <2>2, RunsUnderTools, ToolsInvInductive DEF AllEnded, ToolsInv
  <2> QED
    BY <2>1, <2>2 DEF ToolsNext, RunStep, ToolActs
<1>4. files' \subseteq files
  <2>1. CASE \E p \in Run : Step(p) \/ Outside(p)
    <3>1. PICK p \in Run : Step(p) \/ Outside(p)
      BY <2>1
    <3>2. ~ Create(p)
      BY DEF Create, AllEnded
    <3> QED
      BY <3>1, <3>2, DirectorySteps DEF Unlink
  <2>2. CASE Finished
    BY <2>2 DEF Finished, vars
  <2>3. CASE \E t \in Tool : ToolActs(t)
    <3>1. PICK t \in Tool : ToolActs(t)
      BY <2>3
    <3>2. ~ Kill(t)
      BY <1>2 DEF Kill
    <3> QED
      BY <3>1, <3>2 DEF ToolActs, ToolStart, ToolStep, ReadEntry, ReadBinary, ReadText,
         RemoveEntry, CheckExists, CheckEnd, DoneExists, KillFails, DoneRecheck, DoneEnd,
         ListExists, ListEnd, Unlink, vars
  <2> QED
    BY <2>1, <2>2, <2>3 DEF ToolsNext, RunStep, Next, ToolActs
<1> QED
  BY <1>2, <1>3, <1>4

LEMMA IdleInvStep ==
    ASSUME ToolsInv, IdleInv, ToolsNext
    PROVE  IdleInv'
<1>1. ToolTypes
  BY DEF ToolsInv
<1>2. SUFFICES ASSUME NEW t \in Tool, tool'[t].pc = "idle" PROVE NothingDone(t)'
  BY DEF IdleInv
<1>3. ~ ToolActs(t)
  <2>1. ~ ToolStart(t) /\ ~ ReadEntry(t) /\ ~ ReadBinary(t)
    BY <1>1, <1>2, EntryFields
  <2>2. ~ ReadText(t) /\ ~ RemoveEntry(t) /\ ~ CheckEnd(t) /\ ~ DoneEnd(t) /\ ~ ListEnd(t)
    BY <1>1, <1>2 DEF ToolTypes, ToolRecord, ReadText, RemoveEntry, CheckEnd, DoneEnd, ListEnd
  <2>3. ~ CheckExists(t) /\ ~ ListExists(t) /\ ~ DoneExists(t)
    BY <1>1, <1>2 DEF ToolTypes, ToolRecord, CheckExists, ListExists, DoneExists
  <2>4. ~ Kill(t) /\ ~ KillFails(t) /\ ~ DoneRecheck(t)
    BY <1>1, <1>2 DEF ToolTypes, ToolRecord, Kill, KillFails, DoneRecheck
  <2> QED
    BY <2>1, <2>2, <2>3, <2>4 DEF ToolActs, ToolStep
<1> QED
  BY <1>2, <1>3, Unmoved DEF IdleInv, NothingDone

LEMMA AmongTheDeadStep ==
    ASSUME ToolsInv, NEW t \in Tool, AmongTheDead(t), ToolsNext
    PROVE  AmongTheDead(t)'
<1>1. ToolTypes /\ cmd' = cmd /\ TypeOK
  BY ToolActsAlone DEF ToolsInv, RunsInv, TypeInv, ToolsNext, RunStep, ToolActs
<1>2. AllEnded' /\ files' \subseteq files /\ Named(t) = {}
  BY DeadStay DEF AmongTheDead
<1>3. \A f \in files : f.path \in Path
  BY <1>1 DEF TypeOK, File
<1>4. CASE ~ ToolActs(t)
  BY <1>1, <1>2, <1>4, Unmoved DEF AmongTheDead, NothingDone
<1>5. CASE ToolStart(t)
  <2>1. /\ SameCounts(t) /\ tool'[t].pc = "scan" /\ tool'[t].todo = Matches(t)
        /\ UNCHANGED <<files, hit, shown>>
    BY <1>1, <1>5, EntryFields DEF ToolStart, vars
  <2>2. cmd[t].kind = "done" => \A f \in files : f.path.desc = cmd[t].desc => f.path \in Matches(t)
    BY <1>3, DoneFindsOwn DEF Matches
  <2> QED
    BY <1>1, <1>2, <2>1, <2>2 DEF AmongTheDead, NothingDone, SameCounts
<1>6. CASE ReadEntry(t)
  <2>1. UNCHANGED <<files, hit, shown>> /\ tool[t].pc = "scan"
    BY <1>6 DEF ReadEntry, vars
  <2>2. SameCounts(t)
    BY <1>1, <1>6, EntryFields
  <2>3. PICK x \in tool[t].todo :
          /\ tool'[t].todo = tool[t].todo \ {x} /\ tool'[t].at = x
          /\ IF FilesAt(files, x) = {} THEN tool'[t].pc = "scan" ELSE tool'[t].pc = "binary"
    BY <1>1, <1>6, EntryFields
  <2> QED
    BY <1>1, <1>2, <2>1, <2>2, <2>3 DEF AmongTheDead, NothingDone, SameCounts, FilesAt
<1>7. CASE ReadBinary(t)
  <2>1. UNCHANGED <<files, hit, shown>> /\ tool[t].pc = "binary"
    BY <1>7 DEF ReadBinary, vars
  <2>2. /\ SameCounts(t) /\ tool'[t].todo = tool[t].todo /\ tool'[t].at = tool[t].at
        /\ tool'[t].pc \in {"text", "exists"}
    BY <1>1, <1>7, EntryFields
  <2> QED
    BY <1>1, <1>2, <2>1, <2>2 DEF AmongTheDead, NothingDone, SameCounts
<1>8. CASE RemoveEntry(t)
  <2>1. /\ files' = Unlink(files, tool[t].at) /\ UNCHANGED <<hit, shown>>
        /\ tool[t].pc = "unlink" /\ tool'[t] = [tool[t] EXCEPT !.pc = "scan"]
    BY <1>1, <1>8 DEF RemoveEntry, ToolTypes
  <2>2. /\ SameCounts(t) /\ tool'[t].todo = tool[t].todo /\ tool'[t].pc = "scan"
    BY <1>1, <2>1 DEF SameCounts, ToolTypes, ToolRecord
  <2> QED
    BY <1>1, <1>2, <2>1, <2>2 DEF AmongTheDead, NothingDone, SameCounts, Unlink
<1>9. CASE ReadText(t)
  <2>1. /\ UNCHANGED <<files, hit, shown>> /\ tool[t].pc = "text"
        /\ SameCounts(t) /\ tool'[t].todo = tool[t].todo /\ tool'[t].at = tool[t].at
        /\ tool'[t].pc \in {"scan", "unlink"}
        /\ cmd[t].kind = "done" => tool'[t].pc = "unlink"
    BY <1>1, <1>9 DEF ReadText, vars, ToolTypes, ToolRecord, SameCounts
  <2> QED
    BY <1>1, <1>2, <2>1 DEF AmongTheDead, NothingDone, SameCounts
<1>10. CASE DoneExists(t)
  <2>1. /\ UNCHANGED <<files, hit, shown>> /\ tool[t].pc = "exists"
        /\ tool'[t].active_locks = tool[t].active_locks /\ tool'[t].ret = tool[t].ret
        /\ tool'[t].todo = tool[t].todo /\ tool'[t].at = tool[t].at /\ tool'[t].pc = "unlink"
    BY <1>1, <1>2, <1>10 DEF DoneExists, vars, ToolTypes, ToolRecord
  <2> QED
    BY <1>1, <1>2, <2>1 DEF AmongTheDead, NothingDone
<1>11. CASE DoneEnd(t)
  <2>1. /\ UNCHANGED <<files, hit, shown>> /\ tool[t].pc = "scan" /\ tool[t].todo = {}
        /\ tool'[t].active_locks = tool[t].active_locks /\ tool'[t].ret # "BUSY"
        /\ tool'[t].pc = "done"
    BY <1>1, <1>11 DEF DoneEnd, vars, ToolTypes, ToolRecord
  <2> QED
    BY <1>1, <1>2, <2>1 DEF AmongTheDead, NothingDone
<1>12. CASE CheckExists(t) \/ CheckEnd(t)
  <2>1. /\ UNCHANGED <<files, hit, shown>> /\ cmd[t].kind = "check"
        /\ tool'[t].pc \in {"scan", "done"}
    BY <1>1, <1>12 DEF CheckExists, CheckEnd, vars, ToolTypes, ToolRecord
  <2>2. tool'[t].active_locks = tool[t].active_locks
    BY <1>1, <1>2, <1>12 DEF CheckExists, CheckEnd, ToolTypes, ToolRecord
  <2>3. tool[t].active_locks = 0 /\ tool[t].max_holders \in 1 .. MaxHolders
    BY <1>1 DEF AmongTheDead, NothingDone, ToolTypes, ToolRecord
  <2>4. tool'[t].ret # "BUSY"
    BY <1>1, <1>2, <1>12, <2>3, MaxHoldersAssumption
       DEF CheckExists, CheckEnd, ToolTypes, ToolRecord, AmongTheDead, NothingDone
  <2> QED
    BY <1>1, <1>2, <2>1, <2>2, <2>4 DEF AmongTheDead, NothingDone
<1>13. CASE ListExists(t) \/ ListEnd(t)
  <2>1. /\ UNCHANGED <<files, hit>> /\ cmd[t].kind = "list"
        /\ tool'[t].pc \in {"scan", "done"} /\ tool'[t].active_locks = tool[t].active_locks
        /\ tool'[t].ret \in {tool[t].ret, "SUCCESS"}
    BY <1>1, <1>13 DEF ListExists, ListEnd, vars, ToolTypes, ToolRecord
  <2>2. shown'[t] \in {shown[t], shown[t] \cup tool[t].seen \X {"stale"}}
    <3>1. shown' = shown \/ shown' = [shown EXCEPT ![t] = @ \cup tool[t].seen \X {"stale"}]
                         \/ shown' = [shown EXCEPT ![t] = @]
      BY <1>2, <1>13, Zenon DEF ListExists, ListEnd
    <3> QED
      BY <1>1, <3>1 DEF ToolTypes
  <2>3. \A r \in Run : <<r, "active">> \notin shown'[t]
    <3>1. \A r \in Run : <<r, "active">> \notin tool[t].seen \X {"stale"}
      OBVIOUS
    <3>2. \A r \in Run : <<r, "active">> \notin shown[t]
      BY DEF AmongTheDead, NothingDone
    <3> QED
      BY <2>2, <3>1, <3>2
  <2> QED
    BY <1>1, <1>2, <2>1, <2>3 DEF AmongTheDead, NothingDone
<1>14. ~ Kill(t) /\ ~ KillFails(t) /\ ~ DoneRecheck(t)
  BY DEF Kill, KillFails, DoneRecheck, AmongTheDead
<1> QED
  BY <1>4, <1>5, <1>6, <1>7, <1>8, <1>9, <1>10, <1>11, <1>12, <1>13, <1>14
     DEF ToolActs, ToolStep

(* When every run is dead --check answers that the lock is available,      *)
(* --list shows nothing active and --done signals nobody and leaves no     *)
(* file of its descriptor, the half-written ones included that a run does  *)
(* not reclaim; whatever other commands do at the same time, and whatever  *)
(* the descriptors (lock.c:414-463, 492-516, 702-762).                     *)
THEOREM ToolsAmongTheDead ==
    ASSUME NEW t \in Tool
    PROVE  ToolsSpec =>
             [](tool[t].pc = "idle" /\ AllEnded =>
                  [](/\ NothingDone(t)
                     /\ ToolDone(t, "done") => \A f \in files : f.path.desc # cmd[t].desc))
<1>1. ToolsInit => ToolsInv /\ IdleInv
  <2>1. ToolsInit => IdleInv
    BY DEF ToolsInit, IdleInv, NothingDone
  <2> QED
    BY <2>1, ToolsInvInductive
<1>2. ToolsInv /\ IdleInv /\ [ToolsNext]_toolsVars => ToolsInv' /\ IdleInv'
  <2>1. IdleInv /\ UNCHANGED toolsVars => IdleInv'
    BY DEF IdleInv, NothingDone, toolsVars, toolVars
  <2> QED
    BY <2>1, ToolsInvInductive, IdleInvStep
<1>3. IdleInv /\ tool[t].pc = "idle" /\ AllEnded => AmongTheDead(t)
  BY DEF IdleInv, AmongTheDead
<1>4. ToolsInv /\ AmongTheDead(t) /\ [ToolsNext]_toolsVars => AmongTheDead(t)'
  <2>1. AmongTheDead(t) /\ UNCHANGED toolsVars => AmongTheDead(t)'
    BY DEF AmongTheDead, AllEnded, NothingDone, toolsVars, toolVars, vars
  <2> QED
    BY <2>1, AmongTheDeadStep
<1>5. AmongTheDead(t) => /\ NothingDone(t)
                         /\ ToolDone(t, "done") => \A f \in files : f.path.desc # cmd[t].desc
  BY DEF AmongTheDead, ToolDone
<1> QED
  BY <1>1, <1>2, <1>3, <1>4, <1>5, PTL DEF ToolsSpec
=============================================================================
