------------------------- MODULE LockDirectoryProofs -------------------------
(***************************************************************************)
(* Theorems about LockDirectory, for any runs, users and directories, any  *)
(* candidates and any rights.                                              *)
(***************************************************************************)
EXTENDS LockDirectory, SequenceTheorems, TLAPS

USE UserAssumption, DirAssumption, CreatorsAssumption

(* What a user can neither write to nor create. *)
Barred(u, d) == ~ Writable(u, d) /\ (dirs[d] = Missing => u \notin Creators[d])

PassedBy(r, d) == d \in lost[r] \/ Barred(UserOf[r], d)

(* A run goes on only from what is of no use to it. *)
WalkedPast ==
    \A r \in Run : \A i \in 1 .. Len(Candidates(r)) :
        i < at[r] \/ pc[r] = "nodir" => PassedBy(r, Candidates(r)[i])

(* It stays with a directory it may write to. *)
FoundWritable == \A r \in Run : pc[r] \in Found => Writable(UserOf[r], Candidate(r))

(* O_EXCL within one directory *)
OnePerDirectory ==
    \A r, q \in Run : r # q /\ pc[r] = "held" /\ pc[q] = "held" => Candidate(r) # Candidate(q)

DirectoryInv == TypeOK /\ WalkedPast /\ FoundWritable /\ OnePerDirectory

-----------------------------------------------------------------------------
(* Candidates *)

LEMMA OptionalType ==
    ASSUME NEW d \in Dir \cup {NoDir}
    PROVE  Optional(d) \in Seq(Dir)
BY DEF Optional

LEMMA CandidatesType ==
    ASSUME lock_dir \in [Run -> Given], NEW r \in Run
    PROVE  /\ Candidates(r) \in Seq(Dir)
           /\ Len(Candidates(r)) \in Nat \ {0}
           /\ \A i \in 1 .. Len(Candidates(r)) : Candidates(r)[i] \in Dir
<1>1. CASE lock_dir[r] # NoDir
  <2>1. lock_dir[r] \in Dir /\ Candidates(r) = <<lock_dir[r]>>
    BY <1>1 DEF Candidates
  <2> QED
    BY <2>1
<1>2. CASE lock_dir[r] = NoDir
  <2> DEFINE h == Optional(Home[UserOf[r]])
  <2>1. Home[UserOf[r]] \in Dir \cup {NoDir} /\ Cwd[r] \in Dir
    OBVIOUS
  <2>2. h \in Seq(Dir) /\ Standard \o h \in Seq(Dir) /\ <<Cwd[r]>> \in Seq(Dir)
    BY <2>1, OptionalType
  <2> HIDE DEF h
  <2>3. /\ (Standard \o h) \o <<Cwd[r]>> \in Seq(Dir)
        /\ Len((Standard \o h) \o <<Cwd[r]>>) = Len(Standard \o h) + 1
    BY <2>2, ConcatProperties
  <2>4. Candidates(r) = (Standard \o h) \o <<Cwd[r]>>
    BY <1>2 DEF Candidates, h
  <2>5. Len(Standard \o h) \in Nat
    BY <2>2
  <2> QED
    BY <2>3, <2>4, <2>5
<1> QED
  BY <1>1, <1>2

(* No run changes its own --lock-dir, so its candidates stay the same. *)
LEMMA SameCandidates ==
    ASSUME UNCHANGED lock_dir, NEW r \in Run
    PROVE  Candidates(r)' = Candidates(r)
BY DEF Candidates

-----------------------------------------------------------------------------
(* Directories only come into being *)

Grows ==
    \A d \in Dir : dirs'[d] = dirs[d] \/ (dirs[d] = Missing /\ dirs'[d] \in Creators[d])

LEMMA WritableStays ==
    ASSUME Grows, NEW u \in User, NEW d \in Dir, Writable(u, d)
    PROVE  Writable(u, d)'
<1>1. dirs[d] # Missing
  BY DEF Writable, Missing, Everyone
<1> QED
  BY <1>1 DEF Grows, Writable

LEMMA BarredStays ==
    ASSUME Grows, NEW u \in User, NEW d \in Dir, Barred(u, d)
    PROVE  Barred(u, d)'
<1>1. CASE dirs'[d] = dirs[d]
  BY <1>1 DEF Barred, Writable
<1>2. CASE dirs[d] = Missing /\ dirs'[d] \in Creators[d]
  <2>1. u \notin Creators[d] /\ u # Root
    BY <1>2 DEF Barred
  <2>2. dirs'[d] \in User
    BY <1>2
  <2> QED
    BY <1>2, <2>1, <2>2 DEF Barred, Writable, Missing, Everyone
<1> QED
  BY <1>1, <1>2 DEF Grows

-----------------------------------------------------------------------------
(* Steps *)

(* The walk: on to the next candidate, or to the end of it. *)
LEMMA PassOnType ==
    ASSUME TypeOK, NEW r \in Run, PassOn(r)
    PROVE  /\ pc' \in [Run -> Label]
           /\ at' \in [Run -> Nat]
           /\ at'[r] \in 1 .. Len(Candidates(r))
           /\ \A q \in Run \ {r} : pc'[q] = pc[q] /\ at'[q] = at[q]
           /\ pc'[r] \notin Found
           /\ \A i \in 1 .. Len(Candidates(r)) :
                i < at'[r] \/ pc'[r] = "nodir" => i <= at[r]
<1> DEFINE n == Len(Candidates(r))
<1>1. n \in Nat \ {0}
  BY CandidatesType DEF TypeOK
<1>2. /\ pc \in [Run -> Label] /\ at \in [Run -> Nat] /\ at[r] \in 1 .. n
  BY DEF TypeOK
<1>3. \/ /\ at[r] < n
         /\ at' = [at EXCEPT ![r] = @ + 1] /\ pc' = [pc EXCEPT ![r] = "access"]
      \/ /\ ~ (at[r] < n)
         /\ pc' = [pc EXCEPT ![r] = "nodir"] /\ at' = at
  BY DEF PassOn
<1> HIDE DEF n
<1>4. pc' \in [Run -> Label] /\ pc'[r] \notin Found
  BY <1>2, <1>3 DEF Label, Found
<1>5. at' \in [Run -> Nat] /\ at'[r] \in 1 .. n
  BY <1>1, <1>2, <1>3
<1>6. \A q \in Run \ {r} : pc'[q] = pc[q] /\ at'[q] = at[q]
  BY <1>2, <1>3
<1>7. \A i \in 1 .. n : i < at'[r] \/ pc'[r] = "nodir" => i <= at[r]
  BY <1>1, <1>2, <1>3
<1> QED
  BY <1>4, <1>5, <1>6, <1>7 DEF n

(* Whatever a run has passed stays passed when directories come into       *)
(* being, and so does what it has found.                                   *)
LEMMA GrowthKeeps ==
    ASSUME DirectoryInv, Grows, UNCHANGED lock_dir, NEW r \in Run,
           pc'[r] = pc[r], at'[r] = at[r], lost'[r] = lost[r]
    PROVE  /\ \A i \in 1 .. Len(Candidates(r)') :
                i < at'[r] \/ pc'[r] = "nodir" => PassedBy(r, Candidates(r)[i])'
           /\ pc'[r] \in Found => Writable(UserOf[r], Candidate(r))'
<1>1. Candidates(r)' = Candidates(r)
  BY SameCandidates
<1>2. \A i \in 1 .. Len(Candidates(r)) : Candidates(r)[i] \in Dir
  BY CandidatesType DEF DirectoryInv, TypeOK
<1>3. ASSUME NEW i \in 1 .. Len(Candidates(r)), i < at[r] \/ pc[r] = "nodir"
      PROVE  PassedBy(r, Candidates(r)[i])'
  <2>1. PassedBy(r, Candidates(r)[i])
    BY <1>3 DEF DirectoryInv, WalkedPast
  <2>2. Candidates(r)[i] \in Dir /\ UserOf[r] \in User
    BY <1>2
  <2>3. Barred(UserOf[r], Candidates(r)[i]) => Barred(UserOf[r], Candidates(r)[i])'
    BY <2>2, BarredStays, <1>1
  <2> QED
    BY <2>1, <2>3, <1>1 DEF PassedBy
<1>4. ASSUME pc[r] \in Found PROVE Writable(UserOf[r], Candidate(r))'
  <2>1. Candidate(r) \in Dir /\ UserOf[r] \in User
    BY <1>2 DEF Candidate, DirectoryInv, TypeOK
  <2>2. Candidate(r)' = Candidate(r)
    BY <1>1 DEF Candidate
  <2>3. Writable(UserOf[r], Candidate(r))
    BY <1>4 DEF DirectoryInv, FoundWritable
  <2> QED
    BY <2>1, <2>2, <2>3, WritableStays
<1> QED
  BY <1>1, <1>3, <1>4

(* What is left to show of a step of run r: r itself, and O_EXCL.          *)
LEMMA StepKeeps ==
    ASSUME DirectoryInv, Grows, UNCHANGED lock_dir, NEW r \in Run,
           \A q \in Run \ {r} : pc'[q] = pc[q] /\ at'[q] = at[q] /\ lost'[q] = lost[q],
           \A i \in 1 .. Len(Candidates(r)) :
                i < at'[r] \/ pc'[r] = "nodir" => PassedBy(r, Candidates(r)[i])',
           pc'[r] \in Found => Writable(UserOf[r], Candidate(r))',
           pc'[r] = "held" =>
                \A q \in Run \ {r} : pc[q] = "held" => Candidate(q) # Candidate(r)'
    PROVE  WalkedPast' /\ FoundWritable' /\ OnePerDirectory'
<1>1. \A q \in Run : Candidates(q)' = Candidates(q)
  BY SameCandidates
<1>2. \A q \in Run \ {r} : Candidate(q)' = Candidate(q)
  BY <1>1 DEF Candidate
<1>3. WalkedPast'
  <2> SUFFICES ASSUME NEW q \in Run, NEW i \in 1 .. Len(Candidates(q)'),
                      i < at'[q] \/ pc'[q] = "nodir"
               PROVE  PassedBy(q, Candidates(q)[i])'
    BY DEF WalkedPast
  <2> QED
    BY <1>1, GrowthKeeps
<1>4. FoundWritable'
  BY GrowthKeeps DEF FoundWritable
<1>5. OnePerDirectory'
  <2> SUFFICES ASSUME NEW p \in Run, NEW q \in Run, p # q, pc'[p] = "held", pc'[q] = "held"
               PROVE  Candidate(p)' # Candidate(q)'
    BY DEF OnePerDirectory
  <2>1. CASE p = r
    BY <2>1, <1>2
  <2>2. CASE q = r
    BY <2>2, <1>2
  <2>3. CASE p # r /\ q # r
    BY <2>3, <1>2 DEF DirectoryInv, OnePerDirectory
  <2> QED
    BY <2>1, <2>2, <2>3
<1> QED
  BY <1>3, <1>4, <1>5

LEMMA InitInv == Init => DirectoryInv
<1> SUFFICES ASSUME Init PROVE DirectoryInv
  OBVIOUS
<1>1. \A r \in Run : Len(Candidates(r)) \in Nat \ {0}
  BY CandidatesType DEF Init
<1>2. TypeOK
  BY <1>1 DEF Init, TypeOK, Label
<1>3. \A r \in Run : pc[r] = "idle" /\ at[r] = 1
  BY DEF Init
<1> QED
  BY <1>2, <1>3, <1>1 DEF DirectoryInv, WalkedPast, FoundWritable, OnePerDirectory, Found

(* Steps that neither make a directory nor go on to another candidate.     *)
LEMMA StartStep ==
    ASSUME DirectoryInv, NEW r \in Run, Start(r)
    PROVE  DirectoryInv'
<1>1. /\ pc[r] = "idle" /\ pc \in [Run -> Label]
      /\ pc' = [pc EXCEPT ![r] = "access"]
      /\ UNCHANGED <<dirs, lock_dir, at, lost>>
  BY DEF Start, DirectoryInv, TypeOK
<1>2. Grows
  BY <1>1 DEF Grows
<1>3. Candidates(r)' = Candidates(r)
  BY <1>1, SameCandidates
<1>4. TypeOK'
  <2>1. \A q \in Run : Candidates(q)' = Candidates(q)
    BY <1>1, SameCandidates
  <2> QED
    BY <1>1, <2>1 DEF DirectoryInv, TypeOK, Label
<1>5. \A i \in 1 .. Len(Candidates(r)) : i < at[r] => PassedBy(r, Candidates(r)[i])'
  BY <1>1, <1>3 DEF DirectoryInv, WalkedPast, PassedBy, Barred, Writable
<1>6. pc'[r] = "access" /\ \A q \in Run \ {r} : pc'[q] = pc[q]
  BY <1>1
<1>7. WalkedPast' /\ FoundWritable' /\ OnePerDirectory'
  BY <1>1, <1>2, <1>5, <1>6, StepKeeps DEF Found
<1> QED
  BY <1>4, <1>7 DEF DirectoryInv

LEMMA MakeStep ==
    ASSUME DirectoryInv, NEW r \in Run, Make(r)
    PROVE  DirectoryInv'
<1> DEFINE d == Candidate(r)
<1>1. /\ pc[r] = "mkdir" /\ pc \in [Run -> Label]
      /\ pc' = [pc EXCEPT ![r] = "found"]
      /\ UNCHANGED <<lock_dir, at, lost>>
      /\ dirs[d] = Missing /\ UserOf[r] \in Creators[d]
      /\ dirs' = [dirs EXCEPT ![d] = UserOf[r]]
      /\ dirs \in [Dir -> User \cup {Missing, Everyone}]
  BY DEF Make, DirectoryInv, TypeOK
<1>2. \A q \in Run : Candidates(q)' = Candidates(q)
  BY <1>1, SameCandidates
<1>3. d \in Dir
  BY CandidatesType DEF DirectoryInv, TypeOK, Candidate
<1>4. d' = d
  BY <1>1, <1>2 DEF Candidate
<1>5. Grows
  BY <1>1, <1>3 DEF Grows
<1>6. TypeOK'
  BY <1>1, <1>2 DEF DirectoryInv, TypeOK, Label
<1>7. ASSUME NEW i \in 1 .. Len(Candidates(r)), i < at[r]
      PROVE  PassedBy(r, Candidates(r)[i])'
  <2>1. PassedBy(r, Candidates(r)[i]) /\ Candidates(r)[i] \in Dir
    BY <1>7, CandidatesType DEF DirectoryInv, WalkedPast, TypeOK
  <2>2. Barred(UserOf[r], Candidates(r)[i]) => Barred(UserOf[r], Candidates(r)[i])'
    BY <2>1, <1>5, <1>2, BarredStays
  <2> QED
    BY <2>1, <2>2, <1>1, <1>2 DEF PassedBy
<1>8. Writable(UserOf[r], d)'
  BY <1>1, <1>3, <1>4 DEF Writable
<1>9. pc'[r] = "found" /\ \A q \in Run \ {r} : pc'[q] = pc[q]
  BY <1>1
<1>10. WalkedPast' /\ FoundWritable' /\ OnePerDirectory'
  BY <1>1, <1>5, <1>7, <1>8, <1>9, StepKeeps
<1> QED
  BY <1>6, <1>10 DEF DirectoryInv

(* To pass on from a candidate of no use is a step like any other.         *)
LEMMA PassOnStep ==
    ASSUME DirectoryInv, NEW r \in Run, PassOn(r),
           UNCHANGED <<dirs, lock_dir>>,
           lost' \in [Run -> SUBSET Dir], lost[r] \subseteq lost'[r],
           \A q \in Run \ {r} : lost'[q] = lost[q],
           Candidate(r) \in lost'[r] \/ Barred(UserOf[r], Candidate(r))
    PROVE  DirectoryInv'
<1>1. \A q \in Run : Candidates(q)' = Candidates(q)
  BY SameCandidates
<1>2. /\ pc' \in [Run -> Label] /\ at' \in [Run -> Nat]
      /\ at'[r] \in 1 .. Len(Candidates(r))
      /\ \A q \in Run \ {r} : pc'[q] = pc[q] /\ at'[q] = at[q]
      /\ pc'[r] \notin Found
      /\ \A i \in 1 .. Len(Candidates(r)) :
            i < at'[r] \/ pc'[r] = "nodir" => i <= at[r]
  BY PassOnType DEF DirectoryInv
<1>3. TypeOK'
  <2>1. \A q \in Run : at'[q] \in 1 .. Len(Candidates(q)')
    BY <1>1, <1>2 DEF DirectoryInv, TypeOK
  <2> QED
    BY <1>2, <2>1 DEF DirectoryInv, TypeOK
<1>4. Grows
  BY DEF Grows
<1>5. ASSUME NEW i \in 1 .. Len(Candidates(r)), i < at'[r] \/ pc'[r] = "nodir"
      PROVE  PassedBy(r, Candidates(r)[i])'
  <2>1. i <= at[r] /\ i \in Nat /\ at[r] \in Nat
    BY <1>2, <1>5 DEF DirectoryInv, TypeOK
  <2>2. CASE i = at[r]
    BY <2>2, <1>1 DEF Candidate, PassedBy, Barred, Writable
  <2>3. CASE i < at[r]
    BY <2>3, <1>1 DEF DirectoryInv, WalkedPast, PassedBy, Barred, Writable
  <2> QED
    BY <2>1, <2>2, <2>3
<1>6. pc'[r] # "held"
  BY <1>2 DEF Found
<1>7. WalkedPast' /\ FoundWritable' /\ OnePerDirectory'
  BY <1>2, <1>4, <1>5, <1>6, StepKeeps
<1> QED
  BY <1>3, <1>7 DEF DirectoryInv

LEMMA MakeFailsStep ==
    ASSUME DirectoryInv, NEW r \in Run, MakeFails(r)
    PROVE  DirectoryInv'
<1> DEFINE d == Candidate(r)
<1>1. /\ dirs[d] # Missing \/ UserOf[r] \notin Creators[d]
      /\ lost' = [lost EXCEPT ![r] = IF dirs[d] # Missing THEN @ \cup {d} ELSE @]
      /\ PassOn(r)
      /\ UNCHANGED <<dirs, lock_dir>>
      /\ lost \in [Run -> SUBSET Dir]
  BY DEF MakeFails, DirectoryInv, TypeOK
<1>2. d \in Dir
  BY CandidatesType DEF DirectoryInv, TypeOK, Candidate
<1>3. d \in lost'[r] \/ Barred(UserOf[r], d)
  <2>1. CASE dirs[d] # Missing
    BY <2>1, <1>1
  <2>2. CASE dirs[d] = Missing
    <3>1. UserOf[r] \in User /\ UserOf[r] \notin Creators[d]
      BY <2>2, <1>1
    <3> QED
      BY <2>2, <3>1 DEF Barred, Writable, Missing, Everyone
  <2> QED
    BY <2>1, <2>2
<1>4. /\ lost' \in [Run -> SUBSET Dir] /\ lost[r] \subseteq lost'[r]
      /\ \A q \in Run \ {r} : lost'[q] = lost[q]
  <2> HIDE DEF d
  <2> QED
    BY <1>1, <1>2
<1> QED
  BY <1>1, <1>3, <1>4, PassOnStep

LEMMA AccessStep ==
    ASSUME DirectoryInv, NEW r \in Run, Access(r)
    PROVE  DirectoryInv'
<1> DEFINE d == Candidate(r)
<1>1. /\ pc[r] = "access" /\ pc \in [Run -> Label] /\ lost \in [Run -> SUBSET Dir]
      /\ UNCHANGED <<dirs, lock_dir, lost>>
  BY DEF Access, DirectoryInv, TypeOK
<1>2. \/ Writable(UserOf[r], d) /\ pc' = [pc EXCEPT ![r] = "found"] /\ UNCHANGED at
      \/ dirs[d] = Missing /\ pc' = [pc EXCEPT ![r] = "mkdir"] /\ UNCHANGED at
      \/ ~ Writable(UserOf[r], d) /\ dirs[d] # Missing /\ PassOn(r)
  BY DEF Access
<1>3. CASE ~ Writable(UserOf[r], d) /\ dirs[d] # Missing /\ PassOn(r)
  <2>1. Barred(UserOf[r], d)
    BY <1>3 DEF Barred
  <2> QED
    BY <1>1, <1>3, <2>1, PassOnStep
<1>4. ASSUME UNCHANGED at, NEW l \in {"found", "mkdir"}, pc' = [pc EXCEPT ![r] = l],
             l = "found" => Writable(UserOf[r], d)
      PROVE  DirectoryInv'
  <2>1. \A q \in Run : Candidates(q)' = Candidates(q)
    BY <1>1, SameCandidates
  <2>2. Grows
    BY <1>1 DEF Grows
  <2>3. TypeOK'
    BY <1>1, <1>4, <2>1 DEF DirectoryInv, TypeOK, Label
  <2>4. pc'[r] = l /\ \A q \in Run \ {r} : pc'[q] = pc[q]
    BY <1>1, <1>4
  <2>5. \A i \in 1 .. Len(Candidates(r)) : i < at[r] => PassedBy(r, Candidates(r)[i])'
    BY <1>1, <2>1 DEF DirectoryInv, WalkedPast, PassedBy, Barred, Writable
  <2>6. l = "found" => Writable(UserOf[r], Candidate(r))'
    BY <1>1, <1>4, <2>1 DEF Writable, Candidate
  <2>7. pc'[r] # "nodir" /\ pc'[r] # "held" /\ (pc'[r] \in Found => l = "found")
    BY <2>4 DEF Found
  <2>8. WalkedPast' /\ FoundWritable' /\ OnePerDirectory'
    BY <1>1, <1>4, <2>2, <2>4, <2>5, <2>6, <2>7, StepKeeps
  <2> QED
    BY <2>3, <2>8 DEF DirectoryInv
<1> QED
  BY <1>2, <1>3, <1>4

LEMMA AcquireStep ==
    ASSUME DirectoryInv, NEW r \in Run, Acquire(r)
    PROVE  DirectoryInv'
<1>1. /\ pc[r] = "found" /\ pc \in [Run -> Label]
      /\ \A q \in Run : pc[q] = "held" => Candidate(q) # Candidate(r)
      /\ pc' = [pc EXCEPT ![r] = "held"]
      /\ UNCHANGED <<dirs, lock_dir, at, lost>>
  BY DEF Acquire, DirectoryInv, TypeOK
<1>2. \A q \in Run : Candidates(q)' = Candidates(q) /\ Candidate(q)' = Candidate(q)
  BY <1>1, SameCandidates DEF Candidate
<1>3. Grows
  BY <1>1 DEF Grows
<1>4. TypeOK'
  BY <1>1, <1>2 DEF DirectoryInv, TypeOK, Label
<1>5. pc'[r] = "held" /\ \A q \in Run \ {r} : pc'[q] = pc[q]
  BY <1>1
<1>6. \A i \in 1 .. Len(Candidates(r)) : i < at[r] => PassedBy(r, Candidates(r)[i])'
  BY <1>1, <1>2 DEF DirectoryInv, WalkedPast, PassedBy, Barred, Writable
<1>7. Writable(UserOf[r], Candidate(r))'
  BY <1>1, <1>2 DEF DirectoryInv, FoundWritable, Found, Writable
<1>8. WalkedPast' /\ FoundWritable' /\ OnePerDirectory'
  BY <1>1, <1>2, <1>3, <1>5, <1>6, <1>7, StepKeeps
<1> QED
  BY <1>4, <1>8 DEF DirectoryInv

LEMMA ReleaseStep ==
    ASSUME DirectoryInv, NEW r \in Run, Release(r)
    PROVE  DirectoryInv'
<1>1. /\ pc[r] = "held" /\ pc \in [Run -> Label]
      /\ pc' = [pc EXCEPT ![r] = "ended"]
      /\ UNCHANGED <<dirs, lock_dir, at, lost>>
  BY DEF Release, DirectoryInv, TypeOK
<1>2. \A q \in Run : Candidates(q)' = Candidates(q) /\ Candidate(q)' = Candidate(q)
  BY <1>1, SameCandidates DEF Candidate
<1>3. Grows
  BY <1>1 DEF Grows
<1>4. TypeOK'
  BY <1>1, <1>2 DEF DirectoryInv, TypeOK, Label
<1>5. pc'[r] = "ended" /\ \A q \in Run \ {r} : pc'[q] = pc[q]
  BY <1>1
<1>6. \A i \in 1 .. Len(Candidates(r)) : i < at[r] => PassedBy(r, Candidates(r)[i])'
  BY <1>1, <1>2 DEF DirectoryInv, WalkedPast, PassedBy, Barred, Writable
<1>7. Writable(UserOf[r], Candidate(r))'
  BY <1>1, <1>2 DEF DirectoryInv, FoundWritable, Found, Writable
<1>8. WalkedPast' /\ FoundWritable' /\ OnePerDirectory'
  BY <1>1, <1>2, <1>3, <1>5, <1>6, <1>7, StepKeeps
<1> QED
  BY <1>4, <1>8 DEF DirectoryInv

LEMMA Stuttering ==
    ASSUME DirectoryInv, UNCHANGED vars
    PROVE  DirectoryInv'
<1>1. UNCHANGED <<dirs, lock_dir, pc, at, lost>>
  BY DEF vars
<1>2. \A q \in Run : Candidates(q)' = Candidates(q) /\ Candidate(q)' = Candidate(q)
  BY <1>1, SameCandidates DEF Candidate
<1>3. TypeOK'
  BY <1>1, <1>2 DEF DirectoryInv, TypeOK
<1>4. WalkedPast'
  BY <1>1, <1>2 DEF DirectoryInv, WalkedPast, PassedBy, Barred, Writable
<1>5. FoundWritable' /\ OnePerDirectory'
  BY <1>1, <1>2 DEF DirectoryInv, FoundWritable, OnePerDirectory, Writable
<1> QED
  BY <1>3, <1>4, <1>5 DEF DirectoryInv

(* The invariant from which everything below follows.                      *)
THEOREM DirectoryInvariant == Spec => []DirectoryInv
<1>1. DirectoryInv /\ [Next]_vars => DirectoryInv'
  <2> SUFFICES ASSUME DirectoryInv, [Next]_vars PROVE DirectoryInv'
    OBVIOUS
  <2>1. ASSUME NEW r \in Run,
               Start(r) \/ Access(r) \/ Make(r) \/ MakeFails(r) \/ Acquire(r) \/ Release(r)
        PROVE  DirectoryInv'
    BY <2>1, StartStep, AccessStep, MakeStep, MakeFailsStep, AcquireStep, ReleaseStep
  <2>2. CASE UNCHANGED vars
    BY <2>2, Stuttering
  <2> QED
    BY <2>1, <2>2 DEF Next, Finished
<1> QED
  BY <1>1, InitInv, PTL DEF Spec

(* The state keeps its type; a run never looks beyond its candidates.      *)
THEOREM TypesKept == Spec => []TypeOK
BY DirectoryInvariant, PTL DEF DirectoryInv

(* E_NODIR is answered with a reason for every candidate (lock.c:75).      *)
THEOREM NoDirHasReasons == Spec => []NoDirForAReason
<1>1. DirectoryInv => NoDirForAReason
  BY DEF DirectoryInv, WalkedPast, NoDirForAReason, PassedBy, Barred
<1> QED
  BY <1>1, DirectoryInvariant, PTL

(* Users share no directory that was not made for everyone (0755).         *)
THEOREM UsersKeptApart == Spec => []UsersApart
<1>1. DirectoryInv => UsersApart
  <2> SUFFICES ASSUME DirectoryInv, NEW r \in Run, NEW q \in Run,
                      pc[r] \in Found, pc[q] \in Found, Candidate(r) = Candidate(q),
                      UserOf[r] # UserOf[q], Root \notin {UserOf[r], UserOf[q]}
               PROVE  dirs[Candidate(r)] = Everyone
    BY DEF UsersApart
  <2>1. Writable(UserOf[r], Candidate(r)) /\ Writable(UserOf[q], Candidate(r))
    BY DEF DirectoryInv, FoundWritable
  <2> QED
    BY <2>1 DEF Writable
<1> QED
  BY <1>1, DirectoryInvariant, PTL

(* Two runs that search alike and lost no race of mkdir find the same      *)
(* directory, or none: what one stays with, the other cannot have passed.  *)
THEOREM OneHolderWithoutRace == Spec => []OneHolderUnlessRaced
<1>1. ASSUME DirectoryInv, NEW r \in Run, NEW q \in Run, SameSearch(r, q), lost[q] = {},
             pc[r] = "held", pc[q] = "held"
      PROVE  ~ (at[r] < at[q])
  <2> SUFFICES ASSUME at[r] < at[q] PROVE FALSE
    OBVIOUS
  <2>1. at[r] \in 1 .. Len(Candidates(q)) /\ Candidates(q)[at[r]] = Candidate(r)
    BY <1>1 DEF SameSearch, DirectoryInv, TypeOK, Candidate
  <2>2. PassedBy(q, Candidate(r))
    BY <1>1, <2>1 DEF DirectoryInv, WalkedPast
  <2>3. Writable(UserOf[q], Candidate(r))
    BY <1>1 DEF DirectoryInv, FoundWritable, Found, SameSearch
  <2> QED
    BY <1>1, <2>2, <2>3 DEF PassedBy, Barred
<1>2. DirectoryInv => OneHolderUnlessRaced
  <2> SUFFICES ASSUME DirectoryInv, NEW r \in Run, NEW q \in Run, r # q, SameSearch(r, q),
                      lost[r] = {}, lost[q] = {}, pc[r] = "held", pc[q] = "held"
               PROVE  FALSE
    BY DEF OneHolderUnlessRaced
  <2>1. at[r] \in Nat /\ at[q] \in Nat
    BY DEF DirectoryInv, TypeOK
  <2>2. ~ (at[r] < at[q]) /\ ~ (at[q] < at[r])
    BY <1>1 DEF SameSearch
  <2>3. Candidate(r) = Candidate(q)
    BY <2>1, <2>2 DEF Candidate, SameSearch
  <2> QED
    BY <2>3 DEF DirectoryInv, OnePerDirectory
<1> QED
  BY <1>2, DirectoryInvariant, PTL
=============================================================================
