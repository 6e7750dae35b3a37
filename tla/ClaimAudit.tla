----------------------------- MODULE ClaimAudit ------------------------------
(***************************************************************************)
(* WaitLock with one history variable.  acquire_lock examines a lock file  *)
(* in three steps (read the record, look for the process, unlink the       *)
(* name), and a file may be created under the same name between any two of *)
(* them.  clean[p] remembers whether the name was quiet when run p last    *)
(* created a file: no other run was between reading it and unlinking it,   *)
(* or still held it.  It does not constrain the runs in any way.           *)
(***************************************************************************)
EXTENDS WaitLock

VARIABLE clean

auditVars == <<vars, clean>>

(* Run q has read a record at x that it may yet unlink, or believes it     *)
(* owns x.                                                                 *)
Armed(q, x) == at[q] = x /\ pc[q] \in {"exists", "reap"} \cup Claimed

Quiet(p) == \A q \in Run \ {p} : ~ Armed(q, at[p])

AuditInit == Init /\ clean = [p \in Run |-> FALSE]

AuditNext ==
    /\ Next
    /\ clean' = [p \in Run |-> IF pc[p] = "claim" /\ pc'[p] = "write"
                                 THEN Quiet(p)
                                 ELSE clean[p]]

AuditSpec == AuditInit /\ [][AuditNext]_auditVars

-----------------------------------------------------------------------------
(* A run that created its lock file under a quiet name keeps that file in  *)
(* the directory until it removes it itself or dies, whatever other runs   *)
(* scan, reap, fail or release meanwhile (lock.c:176-228, 390).            *)
CleanClaimKept ==
    \A p \in Run : clean[p] /\ pc[p] \in Claimed => NewFile(p) \in files

(* ... and it is alone: no other live run believes it owns the same slot,  *)
(* so a slot can have two holders only when the later of them claimed it   *)
(* inside another run's window between reading and unlinking.              *)
CleanRunIsAlone ==
    \A p, q \in Run :
        /\ p # q
        /\ clean[p] /\ pc[p] \in Claimed
        /\ pc[q] \in Claimed
        => at[p] # at[q]

(* Counting only the holders whose claim was clean, the runs implement the *)
(* semaphore whatever the number of runs, deaths and failed writes: what   *)
(* may break it is a claim inside another run's window, and nothing else.  *)
CleanHolders(d) == {p \in Holders(d) : clean[p]}

CleanSem == INSTANCE Semaphore WITH
    Process <- Run, Name <- Desc, Limit <- MaxHolders,
    holders <- [d \in Desc |-> CleanHolders(d)]

ImplementsCleanSemaphore == CleanSem!Spec
=============================================================================
