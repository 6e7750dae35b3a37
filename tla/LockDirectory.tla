---------------------------- MODULE LockDirectory ----------------------------
(***************************************************************************)
(* How runs of several users come by their lock directory, and what that   *)
(* means for a mutex they all ask for: find_lock_directory looks at one    *)
(* candidate after the other, with access() and mkdir() as two steps, and  *)
(* runs exclude each other only within a directory.                        *)
(***************************************************************************)
EXTENDS Integers, Sequences

CONSTANTS
    Run, User,
    UserOf,     \* the user of each run
    Root,       \* a user whom no permission stops
    Dir,        \* the directories that may become a lock directory
    NoDir,      \* HOME is not set, --lock-dir is not given
    Standard,   \* the fixed candidates, in their order
    Home,       \* $HOME/.waitlock of each user
    Cwd,        \* ./waitlock of each run
    Given,      \* the values of --lock-dir and WAITLOCK_DIR in use
    Creators,   \* who may create each directory: whoever may write to its parent
    Before      \* what each directory may be before the first run

Missing  == "missing"
Everyone == "everyone"  \* made by an administrator for all users to write to

ASSUME UserAssumption == UserOf \in [Run -> User] /\ User \cap {Missing, Everyone} = {}
ASSUME DirAssumption ==
    /\ NoDir \notin Dir
    /\ Standard \in Seq(Dir)
    /\ Home \in [User -> Dir \cup {NoDir}]
    /\ Cwd \in [Run -> Dir]
    /\ Given \subseteq Dir \cup {NoDir}
    /\ Before \subseteq [Dir -> User \cup {Missing, Everyone}]
ASSUME CreatorsAssumption ==
    /\ Creators \in [Dir -> SUBSET User]
    /\ \A d \in Dir : Root \in User /\ Creators[d] # {} => Root \in Creators[d]

VARIABLES
    dirs,      \* who may write to each directory
    lock_dir,  \* opts.lock_dir of each run
    pc,        \* where each run is
    at,        \* the candidate it is looking at
    lost       \* history: the candidates another run created before its mkdir

vars == <<dirs, lock_dir, pc, at, lost>>

Optional(d) == IF d = NoDir THEN <<>> ELSE <<d>>

(* A directory that is asked for is the only candidate. *)
Candidates(r) ==
    IF lock_dir[r] # NoDir THEN <<lock_dir[r]>>
    ELSE Standard \o Optional(Home[UserOf[r]]) \o <<Cwd[r]>>

Candidate(r) == Candidates(r)[at[r]]

Label == {"idle", "access", "mkdir", "found", "held", "ended", "nodir"}
Found == {"found", "held", "ended"}

TypeOK ==
    /\ dirs \in [Dir -> User \cup {Missing, Everyone}]
    /\ lock_dir \in [Run -> Given]
    /\ pc \in [Run -> Label]
    /\ at \in [Run -> Nat] /\ \A r \in Run : at[r] \in 1 .. Len(Candidates(r))
    /\ lost \in [Run -> SUBSET Dir]

Init ==
    /\ dirs \in Before
    /\ lock_dir \in [Run -> Given]
    /\ pc = [r \in Run |-> "idle"]
    /\ at = [r \in Run |-> 1]
    /\ lost = [r \in Run |-> {}]

(* Mutant: access(path, F_OK). *)
Exists(u, d) == dirs[d] # Missing

(* access(path, W_OK) == 0; what a run creates has mode 0755. *)
Writable(u, d) == dirs[d] \in {u, Everyone} \/ (u = Root /\ dirs[d] # Missing)

Start(r) ==
    /\ pc[r] = "idle"
    /\ pc' = [pc EXCEPT ![r] = "access"]
    /\ UNCHANGED <<dirs, lock_dir, at, lost>>

(* Mutant: the last candidate is never reached. *)
PassOnShort(r) ==
    IF at[r] + 1 < Len(Candidates(r))
    THEN at' = [at EXCEPT ![r] = @ + 1] /\ pc' = [pc EXCEPT ![r] = "access"]
    ELSE pc' = [pc EXCEPT ![r] = "nodir"] /\ UNCHANGED at

(* Mutant: the last candidate is passed over without an end to the walk. *)
PassOnBeyond(r) == at' = [at EXCEPT ![r] = @ + 1] /\ pc' = [pc EXCEPT ![r] = "access"]

(* The next candidate, or none is left: E_NODIR. *)
PassOn(r) ==
    IF at[r] < Len(Candidates(r))
    THEN at' = [at EXCEPT ![r] = @ + 1] /\ pc' = [pc EXCEPT ![r] = "access"]
    ELSE pc' = [pc EXCEPT ![r] = "nodir"] /\ UNCHANGED at

(* Only ENOENT leads to mkdir: what exists and is not ours is passed by. *)
Access(r) ==
    LET d == Candidate(r)
    IN  /\ pc[r] = "access"
        /\ CASE Writable(UserOf[r], d) -> pc' = [pc EXCEPT ![r] = "found"] /\ UNCHANGED at
             [] dirs[d] = Missing      -> pc' = [pc EXCEPT ![r] = "mkdir"] /\ UNCHANGED at
             [] OTHER                  -> PassOn(r)
        /\ UNCHANGED <<dirs, lock_dir, lost>>

(* Mutant: the directory that was made is not used. *)
MakeGoesOn(r) ==
    LET d == Candidate(r)
    IN  /\ pc[r] = "mkdir"
        /\ dirs[d] = Missing /\ UserOf[r] \in Creators[d]
        /\ dirs' = [dirs EXCEPT ![d] = UserOf[r]]
        /\ PassOn(r)
        /\ UNCHANGED <<lock_dir, lost>>

Make(r) ==
    LET d == Candidate(r)
    IN  /\ pc[r] = "mkdir"
        /\ dirs[d] = Missing /\ UserOf[r] \in Creators[d]
        /\ dirs' = [dirs EXCEPT ![d] = UserOf[r]]
        /\ pc' = [pc EXCEPT ![r] = "found"]
        /\ UNCHANGED <<lock_dir, at, lost>>

(* The parent is not there or not ours, or somebody else has just made the *)
(* directory: EEXIST is an error like any other, and there is no second    *)
(* access().                                                               *)
MakeFails(r) ==
    LET d == Candidate(r)
    IN  /\ pc[r] = "mkdir"
        /\ dirs[d] # Missing \/ UserOf[r] \notin Creators[d]
        /\ lost' = [lost EXCEPT ![r] = IF dirs[d] # Missing THEN @ \cup {d} ELSE @]
        /\ PassOn(r)
        /\ UNCHANGED <<dirs, lock_dir>>

(* O_CREAT | O_EXCL, in the directory that was found. *)
Acquire(r) ==
    /\ pc[r] = "found"
    /\ \A q \in Run : pc[q] = "held" => Candidate(q) # Candidate(r)
    /\ pc' = [pc EXCEPT ![r] = "held"]
    /\ UNCHANGED <<dirs, lock_dir, at, lost>>

Release(r) ==
    /\ pc[r] = "held"
    /\ pc' = [pc EXCEPT ![r] = "ended"]
    /\ UNCHANGED <<dirs, lock_dir, at, lost>>

Finished == (\A r \in Run : pc[r] \in {"ended", "nodir"}) /\ UNCHANGED vars

Next ==
    \/ \E r \in Run : \/ Start(r) \/ Access(r) \/ Make(r) \/ MakeFails(r)
                      \/ Acquire(r) \/ Release(r)
    \/ Finished

Spec == Init /\ [][Next]_vars

-----------------------------------------------------------------------------
SameSearch(r, q) == UserOf[r] = UserOf[q] /\ Candidates(r) = Candidates(q)

(* README.md:11, "Single lock holder": runs of one user that are called    *)
(* alike exclude each other (lock.c:25-29, 38-42, 52-56, 64-68).                       *)
OneHolder ==
    \A r, q \in Run : r # q /\ SameSearch(r, q) => ~ (pc[r] = "held" /\ pc[q] = "held")

(* ... they do, however many directories come into being and whoever makes *)
(* them, unless one of the two lost the race of mkdir on the way.          *)
OneHolderUnlessRaced ==
    \A r, q \in Run : r # q /\ SameSearch(r, q) /\ lost[r] = {} /\ lost[q] = {}
                        => ~ (pc[r] = "held" /\ pc[q] = "held")

(* Two users other than root share a directory, and with it their locks,   *)
(* only where an administrator made it for everyone: the 0755 of           *)
(* lock.c:29, 42, 56, 68 keeps all others apart.                           *)
UsersApart ==
    \A r, q \in Run :
        /\ pc[r] \in Found /\ pc[q] \in Found /\ Candidate(r) = Candidate(q)
        /\ UserOf[r] # UserOf[q] /\ Root \notin {UserOf[r], UserOf[q]}
        => dirs[Candidate(r)] = Everyone

(* A run answers E_NODIR only if each of its candidates is beyond its      *)
(* reach, or was created under its hands (lock.c:24-34, 37-73): it does so *)
(* with --lock-dir even if that directory is its own by then.              *)
NoDirForAReason ==
    \A r \in Run : pc[r] = "nodir" =>
        \A i \in 1 .. Len(Candidates(r)) :
            LET d == Candidates(r)[i]
            IN  \/ d \in lost[r]
                \/ ~ Writable(UserOf[r], d) /\ (dirs[d] = Missing => UserOf[r] \notin Creators[d])
=============================================================================
