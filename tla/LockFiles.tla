------------------------------ MODULE LockFiles ------------------------------
(***************************************************************************)
(* What all runs of waitlock share: the lock directory and the way its     *)
(* entries are named, matched and read.                                    *)
(*                                                                         *)
(* A lock file is "<descriptor>.slot<n>.lock".  Descriptors are sequences  *)
(* of tokens, so that one may be a prefix of another or contain a dot; a   *)
(* path is the pair of a descriptor and a slot number.  The directory      *)
(* itself is a set of files.  A file is identified by its path, the run    *)
(* that created it and how many creations that run had made before: two    *)
(* files created at one path at different times are different files.       *)
(***************************************************************************)
EXTENDS Integers, Sequences, FiniteSets, SequencesExt

CONSTANTS
    Run,              \* the invocations of waitlock that take a lock
    Desc,             \* the descriptors in use, as sequences of tokens
    MaxHolders,       \* the largest -m in use
    MaxWriteFailures  \* bound: how often a run's write() of a record may fail

ASSUME DescAssumption == Desc \subseteq Seq(STRING)
ASSUME MaxHoldersAssumption == MaxHolders \in Nat \ {0}
ASSUME MaxWriteFailuresAssumption == MaxWriteFailures \in Nat

Path == [desc : Desc, slot : 0 .. MaxHolders - 1]

File == [path : Path, owner : Run, gen : 0 .. MaxWriteFailures]

EntryName(path) == path.desc \o <<".", "slot", ToString(path.slot), ".", "lock">>

(* strncmp(d_name, descriptor, strlen(descriptor)) == 0: a prefix is enough *)
AcquireMatches(desc) == {x \in Path : IsPrefix(desc, EntryName(x))}

(* The text before the first dot of the entry must be the descriptor. *)
CheckMatches(desc) ==
    {x \in Path : \E i \in 1 .. Len(EntryName(x)) :
        /\ EntryName(x)[i] = "."
        /\ \A j \in 1 .. i - 1 : EntryName(x)[j] # "."
        /\ SubSeq(EntryName(x), 1, i - 1) = desc}

(* The descriptor must be a prefix that is followed by a dot. *)
DoneMatches(desc) == {x \in Path : IsPrefix(desc \o <<".">>, EntryName(x))}

(* unlink(2) removes whatever file the name stands for at this moment. *)
Unlink(files, path) == {f \in files : f.path # path}

FilesAt(files, path) == {f \in files : f.path = path}

(* The files that read_lock_file_any_format and validate_lock_checksum     *)
(* accept: the whole record has been written.  An empty or partial file    *)
(* falls through to the text reader, which accepts it with checksum zero,  *)
(* and is then refused by the checksum.                                    *)
ValidAt(files, written, path) == FilesAt(files, path) \cap written
=============================================================================
