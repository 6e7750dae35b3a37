--------------------------- MODULE MCLockDirectory ---------------------------
(***************************************************************************)
(* Two users and root look for a directory: one candidate only root may    *)
(* create, one anybody may, their homes, and a working directory.          *)
(***************************************************************************)
EXTENDS LockDirectory

ThreeDirs == <<"run", "lock", "tmp">>

OwnHome   == [u \in User |-> IF u = "alice" THEN "home" ELSE NoDir]
OneCwd    == [r \in Run |-> "cwd"]

WhoRuns   == [r \in Run |-> IF r \in {"a1", "a2"} THEN "alice" ELSE IF r = "b" THEN "bob" ELSE "root"]

Makers ==
    [d \in Dir |-> CASE d = "run"  -> {"root"}
                     [] d = "lock" -> {}
                     [] d = "home" -> {"alice", "root"}
                     [] OTHER      -> User]

AnyBefore ==
    {b \in [Dir -> User \cup {Missing, Everyone}] :
        /\ b["home"] \in {Missing, "alice"} /\ b["cwd"] = Missing
        /\ b["run"] \in {Missing, "root", Everyone}
        /\ b["lock"] \in {Missing, Everyone}}
=============================================================================
