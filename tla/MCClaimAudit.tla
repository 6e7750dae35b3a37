---------------------------- MODULE MCClaimAudit -----------------------------
(***************************************************************************)
(* Small instances of ClaimAudit for TLC.                                  *)
(***************************************************************************)
EXTENDS ClaimAudit

OneDesc == {<<"db">>}

OwnPid      == [p \in Run |-> p]
OneHostOnly == [p \in Run |-> "here"]

CommandLines(modes, maxes, timeouts) ==
    [mode : modes, desc : Desc, max : maxes, timeout : timeouts]

ExecSome == CommandLines({"exec"}, {MaxHolders}, {"some"})

Symmetry == Permutations(Run)
=============================================================================
