----------------------------- MODULE MCWaitLock ------------------------------
(***************************************************************************)
(* Small instances of WaitLock for TLC.                                    *)
(***************************************************************************)
EXTENDS WaitLock

OneDesc    == {<<"db">>}
PrefixDesc == {<<"db">>, <<"db", "_old">>}

OwnPid      == [p \in Run |-> p]
OneHostOnly == [p \in Run |-> "here"]

CommandLines(modes, maxes, timeouts) ==
    [mode : modes, desc : Desc, max : maxes, timeout : timeouts]

Anything == CommandLines({"hold", "exec"}, 1 .. MaxHolders, {"none", "zero", "some"})
Execs    == CommandLines({"exec"}, {MaxHolders}, {"none", "some"})
ExecSome == CommandLines({"exec"}, {MaxHolders}, {"some"})
HoldNone == CommandLines({"hold"}, {MaxHolders}, {"none"})

(* Where a run that is killed leaves nothing behind. *)
BeforeTheClaim == Acquiring \ {"write", "undo"}

Symmetry == Permutations(Run)
=============================================================================
