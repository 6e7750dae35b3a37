----------------------------- MODULE MCLockTools -----------------------------
(***************************************************************************)
(* Small instances of LockTools for TLC: three runs, the third with the    *)
(* process id of the first, so that it can be born only when the first is  *)
(* gone, on descriptors one of which continues the other after a dot, just *)
(* as the name of a lock file does.                                        *)
(***************************************************************************)
EXTENDS LockTools

CONSTANTS p1, p2, p3

DB     == <<"db">>
DBSlot == <<"db", ".", "slot", "0">>

Names       == {DB, DBSlot}
ReusedPid   == [p \in Run |-> IF p = p3 THEN p1 ELSE p]
OneHostOnly == [p \in Run |-> "here"]

CommandLine(mode, desc, timeout) ==
    [mode |-> mode, desc |-> desc, max |-> MaxHolders, timeout |-> timeout]

CommandLines ==
    [mode : {"hold", "exec"}, desc : Names, max : {MaxHolders}, timeout : {"none", "zero"}]

Trio(first, second, third) ==
    [p \in Run |-> CASE p = p1 -> first [] p = p2 -> second [] p = p3 -> third]

(* Two holders at once, of one descriptor or of two; then a third run that *)
(* has the number of the first, and takes the lock itself or is busy.      *)
Together ==
    {Trio(CommandLine("hold", DB, "none"), CommandLine("exec", DB, "none"),
          CommandLine("hold", DB, "zero")),
     Trio(CommandLine("exec", DB, "none"), CommandLine("hold", DBSlot, "none"),
          CommandLine("hold", DB, "zero")),
     Trio(CommandLine("exec", DB, "none"), CommandLine("hold", DBSlot, "zero"),
          CommandLine("hold", DB, "none"))}

AllTools ==
    [kind : {"done"}, desc : Names, set : {{}}]
    \cup [kind : {"check"}, desc : {DB}, set : {{}}]
    \cup [kind : {"list"}, desc : {DB}, set : {{}, {"--all"}, {"--all", "--stale-only"}}]
=============================================================================
