------------------------------ MODULE LockTools ------------------------------
(***************************************************************************)
(* The commands that look at other runs' locks, waitlock --check, --done   *)
(* and --list, working on the directory while runs take and release locks. *)
(* None takes part in any exclusion: they walk the directory one entry at  *)
(* a time; --check and --done unlink by name what they take for garbage,   *)
(* and --done sends SIGTERM to the process a record names.                 *)
(***************************************************************************)
EXTENDS WaitLock

CONSTANTS
    Tool,         \* invocations of the commands; each runs once
    ToolOptions,  \* their command lines
    Scripts       \* what command lines the runs may have together

ASSUME ToolOptionsAssumption ==
    ToolOptions \subseteq [kind : {"check", "done", "list"}, desc : Desc,
                            set : SUBSET {"--all", "--stale-only"}]

ASSUME ScriptsAssumption == Scripts \subseteq [Run -> Options]

VARIABLES
    cmd,     \* the command line of each tool
    tool,    \* its program counter and local variables
    steady,  \* history: the holders it looks for that have held all along
    hit,     \* history: the runs it has sent SIGTERM
    shown    \* history: the runs it has listed, as active or as stale

toolVars  == <<cmd, tool, steady, hit, shown>>
toolsVars == <<vars, toolVars>>

ToolLabel  == {"idle", "scan", "binary", "text", "exists", "kill", "recheck", "unlink", "done"}
ToolResult == {"none", "SUCCESS", "BUSY", "NOTFOUND", "SYSTEM"}

ToolTypeOK ==
    /\ TypeOK
    /\ cmd \in [Tool -> ToolOptions]
    /\ tool \in [Tool -> [pc : ToolLabel, todo : SUBSET Path, at : Path, seen : SUBSET Run,
                          active_locks : Nat, max_holders : 1 .. MaxHolders,
                          found_locks : Nat, released_locks : Nat, ret : ToolResult]]
    /\ \A t \in Tool : tool[t].released_locks <= tool[t].found_locks
    /\ steady \in [Tool -> SUBSET Run]
    /\ hit \in [Tool -> SUBSET Run]
    /\ shown \in [Tool -> SUBSET (Run \X {"active", "stale"})]

(* A run that holds the lock and whose own file is in the directory *)
Steadfast(r) == pc[r] = "held" /\ NewFile(r) \in files

ToolsInit ==
    /\ Init /\ opts \in Scripts
    /\ cmd \in [Tool -> ToolOptions]
    /\ tool = [t \in Tool |->
         [pc |-> "idle", todo |-> {}, at |-> CHOOSE x \in Path : TRUE, seen |-> {},
          active_locks |-> 0, max_holders |-> 1, found_locks |-> 0, released_locks |-> 0,
          ret |-> "none"]]
    /\ steady = [t \in Tool |-> {}]
    /\ hit = [t \in Tool |-> {}]
    /\ shown = [t \in Tool |-> {}]

StillSteady == steady' = [t \in Tool |-> {r \in steady[t] : Steadfast(r)'}]

(* Mutant: --check and --done take every entry, as --list does. *)
MatchesAll(t) == Path

(* --list takes every entry with ".lock" in its name. *)
Matches(t) ==
    CASE cmd[t].kind = "check" -> CheckMatches(cmd[t].desc)
      [] cmd[t].kind = "done"  -> DoneMatches(cmd[t].desc)
      [] cmd[t].kind = "list"  -> Path

SoughtBy(t) == IF cmd[t].kind = "list" THEN Run ELSE {r \in Run : opts[r].desc = cmd[t].desc}

-----------------------------------------------------------------------------
(* Reading one entry: the same for the three commands *)

ToolStart(t) ==
    /\ tool[t].pc = "idle"
    /\ tool' = [tool EXCEPT ![t].pc = "scan", ![t].todo = Matches(t)]
    /\ steady' = [steady EXCEPT ![t] = {r \in SoughtBy(t) : Steadfast(r)}]
    /\ UNCHANGED <<vars, cmd, hit, shown>>

(* readdir(): only an entry that is there is returned. *)
ReadEntry(t) ==
    /\ tool[t].pc = "scan"
    /\ \E x \in tool[t].todo :
         tool' = [tool EXCEPT ![t].todo = @ \ {x},
                              ![t].at = x,
                              ![t].pc = IF FilesAt(files, x) = {} THEN "scan" ELSE "binary"]
    /\ UNCHANGED <<vars, cmd, steady, hit, shown>>

(* A whole record is accepted; what cannot be opened or is too short goes  *)
(* to the text reader, which opens the path a second time.                 *)
ReadBinary(t) ==
    /\ tool[t].pc = "binary"
    /\ \/ /\ ValidAt(files, written, tool[t].at) = {}
          /\ tool' = [tool EXCEPT ![t].pc = "text"]
       \/ \E f \in ValidAt(files, written, tool[t].at) :
            tool' = [tool EXCEPT ![t].pc = "exists", ![t].seen = {f.owner},
                                 ![t].found_locks = IF cmd[t].kind = "done" THEN @ + 1 ELSE @]
    /\ UNCHANGED <<vars, cmd, steady, hit, shown>>

(* Anything the text reader can open has checksum zero, which is invalid,  *)
(* and --check and --done remove it; --done also what it cannot open.      *)
ReadText(t) ==
    /\ tool[t].pc = "text"
    /\ tool' = [tool EXCEPT ![t].pc =
                    IF \/ FilesAt(files, tool[t].at) # {} /\ cmd[t].kind = "check"
                       \/ cmd[t].kind = "done"
                    THEN "unlink" ELSE "scan"]
    /\ UNCHANGED <<vars, cmd, steady, hit, shown>>

(* By name, some time after the file was read. *)
RemoveEntry(t) ==
    /\ tool[t].pc = "unlink"
    /\ files' = Unlink(files, tool[t].at)
    /\ tool' = [tool EXCEPT ![t].pc = "scan"]
    /\ UNCHANGED <<written, opts, pc, scanVars, at, gen, fdVars, expired, ret, cmd, hit, shown>>
    /\ StillSteady

-----------------------------------------------------------------------------
(* check_lock *)

(* The processes that have the number in the record that was read; every   *)
(* run is on the machine of the tool.                                      *)
Named(t) == {r \in Run : Exists(r) /\ \E q \in tool[t].seen : PidOf[r] = PidOf[q]}

(* A live holder is counted, and the record it left says how many there    *)
(* may be: the last one read decides.  A dead one is passed over.          *)
CheckExists(t) ==
    /\ tool[t].pc = "exists"
    /\ cmd[t].kind = "check"
    /\ \/ /\ Named(t) # {}
          /\ \E q \in tool[t].seen :
               tool' = [tool EXCEPT ![t].pc = "scan", ![t].seen = {},
                                    ![t].active_locks = @ + 1,
                                    ![t].max_holders = opts[q].max]
       \/ /\ Named(t) = {}
          /\ tool' = [tool EXCEPT ![t].pc = "scan", ![t].seen = {}]
    /\ UNCHANGED <<vars, cmd, steady, hit, shown>>

(* Mutant: more holders than slots are needed to be busy. *)
CheckEndOffByOne(t) ==
    /\ tool[t].pc = "scan" /\ tool[t].todo = {}
    /\ cmd[t].kind = "check"
    /\ tool' = [tool EXCEPT ![t].pc = "done",
                            ![t].ret = IF tool[t].active_locks > tool[t].max_holders
                                       THEN "BUSY" ELSE "SUCCESS"]
    /\ UNCHANGED <<vars, cmd, steady, hit, shown>>

CheckEnd(t) ==
    /\ tool[t].pc = "scan" /\ tool[t].todo = {}
    /\ cmd[t].kind = "check"
    /\ tool' = [tool EXCEPT ![t].pc = "done",
                            ![t].ret = IF tool[t].active_locks >= tool[t].max_holders
                                       THEN "BUSY" ELSE "SUCCESS"]
    /\ UNCHANGED <<vars, cmd, steady, hit, shown>>

-----------------------------------------------------------------------------
(* done_lock *)

DoneExists(t) ==
    /\ tool[t].pc = "exists"
    /\ cmd[t].kind = "done"
    /\ tool' = IF Named(t) # {}
               THEN [tool EXCEPT ![t].pc = "kill"]
               ELSE [tool EXCEPT ![t].pc = "unlink", ![t].released_locks = @ + 1]
    /\ UNCHANGED <<vars, cmd, steady, hit, shown>>

(* SIGTERM.  A run whose child_pid is set passes it on to its command,     *)
(* which ends or does not; before that, and in every other place, the      *)
(* handler raises it again and the run dies.                               *)
Terminate(r) ==
    \/ pc[r] \in Live /\ Die(r)
    \/ /\ pc[r] = "held" /\ opts[r].mode = "exec"
       /\ CommandEnds(r) \/ UNCHANGED vars
    \/ pc[r] = "zombie" /\ UNCHANGED vars

(* Mutant: the first process that takes the signal ends the search. *)
KillFirstOnly(t) ==
    /\ tool[t].pc = "kill"
    /\ \E r \in Named(t) :
         /\ Terminate(r)
         /\ hit' = [hit EXCEPT ![t] = @ \cup {r}]
    /\ tool' = [tool EXCEPT ![t].pc = "scan", ![t].todo = {}, ![t].released_locks = @ + 1]
    /\ StillSteady
    /\ UNCHANGED <<cmd, shown>>

Kill(t) ==
    /\ tool[t].pc = "kill"
    /\ \E r \in Named(t) :
         /\ Terminate(r)
         /\ hit' = [hit EXCEPT ![t] = @ \cup {r}]
    /\ tool' = [tool EXCEPT ![t].pc = "scan", ![t].released_locks = @ + 1]
    /\ StillSteady
    /\ UNCHANGED <<cmd, shown>>

(* Mutant: the failed kill is counted as a release, and so is the removal. *)
KillFailsCounted(t) ==
    /\ tool[t].pc = "kill"
    /\ Named(t) = {}
    /\ tool' = [tool EXCEPT ![t].pc = "recheck", ![t].released_locks = @ + 1]
    /\ UNCHANGED <<vars, cmd, steady, hit, shown>>

(* ESRCH: the process went away after process_exists had found it. *)
KillFails(t) ==
    /\ tool[t].pc = "kill"
    /\ Named(t) = {}
    /\ tool' = [tool EXCEPT ![t].pc = "recheck"]
    /\ UNCHANGED <<vars, cmd, steady, hit, shown>>

DoneRecheck(t) ==
    /\ tool[t].pc = "recheck"
    /\ tool' = IF Named(t) # {}
               THEN [tool EXCEPT ![t].pc = "scan"]
               ELSE [tool EXCEPT ![t].pc = "unlink", ![t].released_locks = @ + 1]
    /\ UNCHANGED <<vars, cmd, steady, hit, shown>>

DoneEnd(t) ==
    /\ tool[t].pc = "scan" /\ tool[t].todo = {}
    /\ cmd[t].kind = "done"
    /\ tool' = [tool EXCEPT ![t].pc = "done",
                            ![t].ret = CASE tool[t].found_locks = 0 -> "NOTFOUND"
                                         [] tool[t].released_locks = 0 -> "SYSTEM"
                                         [] OTHER -> "SUCCESS"]
    /\ UNCHANGED <<vars, cmd, steady, hit, shown>>

-----------------------------------------------------------------------------
(* list_locks *)

(* Mutant: the two filters are mixed up. *)
ShowsSwapped(t, stale) ==
    /\ "--all" \in cmd[t].set => stale
    /\ stale => "--stale-only" \in cmd[t].set

(* Stale locks are shown with --all only, even where --stale-only is given. *)
Shows(t, stale) ==
    /\ "--stale-only" \in cmd[t].set => stale
    /\ stale => "--all" \in cmd[t].set

ListExists(t) ==
    /\ tool[t].pc = "exists"
    /\ cmd[t].kind = "list"
    /\ LET stale == Named(t) = {}
       IN  shown' = [shown EXCEPT ![t] =
               IF Shows(t, stale) THEN @ \cup tool[t].seen \X {IF stale THEN "stale" ELSE "active"} ELSE @]
    /\ tool' = [tool EXCEPT ![t].pc = "scan", ![t].seen = {}]
    /\ UNCHANGED <<vars, cmd, steady, hit>>

ListEnd(t) ==
    /\ tool[t].pc = "scan" /\ tool[t].todo = {}
    /\ cmd[t].kind = "list"
    /\ tool' = [tool EXCEPT ![t].pc = "done", ![t].ret = "SUCCESS"]
    /\ UNCHANGED <<vars, cmd, steady, hit, shown>>

-----------------------------------------------------------------------------
ToolStep(t) ==
    \/ ReadEntry(t) \/ ReadBinary(t) \/ ReadText(t) \/ RemoveEntry(t)
    \/ CheckExists(t) \/ CheckEnd(t)
    \/ DoneExists(t) \/ Kill(t) \/ KillFails(t) \/ DoneRecheck(t) \/ DoneEnd(t)
    \/ ListExists(t) \/ ListEnd(t)

RunStep == Next /\ StillSteady /\ UNCHANGED <<cmd, tool, hit, shown>>

ToolsNext == RunStep \/ \E t \in Tool : ToolStart(t) \/ ToolStep(t)

ToolsSpec == ToolsInit /\ [][ToolsNext]_toolsVars

-----------------------------------------------------------------------------
ToolDone(t, kind) == tool[t].pc = "done" /\ cmd[t].kind = kind

Undotted(desc) == \A i \in 1 .. Len(desc) : desc[i] # "."

(* man page, --check: "0 if available, 1 if held by another process".      *)
(* Runs that held every slot during the whole of the check are not         *)
(* overlooked, whatever else came and went meanwhile (lock.c:414-463).     *)
(* Of a descriptor with a dot no entry is found at all: only the text      *)
(* before the first dot of the entry is compared (lock.c:416-418).         *)
CheckSeesSteadyHolders ==
    \A t \in Tool : /\ ToolDone(t, "check") /\ tool[t].ret = "SUCCESS"
                   /\ Undotted(cmd[t].desc)
                        => Cardinality(steady[t]) < MaxHolders

(* man page, --done: "Signal all processes holding the specified lock".    *)
(* No run outside exec mode holds the lock from before --done starts until *)
(* after it has ended (lock.c:702-762); a command may ignore SIGTERM.      *)
DoneReachesHolders ==
    \A t \in Tool : ToolDone(t, "done") => \A r \in steady[t] : opts[r].mode = "exec"

(* Whom --done signals it has from a record: one written to a file whose   *)
(* name continues the descriptor after a dot (lock.c:709-711), and with    *)
(* the number of the process that got the signal (lock.c:725).  So it is   *)
(* the run that wrote the record, be it of db.old where db was given, or   *)
(* one that took over the number of a writer that had ended; in particular *)
(* no other live run is hit, however they come and go.                     *)
DoneFollowsRecords ==
    \A t \in Tool : \A r \in hit[t] : \E f \in written :
        /\ IsPrefix(cmd[t].desc \o <<".">>, EntryName(f.path))
        /\ PidOf[f.owner] = PidOf[r]
        /\ f.owner = r \/ pc[f.owner] = "ended"

(* man page, --list: "List all active locks in the system".  Who holds a   *)
(* lock of whatever descriptor during the whole of it is listed, unless    *)
(* only stale locks are asked for; and what it calls stale is dead for     *)
(* good (lock.c:492-516).                                                  *)
ListTellsHolders ==
    \A t \in Tool :
        /\ ToolDone(t, "list") /\ "--stale-only" \notin cmd[t].set
             => steady[t] \X {"active"} \subseteq shown[t]
        /\ \A r \in Run : <<r, "stale">> \in shown[t] => pc[r] = "ended"
=============================================================================
