----------------------------- MODULE Invocation ------------------------------
(***************************************************************************)
(* One invocation from its command line to its answer: parse_args, the     *)
(* choice of the mode, and acquire_lock as its clock sees it, for a lock   *)
(* that others take and give up meanwhile.  In exec mode the command may   *)
(* be waitlock again, which inherits the environment.                      *)
(*                                                                         *)
(* What happens in the directory is the business of WaitLock; here a look  *)
(* at it finds a slot where a file can be made, or not.                    *)
(***************************************************************************)
EXTENDS Arguments, Backoff

CONSTANTS
    Token,         \* what a command line may be made of
    MaxTokens,     \* bound: of how many tokens
    Inputs,        \* the lines standard input may have, or None
    Environments,  \* WAITLOCK_TIMEOUT, WAITLOCK_DIR and WAITLOCK_SLOT
    Rand,          \* the values rand() may return
    Delay,         \* by how much a step may be late, in microseconds
    EmbeddedSlot,  \* EmbeddedSlot[tok]: the number after the first ".slot" inside a
                   \* descriptor or a directory; None is the standard directory
    MaxDepth       \* bound: how deep invocations are nested

ASSUME DelayAssumption == Delay \subseteq Nat /\ \E d \in Delay : \A e \in Delay : e <= d
ASSUME EnvironmentAssumption ==
    \A e \in Environments : e = [timeout |-> e.timeout, dir |-> e.dir, slot |-> e.slot]
ASSUME RandAssumption == Rand \subseteq Nat
\* what sprintf() makes of a slot number can be read back
ASSUME SlotNumbersAssumption == \A n \in {0, 1} : \E tok \in DOMAIN Integer : Integer[tok] = n
ASSUME MaxTokensAssumption == MaxTokens \in Nat
ASSUME MaxDepthAssumption == MaxDepth \in Nat

VARIABLES
    env,      \* its environment
    parsed,   \* how far parse_args has come
    argc,     \* how many tokens it has read
    opts,     \* the options it goes by once they are accepted
    pc, ret,  \* where it is, and what it has answered
    now,      \* microseconds since start_time
    wait_ms,  \* wait_ms
    wake,     \* when the nap under way is to end
    looked,   \* history: when it last looked at the directory
    free,     \* whether a slot is free
    since,    \* history: since when
    record,   \* the limit and the slot in the record it has written
    depth,    \* how many invocations it is nested in
    outer     \* history: the slot held by the invocation that exported
              \* WAITLOCK_SLOT, -1 if none did or its path misled it

start  == <<env, parsed, argc>>
world  == <<free, since>>
clock  == <<now, wait_ms, wake, looked>>
nested == <<depth, outer>>
vars   == <<start, opts, pc, ret, clock, world, record, nested>>

UINT16_MAX == 65535
Uint16(n) == n % (UINT16_MAX + 1)

NoRecord == [max_holders |-> 0, slot |-> 0]

LateBy == CHOOSE d \in Delay : \A e \in Delay : e <= d

Timed == opts.timeout >= 0

Deadline == opts.timeout

TypeOK ==
    /\ pc \in {"parse", "loop", "pause", "asleep", "held", "ended", "elsewhere"}
    /\ ret \in {"none", "SUCCESS", "BUSY", "TIMEOUT", "USAGE"}
    /\ pc \in {"loop", "pause", "asleep", "held"} => opts.mode \in {"hold", "exec"} /\ ret = "none"
    /\ opts.max_holders >= 1 /\ opts.timeout >= -1
    /\ wait_ms \in INITIAL_WAIT_MS .. MAX_WAIT_MS + MAX_WAIT_MS \div 10
    /\ now \in Nat /\ wake \in Nat /\ looked \in 0 .. now
    /\ free \in BOOLEAN /\ since \in 0 .. now
    /\ record.max_holders \in 0 .. UINT16_MAX /\ record.slot \in 0 .. UINT16_MAX
    /\ depth \in 0 .. MaxDepth /\ outer \in -1 .. UINT16_MAX

Unsettled == [mode |-> "none", descriptor |-> None, max_holders |-> 1, timeout |-> -1, lock_dir |-> None]

Init ==
    /\ env \in Environments
    /\ parsed = FromEnvironment(env) /\ argc = 0 /\ opts = Unsettled
    /\ pc = "parse" /\ ret = "none"
    /\ now = 0 /\ wait_ms = INITIAL_WAIT_MS /\ wake = 0 /\ looked = 0
    /\ free = TRUE /\ since = 0
    /\ record = NoRecord /\ depth = 0 /\ outer = -1

Ends(answer) == pc' = "ended" /\ ret' = answer

-----------------------------------------------------------------------------
(* parse_args, and the choice of main *)

ReadToken ==
    /\ pc = "parse" /\ parsed.answer = "go" /\ argc < MaxTokens
    /\ \E tok \in Token : parsed' = Read(parsed, tok)
    /\ argc' = argc + 1
    /\ UNCHANGED <<env, opts, pc, ret, clock, world, record, nested>>

Refuse ==
    /\ pc = "parse" /\ parsed.answer # "go"
    /\ Ends(parsed.answer)
    /\ UNCHANGED <<start, opts, clock, world, record, nested>>

Settled(o) ==
    [mode |-> Mode(o), descriptor |-> o.descriptor, max_holders |-> o.max_holders,
     timeout |-> o.timeout, lock_dir |-> o.lock_dir]

(* There are no more tokens.  The modes that only look at the directory    *)
(* are left to LockTools.                                                  *)
Settle ==
    /\ pc = "parse" /\ parsed.answer = "go"
    /\ \E stdin \in Inputs :
         LET p == Accept(parsed, stdin)
         IN  IF p.answer # "go" THEN Ends(p.answer) /\ UNCHANGED opts
             ELSE /\ opts' = Settled(p.opts)
                  /\ pc' = IF Mode(p.opts) \in {"hold", "exec"} THEN "loop" ELSE "elsewhere"
                  /\ UNCHANGED ret
    /\ parsed' = FromEnvironment(env) /\ argc' = 0
    /\ free' \in BOOLEAN
    /\ UNCHANGED <<env, clock, since, record, nested>>

-----------------------------------------------------------------------------
(* acquire_lock *)

(* "<descriptor>.slot<n>.lock" must not be longer than a name may be. *)
NAME_MAX == 255
FitsName == Length[opts.descriptor] + 11 <= NAME_MAX

(* Mutant: the fields are filled in the wrong order. *)
WrittenSwapped(slot) == [max_holders |-> Uint16(slot), slot |-> Uint16(opts.max_holders)]

(* Both are uint16_t in struct lock_info. *)
Written(slot) == [max_holders |-> Uint16(opts.max_holders), slot |-> Uint16(slot)]

(* The top of the loop *)
TimeIsUp == Timed /\ now >= Deadline

GiveUp ==
    /\ pc = "loop" /\ TimeIsUp
    /\ Ends("TIMEOUT")
    /\ UNCHANGED <<start, opts, clock, world, record, nested>>

Busy ==
    /\ pc = "loop" /\ ~ TimeIsUp /\ ~ free /\ opts.timeout <= 0
    /\ Ends("BUSY")
    /\ UNCHANGED <<start, opts, clock, world, record, nested>>

(* One of the first two slots stands for all of them. *)
Claim ==
    /\ pc = "loop" /\ ~ TimeIsUp /\ free /\ FitsName
    /\ \E slot \in 0 .. Least(opts.max_holders, 2) - 1 : record' = Written(slot)
    /\ pc' = "held"
    /\ UNCHANGED <<start, opts, ret, clock, world, nested>>

(* No file can be made in any slot: there is time to wait for one, or the  *)
(* files that are in the way do not count as holders.                      *)
InVain ==
    /\ pc = "loop" /\ ~ TimeIsUp
    /\ ~ free \/ ~ FitsName
    /\ looked' = now
    /\ pc' = "pause"
    /\ UNCHANGED <<start, opts, ret, now, wait_ms, wake, world, record, nested>>

Remaining(t) == Deadline - t

(* The clock stands still where the code does not read it. *)
Later(t) == IF Timed THEN {t + d : d \in Delay} ELSE {t}

(* Mutant: the nap is never cut short. *)
FullNap(wait, remaining) == wait

(* Mutant: a nap may be of no length. *)
NapOrNone(wait, remaining) == Least(wait, (remaining * 9) \div 10000)

(* Mutant: a nap may take all of the time that remains. *)
NapToTheEnd(wait, remaining) ==
    LET nap == Least(wait, remaining \div 1000) IN IF nap < 1 THEN 1 ELSE nap

Nap(wait, remaining) == Limited(wait, remaining)

(* The two comparisons after the scan, and usleep(). *)
Pause ==
    /\ pc = "pause"
    /\ \E t \in Later(now) :
         /\ now' = t
         /\ \/ /\ Timed /\ Remaining(t) <= 0
               /\ Ends("TIMEOUT")
               /\ UNCHANGED wake
            \/ /\ Timed => Remaining(t) > 0
               /\ wake' = t + 1000 * (IF Timed THEN Nap(wait_ms, Remaining(t)) ELSE wait_ms)
               /\ pc' = "asleep"
               /\ UNCHANGED ret
    /\ UNCHANGED <<start, opts, wait_ms, looked, world, record, nested>>

(* Mutant: the cap is forgotten. *)
CapForgotten(wait, r) == Jittered(2 * wait, r)

NextWait(wait, r) == Jittered(Capped(wait), r)

Wake ==
    /\ pc = "asleep"
    /\ now' \in Later(IF Timed THEN wake ELSE now)
    /\ \E r \in Rand : wait_ms' = NextWait(wait_ms, r)
    /\ pc' = "loop"
    /\ UNCHANGED <<start, opts, ret, wake, looked, world, record, nested>>

Finished == pc \in {"ended", "elsewhere", "held"} /\ UNCHANGED vars

(* Others take the last free slot or give one up. *)
OthersMove ==
    /\ pc \in {"pause", "asleep"}
    /\ free' = ~ free /\ since' = now
    /\ UNCHANGED <<start, opts, pc, ret, clock, record, nested>>

-----------------------------------------------------------------------------
(* Mutant: slots are counted from one. *)
ExportedFromOne == record.slot + 1

Misleads(tok) == tok \in DOMAIN EmbeddedSlot

Misled == Misleads(opts.lock_dir) \/ Misleads(opts.descriptor)

(* What execvp() hands on: the number after the first ".slot" in the path  *)
(* of the lock file, be that in its directory, in the descriptor or, as it *)
(* should be, after it.                                                    *)
ExportedSlot ==
    CASE Misleads(opts.lock_dir) -> EmbeddedSlot[opts.lock_dir]
      [] ~ Misleads(opts.lock_dir) /\ Misleads(opts.descriptor) -> EmbeddedSlot[opts.descriptor]
      [] OTHER -> record.slot

(* Tokens for the numbers, as setenv() writes them *)
Digits(n) == CHOOSE t \in DOMAIN Integer : Integer[t] = n

Nest ==
    /\ pc = "held" /\ opts.mode = "exec" /\ depth < MaxDepth
    /\ IF opts.max_holders > 1
       THEN /\ env' = [env EXCEPT !.slot = Digits(ExportedSlot)]
            /\ outer' = IF Misled THEN -1 ELSE record.slot
       ELSE UNCHANGED <<env, outer>>
    /\ depth' = depth + 1
    /\ parsed' = FromEnvironment(env') /\ opts' = Unsettled /\ pc' = "parse"
    /\ now' = 0 /\ wait_ms' = INITIAL_WAIT_MS /\ wake' = 0 /\ looked' = 0
    /\ since' = 0 /\ record' = NoRecord
    /\ UNCHANGED <<argc, ret, free>>

-----------------------------------------------------------------------------
Run == ReadToken \/ Refuse \/ Settle \/ GiveUp \/ Busy \/ Claim \/ InVain \/ Pause \/ Wake

Next == Run \/ OthersMove \/ Nest \/ Finished

(* The invocation is scheduled and its clock advances; nobody has to give *)
(* up a slot.                                                             *)
Spec == Init /\ [][Next]_vars /\ WF_vars(Run)

-----------------------------------------------------------------------------
(* WAITLOCK_SLOT, handed down to a command that runs waitlock again at any *)
(* depth, makes no such run fail whose limit is above the slot held by the *)
(* run that exported it: unless ".slot" occurs in the directory or the     *)
(* descriptor of that one (process.c:159-168, core.c:278-282).             *)
NestedNotRefused ==
    pc = "parse" /\ parsed.answer = "go" /\ outer >= 0 =>
        \A stdin \in Inputs :
            LET q == Accept([parsed EXCEPT !.opts.preferred_slot = -1], stdin)
            IN  q.answer = "go" /\ q.opts.max_holders > outer
                    => Accept(parsed, stdin).answer = "go"

(* --check reads the limit from a record of 16 bits: it and acquire_lock   *)
(* agree on whether the slots are full for every -m that fits, and --check *)
(* may call a lock busy, but not free, for the smallest that does not      *)
(* (waitlock.h:115, lock.c:430, 463).                                      *)
CheckAgrees ==
    pc = "held" /\ opts.max_holders <= UINT16_MAX + 1 =>
        \A holders \in 1 .. 3 :
            /\ holders >= opts.max_holders => holders >= record.max_holders
            /\ opts.max_holders <= UINT16_MAX /\ holders >= record.max_holders
                 => holders >= opts.max_holders

(* A run with a timeout comes to an answer or to the lock: the naps grow   *)
(* shorter towards the deadline, but none has length zero (lock.c:328).    *)
Answered == pc = "loop" /\ Timed ~> pc \in {"held", "ended"}

(* It answers TIMEOUT not before the time and at most a millisecond late,  *)
(* apart from the delays of the system (lock.c:160, 239, 324-328).         *)
TimeoutInTime ==
    ret = "TIMEOUT" => now >= Deadline /\ (opts.timeout > 0 => now <= Deadline + 1000 + LateBy)

(* A lock that was free for some time before the deadline is not missed:   *)
(* the naps are limited to 90% of what remains, so a delay costs ten times *)
(* its length (lock.c:324).  That needs a timeout above zero, with which   *)
(* acquire_lock never looks, and a name that fits the file system.         *)
FreeLockTaken ==
    ret = "TIMEOUT" /\ free /\ opts.timeout > 0 /\ FitsName =>
        Deadline - since <= LateBy + 1000 + 10 * LateBy

(* Whoever waits looks at least every 1.1 s: jitter comes on top of        *)
(* MAX_WAIT_MS (lock.c:332-336).                                           *)
LooksAgain == pc = "asleep" => wake - looked <= 1100 * 1000 + LateBy
=============================================================================
