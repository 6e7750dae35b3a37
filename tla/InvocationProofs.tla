-------------------------- MODULE InvocationProofs ---------------------------
(***************************************************************************)
(* Theorems about Invocation, for any command line, however long, any      *)
(* environment and standard input, any timeout, delays and random numbers. *)
(***************************************************************************)
EXTENDS Invocation, TLAPS

USE DelayAssumption, EnvironmentAssumption, RandAssumption, MaxDepthAssumption,
    CpusAssumption, NumbersAssumption

-----------------------------------------------------------------------------
(* The command line *)

Options ==
    [descriptor : Token \cup Inputs \cup {None}, max_holders : Int, exclude_cpus : Int,
     timeout : Int, lock_dir : Token \cup {None} \cup {e.dir : e \in Environments},
     set : SUBSET Switch, command : BOOLEAN, preferred_slot : Int]

Parse ==
    [opts : Options, awaiting : WithArgument \cup {"-e", None}, answer : {"go", "USAGE", "SUCCESS"}]

(* As long as nothing was refused the numbers are such as acquire_lock     *)
(* expects.                                                                *)
Sound(p) ==
    /\ p \in Parse
    /\ p.answer = "go" => p.opts.max_holders >= 1 /\ p.opts.timeout >= -1

LEMMA NumberTypes == \A t : Atoi(t) \in Int /\ Atof(t) \in Int
BY DEF Atoi, Atof

LEMMA UsageSound ==
    ASSUME NEW p \in Parse
    PROVE  Sound(Usage(p))
<1>1. Usage(p) \in Parse /\ Usage(p).answer = "USAGE"
  BY DEF Usage, Parse
<1> QED
  BY <1>1 DEF Sound

LEMMA EnvironmentSound ==
    ASSUME NEW e, e.dir \in {x.dir : x \in Environments}
    PROVE  Sound(FromEnvironment(e))
<1> DEFINE slot == IF e.slot = None \/ Atoi(e.slot) < 0 THEN -1 ELSE Atoi(e.slot)
           time == IF e.timeout = None THEN Defaults.timeout ELSE Atof(e.timeout)
           o    == [Defaults EXCEPT !.timeout = time, !.lock_dir = e.dir, !.preferred_slot = slot]
           p    == [opts |-> o, awaiting |-> None, answer |-> "go"]
<1>1. slot \in Int /\ time \in Int /\ (e.timeout = None => time = -1)
  BY NumberTypes DEF Defaults
<1>2. FromEnvironment(e) = OrUsage(e.timeout = None \/ o.timeout >= 0, p)
  BY Zenon DEF FromEnvironment
<1> HIDE DEF slot, time
<1>3. o \in Options /\ o.max_holders = 1 /\ o.timeout = time
  <2>1. Defaults \in Options /\ Defaults.max_holders = 1
    BY DEF Defaults, Options
  <2> QED
    BY <1>1, <2>1 DEF Options
<1>4. p \in Parse /\ p.opts = o
  BY <1>3 DEF Parse
<1> HIDE DEF o, p
<1> QED
  BY <1>1, <1>2, <1>3, <1>4, UsageSound DEF OrUsage, Sound

LEMMA ArgumentSound ==
    ASSUME NEW p, Sound(p), p.answer = "go", p.awaiting \in WithArgument, NEW tok \in Token
    PROVE  Sound(Argument(p, tok))
<1> DEFINE q == [p EXCEPT !.awaiting = None]
<1>1. Atoi(tok) \in Int /\ Atof(tok) \in Int
  BY NumberTypes
<1>2. /\ q \in Parse /\ q.opts = p.opts /\ q.opts \in Options
      /\ q.opts.max_holders >= 1 /\ q.opts.timeout >= -1
  BY DEF Sound, Parse
<1> HIDE DEF q
<1>3. CASE p.awaiting = "-m"
  <2>1. [q EXCEPT !.opts.max_holders = Atoi(tok)] \in Parse
    BY <1>1, <1>2 DEF Parse, Options
  <2>2. Sound(OrUsage(Atoi(tok) >= 1, [q EXCEPT !.opts.max_holders = Atoi(tok)]))
    BY <1>1, <1>2, <2>1, UsageSound DEF OrUsage, Sound, Parse, Options
  <2> QED
    BY <1>3, <2>2 DEF Argument, q
<1>4. CASE p.awaiting = "-x"
  <2>1. Sound([q EXCEPT !.opts.exclude_cpus = Atoi(tok)])
    BY <1>1, <1>2 DEF Sound, Parse, Options
  <2> QED
    BY <1>4, <2>1 DEF Argument, q
<1>5. CASE p.awaiting = "-t"
  <2>1. [q EXCEPT !.opts.timeout = Atof(tok)] \in Parse
    BY <1>1, <1>2 DEF Parse, Options
  <2>2. Sound(OrUsage(Atof(tok) >= 0, [q EXCEPT !.opts.timeout = Atof(tok)]))
    BY <1>1, <1>2, <2>1, UsageSound DEF OrUsage, Sound, Parse, Options
  <2> QED
    BY <1>5, <2>2 DEF Argument, q
<1>6. CASE p.awaiting = "-d"
  <2>1. Sound([q EXCEPT !.opts.lock_dir = tok])
    BY <1>1, <1>2 DEF Sound, Parse, Options
  <2> QED
    BY <1>6, <2>1 DEF Argument, q
<1>7. CASE p.awaiting = "-f"
  <2>1. Sound(OrUsage(tok \in Format, q))
    BY <1>2, UsageSound DEF OrUsage, Sound
  <2> QED
    BY <1>7, <2>1 DEF Argument, q
<1>8. CASE p.awaiting = "--syslog-facility"
  <2>1. Sound(OrUsage(tok \in Facility, q))
    BY <1>2, UsageSound DEF OrUsage, Sound
  <2> QED
    BY <1>8, <2>1 DEF Argument, q
<1> QED
  BY <1>3, <1>4, <1>5, <1>6, <1>7, <1>8 DEF WithArgument

LEMMA OptionSound ==
    ASSUME NEW p, Sound(p), p.answer = "go", NEW tok \in Token
    PROVE  Sound(Option(p, tok))
<1> USE DEF Sound, Parse
<1>2. p.opts \in Options /\ p.opts.max_holders >= 1 /\ p.opts.timeout >= -1
  OBVIOUS
<1>3. Sound([p EXCEPT !.answer = "SUCCESS"])
  OBVIOUS
<1>4. Sound([p EXCEPT !.awaiting = tok]) \/ tok \notin WithArgument \cup {"-e"}
  BY <1>2
<1>5. Sound([p EXCEPT !.opts.set = @ \cup {tok}]) \/ tok \notin Switch
  BY <1>2 DEF Options
<1>6. Sound(Usage(p))
  BY DEF Usage
<1>7. Sound([p EXCEPT !.opts.descriptor = tok])
  BY <1>2 DEF Options
<1>8. Sound(OrUsage(p.opts.descriptor = None, [p EXCEPT !.opts.descriptor = tok]))
  BY <1>7, UsageSound DEF OrUsage
<1> HIDE DEF Sound, Parse
<1> QED
  BY <1>3, <1>4, <1>5, <1>6, <1>8, Zenon DEF Option

LEMMA ReadSound ==
    ASSUME NEW p, Sound(p), p.answer = "go", NEW tok \in Token
    PROVE  Sound(Read(p, tok))
<1>1. Sound([p EXCEPT !.opts.command = TRUE])
  <2>1. p.opts \in Options
    BY DEF Sound, Parse
  <2> QED
    BY <2>1 DEF Sound, Parse, Options
<1> QED
  BY <1>1, ArgumentSound, OptionSound DEF Read

(* What the last checks let through *)
LEMMA AcceptSound ==
    ASSUME NEW p, Sound(p), p.answer = "go", NEW stdin, Accept(p, stdin).answer = "go"
    PROVE  LET o == Accept(p, stdin).opts
           IN  /\ o.max_holders \in Nat \ {0}
               /\ o.timeout \in Int /\ o.timeout >= -1
               /\ NeedsDescriptor(o) => Acceptable(o.descriptor)
<1> DEFINE o == [p.opts EXCEPT !.max_holders = Limit(p.opts), !.descriptor = Descriptor(p.opts, stdin)]
           q == [p EXCEPT !.opts = o]
           ok == /\ p.awaiting \notin WithArgument /\ (p.awaiting = "-e" => o.command)
                 /\ NeedsDescriptor(o) => Acceptable(o.descriptor)
                 /\ o.preferred_slot < o.max_holders
<1>1. Accept(p, stdin) = OrUsage(ok, q)
  BY Zenon DEF Accept
<1>2. p.opts \in Options /\ p.opts.max_holders >= 1 /\ p.opts.timeout >= -1 /\ p \in Parse
  BY DEF Sound, Parse
<1>3. Limit(p.opts) \in Nat \ {0}
  BY <1>2 DEF Limit, Cpus, Options
<1>4. o.max_holders \in Nat \ {0} /\ o.timeout \in Int /\ o.timeout >= -1
  BY <1>2, <1>3 DEF Options
<1>5. q.opts = o /\ Usage(q).answer = "USAGE"
  BY <1>2 DEF Parse, Usage
<1>6. ok /\ Accept(p, stdin).opts = o
  <2> HIDE DEF ok, q, o
  <2> QED
    BY <1>1, <1>5 DEF OrUsage
<1>7. NeedsDescriptor(o) => Acceptable(o.descriptor)
  BY <1>6
<1> HIDE DEF o
<1> QED
  BY <1>4, <1>6, <1>7

LEMMA AcceptAnswer ==
    ASSUME NEW p, Sound(p), NEW stdin
    PROVE  Accept(p, stdin).answer \in {"go", "USAGE", "SUCCESS"}
<1> DEFINE q == [p EXCEPT !.opts = [p.opts EXCEPT !.max_holders = Limit(p.opts),
                                                 !.descriptor = Descriptor(p.opts, stdin)]]
<1>1. q.answer = p.answer /\ Usage(q).answer = "USAGE" /\ p.answer \in {"go", "USAGE", "SUCCESS"}
  BY DEF Sound, Parse, Usage
<1>2. Accept(p, stdin) = q \/ Accept(p, stdin) = Usage(q)
  BY Zenon DEF Accept, OrUsage
<1> QED
  BY <1>1, <1>2

-----------------------------------------------------------------------------
(* The arithmetic of the wait *)

LEMMA LongestDelay == LateBy \in Delay /\ LateBy \in Nat /\ \A d \in Delay : d \in Nat /\ d <= LateBy
BY DEF LateBy

(* A nap has a length, and leaves a tenth of the time that remains unless  *)
(* it is as short as a nap can be (lock.c:324-328).                        *)
LEMMA NapBounds ==
    ASSUME NEW wait \in Nat \ {0}, NEW remaining \in Nat \ {0}
    PROVE  /\ Nap(wait, remaining) \in 1 .. wait
           /\ Nap(wait, remaining) = 1 \/ 10000 * Nap(wait, remaining) <= 9 * remaining
BY DEF Nap, Limited, Least

(* wait_ms stays between INITIAL_WAIT_MS and a tenth above MAX_WAIT_MS.    *)
LEMMA NextWaitBounds ==
    ASSUME NEW wait \in Nat, wait >= 10, NEW r \in Nat
    PROVE  NextWait(wait, r) \in 10 .. 1100
<1> DEFINE c == Capped(wait)
           n == c \div 10 + 1
<1>1. c \in Nat /\ 20 <= c /\ c <= 1000
  BY DEF Capped, Least, MAX_WAIT_MS
<1> HIDE DEF c
<1>2. n \in Nat \ {0} /\ 10 * (n - 1) <= c
  BY <1>1
<1> HIDE DEF n
<1> DEFINE jitter == r % n
<1>3. jitter \in Nat /\ jitter <= n - 1
  BY <1>2
<1>4. NextWait(wait, r) = c + jitter
  BY DEF NextWait, Jittered, c, n
<1> HIDE DEF jitter
<1>5. c + jitter \in Nat /\ 10 <= c + jitter /\ c + jitter <= 1100
  BY <1>1, <1>2, <1>3
<1> QED
  BY <1>4, <1>5

-----------------------------------------------------------------------------
(* The invariant *)

Waiting == {"loop", "pause", "asleep"}

EnvironmentKept == env.dir \in {x.dir : x \in Environments} /\ env = [timeout |-> env.timeout, dir |-> env.dir, slot |-> env.slot]

OptionsMakeSense ==
    /\ opts.max_holders \in Nat \ {0}
    /\ opts.timeout \in Int /\ opts.timeout >= -1
    /\ pc \in Waiting \cup {"held"} => opts.mode \in {"hold", "exec"} /\ ret = "none"
    /\ pc \in Waiting \cup {"elsewhere"} /\ opts.mode \notin {"list", "test"} => Acceptable(opts.descriptor)

RecordWritten == pc = "held" => \E slot \in Nat : record = Written(slot)

ParseAnswersNothing == pc = "parse" => ret = "none"

(* A slot that is free in the middle of a wait has been so only since the  *)
(* last look.                                                              *)
FreeSinceLook == pc \in {"pause", "asleep"} /\ free /\ FitsName => since >= looked

(* What a nap may do to the deadline: it leaves a tenth of what remained   *)
(* of it, or it is a millisecond long.                                     *)
NapLeavesTime ==
    pc = "asleep" =>
        /\ wake >= now /\ wake - looked <= 1100 * 1000 + LateBy
        /\ Timed => /\ now < Deadline
                    /\ wake <= now + 1000 \/ 10 * (wake - now) <= 9 * (Deadline - now)

(* A deadline that has passed at the top of the loop was not missed by     *)
(* much, and no slot had been free for much longer.                        *)
NotMuchLate ==
    /\ opts.timeout > 0 => now <= Deadline + 1000 + LateBy
    /\ opts.timeout > 0 /\ now >= Deadline /\ free /\ FitsName
            => Deadline - since <= LateBy + 1000 + 10 * LateBy

ClockInv ==
    /\ now \in Nat /\ wake \in Nat /\ looked \in Nat /\ since \in Nat
    /\ looked <= now /\ since <= now
    /\ wait_ms \in 10 .. 1100
    /\ pc = "parse" => now = 0
    /\ pc = "pause" => now = looked /\ (Timed => now < Deadline)
    /\ pc = "asleep" => now - looked <= LateBy
    /\ FreeSinceLook /\ NapLeavesTime
    /\ pc = "loop" => NotMuchLate
    /\ ret = "TIMEOUT" => pc = "ended" /\ Timed /\ now >= Deadline /\ NotMuchLate

(* What TypeOK says beyond that *)
OtherTypes ==
    /\ pc \in {"parse", "loop", "pause", "asleep", "held", "ended", "elsewhere"}
    /\ ret \in {"none", "SUCCESS", "BUSY", "TIMEOUT", "USAGE"}
    /\ free \in BOOLEAN
    /\ record.max_holders \in 0 .. UINT16_MAX /\ record.slot \in 0 .. UINT16_MAX
    /\ depth \in 0 .. MaxDepth /\ outer \in -1 .. UINT16_MAX

InvocationInv ==
    /\ OtherTypes /\ EnvironmentKept /\ Sound(parsed)
    /\ OptionsMakeSense /\ RecordWritten /\ ParseAnswersNothing /\ ClockInv

LEMMA RecordTypes == UINT16_MAX \in Nat /\ \A n \in Nat : Uint16(n) \in 0 .. UINT16_MAX
<1>1. UINT16_MAX \in Nat
  BY DEF UINT16_MAX
<1> QED
  BY <1>1 DEF Uint16

LEMMA TypesFollow == InvocationInv => TypeOK
<1> SUFFICES ASSUME InvocationInv PROVE TypeOK
  OBVIOUS
<1>1. /\ pc \in {"parse", "loop", "pause", "asleep", "held", "ended", "elsewhere"}
      /\ ret \in {"none", "SUCCESS", "BUSY", "TIMEOUT", "USAGE"}
  BY DEF InvocationInv, OtherTypes
<1>2. pc \in {"loop", "pause", "asleep", "held"} => opts.mode \in {"hold", "exec"} /\ ret = "none"
  BY DEF InvocationInv, OptionsMakeSense, Waiting
<1>3. opts.max_holders >= 1 /\ opts.timeout >= -1
  BY DEF InvocationInv, OptionsMakeSense
<1>4. /\ wait_ms \in INITIAL_WAIT_MS .. MAX_WAIT_MS + MAX_WAIT_MS \div 10
      /\ now \in Nat /\ wake \in Nat /\ looked \in 0 .. now /\ since \in 0 .. now
  BY DEF InvocationInv, ClockInv, INITIAL_WAIT_MS, MAX_WAIT_MS
<1>5. free \in BOOLEAN
  BY Zenon DEF InvocationInv, OtherTypes
<1>6. record.max_holders \in 0 .. UINT16_MAX /\ record.slot \in 0 .. UINT16_MAX
  BY Zenon DEF InvocationInv, OtherTypes
<1>7. depth \in 0 .. MaxDepth /\ outer \in -1 .. UINT16_MAX
  BY Zenon DEF InvocationInv, OtherTypes
<1> QED
  BY <1>1, <1>2, <1>3, <1>4, <1>5, <1>6, <1>7, Zenon DEF TypeOK

LEMMA InitInv == Init => InvocationInv
<1> SUFFICES ASSUME Init PROVE InvocationInv
  OBVIOUS
<1>1. EnvironmentKept /\ Sound(parsed)
  BY EnvironmentSound DEF Init, EnvironmentKept
<1>2. OptionsMakeSense /\ RecordWritten /\ ParseAnswersNothing
  BY DEF Init, OptionsMakeSense, RecordWritten, ParseAnswersNothing, Unsettled, Waiting
<1>3. ClockInv
  BY DEF Init, ClockInv, FreeSinceLook, NapLeavesTime, INITIAL_WAIT_MS
<1>4. OtherTypes
  BY RecordTypes DEF Init, OtherTypes, NoRecord
<1> QED
  BY <1>1, <1>2, <1>3, <1>4 DEF InvocationInv

(* parse_args *)
LEMMA ParseSteps ==
    ASSUME InvocationInv, ReadToken \/ Refuse \/ Settle
    PROVE  InvocationInv'
<1> USE DEF InvocationInv
<1>1. CASE ReadToken
  <2>1. Sound(parsed)'
    BY <1>1, ReadSound DEF ReadToken
  <2>2. EnvironmentKept' /\ OptionsMakeSense' /\ RecordWritten' /\ ParseAnswersNothing'
    BY <1>1 DEF ReadToken, EnvironmentKept, OptionsMakeSense, RecordWritten, ParseAnswersNothing, Waiting
  <2>3. ClockInv'
    BY <1>1 DEF ReadToken, clock, world, ClockInv, FreeSinceLook, NapLeavesTime
  <2>4. OtherTypes'
    BY <1>1 DEF ReadToken, clock, world, nested, OtherTypes
  <2> QED
    BY <2>1, <2>2, <2>3, <2>4
<1>2. CASE Refuse
  <2>1. pc' = "ended" /\ ret' \in {"USAGE", "SUCCESS"}
    BY <1>2 DEF Refuse, Ends, Sound, Parse
  <2>2. Sound(parsed)' /\ EnvironmentKept' /\ OptionsMakeSense' /\ RecordWritten' /\ ParseAnswersNothing'
    BY <1>2, <2>1 DEF Refuse, start, Sound, EnvironmentKept, OptionsMakeSense, RecordWritten, ParseAnswersNothing, Waiting
  <2>3. ClockInv'
    BY <1>2, <2>1 DEF Refuse, clock, world, ClockInv, FreeSinceLook, NapLeavesTime
  <2>4. OtherTypes'
    BY <1>2, <2>1 DEF Refuse, clock, world, nested, OtherTypes
  <2> QED
    BY <2>2, <2>3, <2>4
<1>3. CASE Settle
  <2>1. PICK stdin \in Inputs :
          LET p == Accept(parsed, stdin)
          IN  IF p.answer # "go" THEN Ends(p.answer) /\ UNCHANGED opts
              ELSE /\ opts' = Settled(p.opts)
                   /\ pc' = IF Mode(p.opts) \in {"hold", "exec"} THEN "loop" ELSE "elsewhere"
                   /\ UNCHANGED ret
    BY <1>3, Zenon DEF Settle
  <2>2. /\ pc = "parse" /\ parsed.answer = "go"
        /\ parsed' = FromEnvironment(env) /\ free' \in BOOLEAN
        /\ UNCHANGED <<env, now, wait_ms, wake, looked, since, record, depth, outer>>
    BY <1>3 DEF Settle, clock, nested
  <2>3. Sound(parsed)' /\ EnvironmentKept'
    BY <2>2, EnvironmentSound DEF EnvironmentKept
  <2>4. CASE Accept(parsed, stdin).answer # "go"
    <3>1. pc' = "ended" /\ ret' \in {"USAGE", "SUCCESS"} /\ opts' = opts
      <4>1. Accept(parsed, stdin).answer \in {"go", "USAGE", "SUCCESS"}
        BY AcceptAnswer
      <4> QED
        BY <2>1, <2>4, <4>1 DEF Ends
    <3>2. OptionsMakeSense' /\ RecordWritten' /\ ParseAnswersNothing'
      BY <2>2, <3>1 DEF OptionsMakeSense, RecordWritten, ParseAnswersNothing, Waiting
    <3>3. ClockInv'
      BY <2>2, <3>1 DEF ClockInv, FreeSinceLook, NapLeavesTime
    <3>4. OtherTypes'
      BY <2>2, <3>1 DEF OtherTypes
    <3> QED
      BY <2>3, <3>2, <3>3, <3>4
  <2>5. CASE Accept(parsed, stdin).answer = "go"
    <3> DEFINE o == Accept(parsed, stdin).opts
    <3>1. /\ opts' = Settled(o) /\ ret' = ret
          /\ pc' = IF Mode(o) \in {"hold", "exec"} THEN "loop" ELSE "elsewhere"
      BY <2>1, <2>5
    <3>2. /\ o.max_holders \in Nat \ {0}
          /\ o.timeout \in Int /\ o.timeout >= -1
          /\ NeedsDescriptor(o) => Acceptable(o.descriptor)
      BY <2>2, <2>5, AcceptSound
    <3>3. Mode(o) \notin {"list", "test"} => NeedsDescriptor(o)
      BY DEF Mode, NeedsDescriptor
    <3> HIDE DEF o
    <3>4. /\ opts'.max_holders = o.max_holders /\ opts'.timeout = o.timeout
          /\ opts'.mode = Mode(o) /\ opts'.descriptor = o.descriptor
      BY <3>1 DEF Settled
    <3>5. ret = "none"
      BY <2>2 DEF ParseAnswersNothing
    <3>6. OptionsMakeSense' /\ RecordWritten' /\ ParseAnswersNothing'
      BY <2>2, <3>1, <3>2, <3>3, <3>4, <3>5 DEF OptionsMakeSense, RecordWritten, ParseAnswersNothing, Waiting
    <3>7. ClockInv'
      BY <2>2, <3>1, <3>2, <3>4, <3>5, LongestDelay
      DEF ClockInv, FreeSinceLook, NapLeavesTime, NotMuchLate, Timed, Deadline
    <3>8. OtherTypes'
      BY <2>2, <3>1, <3>5 DEF OtherTypes
    <3> QED
      BY <2>3, <3>6, <3>7, <3>8
  <2> QED
    BY <2>4, <2>5
<1> QED
  BY <1>1, <1>2, <1>3

(* What the other half of a step leaves alone *)
LEMMA StartUnchanged ==
    ASSUME InvocationInv, UNCHANGED start
    PROVE  Sound(parsed)' /\ EnvironmentKept'
BY DEF InvocationInv, start, Sound, EnvironmentKept

(* acquire_lock gives an answer *)
LEMMA AnswerSteps ==
    ASSUME InvocationInv, GiveUp \/ Busy
    PROVE  InvocationInv'
<1>1. /\ pc = "loop" /\ pc' = "ended"
      /\ UNCHANGED <<start, opts, now, wait_ms, wake, looked, free, since, record, depth, outer>>
      /\ ret' = "BUSY" \/ (ret' = "TIMEOUT" /\ Timed /\ now >= Deadline)
  BY DEF GiveUp, Busy, Ends, TimeIsUp, clock, world, nested
<1>2. Sound(parsed)' /\ EnvironmentKept'
  BY <1>1, StartUnchanged
<1>3. OptionsMakeSense' /\ RecordWritten' /\ ParseAnswersNothing'
  BY <1>1 DEF InvocationInv, OptionsMakeSense, RecordWritten, ParseAnswersNothing, Waiting
<1>4. ClockInv'
  <2>1. NotMuchLate' /\ (Timed /\ now >= Deadline => (Timed /\ now >= Deadline)')
    BY <1>1 DEF InvocationInv, ClockInv, NotMuchLate, FitsName, Deadline, Timed
  <2>2. ret' = "TIMEOUT" => (pc = "ended" /\ Timed /\ now >= Deadline)' /\ NotMuchLate'
    BY <1>1, <2>1
  <2> QED
    BY <1>1, <2>2 DEF InvocationInv, ClockInv, FreeSinceLook, NapLeavesTime
<1>5. OtherTypes'
  BY <1>1 DEF InvocationInv, OtherTypes
<1> QED
  BY <1>2, <1>3, <1>4, <1>5 DEF InvocationInv

LEMMA ClaimStep ==
    ASSUME InvocationInv, Claim
    PROVE  InvocationInv'
<1>1. /\ pc = "loop" /\ pc' = "held"
      /\ UNCHANGED <<start, opts, ret, now, wait_ms, wake, looked, free, since, depth, outer>>
  BY DEF Claim, clock, world, nested
<1>2. PICK slot \in Nat : record' = Written(slot)
  BY DEF Claim, Least, InvocationInv, OptionsMakeSense
<1>3. Sound(parsed)' /\ EnvironmentKept'
  BY <1>1, StartUnchanged
<1>4. OptionsMakeSense' /\ ParseAnswersNothing'
  BY <1>1 DEF InvocationInv, OptionsMakeSense, ParseAnswersNothing, Waiting
<1>5. RecordWritten'
  BY <1>1, <1>2 DEF RecordWritten, Written
<1>6. ClockInv'
  BY <1>1 DEF InvocationInv, OptionsMakeSense, Waiting, ClockInv, FreeSinceLook, NapLeavesTime
<1>7. OtherTypes'
  <2>1. opts.max_holders \in Nat
    BY DEF InvocationInv, OptionsMakeSense
  <2>2. record'.max_holders \in 0 .. UINT16_MAX /\ record'.slot \in 0 .. UINT16_MAX
    BY <1>2, <2>1, RecordTypes DEF Written
  <2> QED
    BY <1>1, <2>2 DEF InvocationInv, OtherTypes
<1> QED
  BY <1>3, <1>4, <1>5, <1>6, <1>7 DEF InvocationInv

LEMMA InVainStep ==
    ASSUME InvocationInv, InVain
    PROVE  InvocationInv'
<1>1. /\ pc = "loop" /\ pc' = "pause" /\ looked' = now
      /\ ~ TimeIsUp /\ (~ free \/ ~ FitsName)
      /\ UNCHANGED <<start, opts, ret, now, wait_ms, wake, free, since, record, depth, outer>>
  BY DEF InVain, world, nested
<1>2. Sound(parsed)' /\ EnvironmentKept'
  BY <1>1, StartUnchanged
<1>3. OptionsMakeSense' /\ RecordWritten' /\ ParseAnswersNothing'
  BY <1>1 DEF InvocationInv, OptionsMakeSense, RecordWritten, ParseAnswersNothing, Waiting
<1>4. ClockInv'
  <2>1. ret' = "none"
    BY <1>1 DEF InvocationInv, OptionsMakeSense, Waiting
  <2>2. FreeSinceLook'
    BY <1>1 DEF FreeSinceLook, FitsName
  <2>3. Timed' => now < Deadline'
    BY <1>1 DEF TimeIsUp, Timed, Deadline, InvocationInv, OptionsMakeSense, ClockInv
  <2> QED
    BY <1>1, <2>1, <2>2, <2>3 DEF InvocationInv, ClockInv, NapLeavesTime
<1>5. OtherTypes'
  BY <1>1 DEF InvocationInv, OtherTypes
<1> QED
  BY <1>2, <1>3, <1>4, <1>5 DEF InvocationInv

LEMMA PauseStep ==
    ASSUME InvocationInv, Pause
    PROVE  InvocationInv'
<1>1. PICK t \in Later(now) :
         /\ now' = t
         /\ \/ Timed /\ Remaining(t) <= 0 /\ Ends("TIMEOUT") /\ UNCHANGED wake
            \/ /\ Timed => Remaining(t) > 0
               /\ wake' = t + 1000 * (IF Timed THEN Nap(wait_ms, Remaining(t)) ELSE wait_ms)
               /\ pc' = "asleep"
               /\ UNCHANGED ret
  BY DEF Pause
<1>2. /\ pc = "pause"
      /\ UNCHANGED <<start, opts, wait_ms, looked, free, since, record, depth, outer>>
  BY DEF Pause, world, nested
<1>3. /\ now \in Nat /\ looked = now /\ since \in Nat /\ since <= now
      /\ opts.timeout \in Int /\ wait_ms \in 10 .. 1100 /\ ret = "none"
      /\ free /\ FitsName => since >= looked
      /\ Timed => now < Deadline
  BY <1>2 DEF InvocationInv, ClockInv, FreeSinceLook, OptionsMakeSense, Waiting
<1>4. t \in Nat /\ t >= now /\ t - now <= LateBy /\ LateBy \in Nat
  BY <1>3, LongestDelay DEF Later
<1>5. Sound(parsed)' /\ EnvironmentKept'
  BY <1>2, StartUnchanged
<1>6. CASE Timed /\ Remaining(t) <= 0 /\ Ends("TIMEOUT") /\ UNCHANGED wake
  <2>1. pc' = "ended" /\ ret' = "TIMEOUT"
    BY <1>6 DEF Ends
  <2>2. OptionsMakeSense' /\ RecordWritten' /\ ParseAnswersNothing'
    BY <1>2, <2>1 DEF InvocationInv, OptionsMakeSense, RecordWritten, ParseAnswersNothing, Waiting
  <2>3. Timed' /\ now' >= Deadline' /\ NotMuchLate'
    BY <1>1, <1>2, <1>3, <1>4, <1>6 DEF Remaining, Timed, Deadline, NotMuchLate, FitsName
  <2>4. ClockInv'
    BY <1>1, <1>2, <1>3, <1>4, <1>6, <2>1, <2>3
    DEF InvocationInv, ClockInv, FreeSinceLook, NapLeavesTime
  <2>5. OtherTypes'
    BY <1>2, <2>1 DEF InvocationInv, OtherTypes
  <2> QED
    BY <1>5, <2>2, <2>4, <2>5 DEF InvocationInv
<1>7. CASE /\ Timed => Remaining(t) > 0
           /\ wake' = t + 1000 * (IF Timed THEN Nap(wait_ms, Remaining(t)) ELSE wait_ms)
           /\ pc' = "asleep"
           /\ UNCHANGED ret
  <2> DEFINE nap == IF Timed THEN Nap(wait_ms, Remaining(t)) ELSE wait_ms
  <2>1. Timed => Remaining(t) \in Nat \ {0} /\ Remaining(t) = Deadline - t
    BY <1>3, <1>4, <1>7 DEF Remaining, Deadline
  <2>2. /\ nap \in 1 .. 1100
        /\ Timed => nap = 1 \/ 10000 * nap <= 9 * Remaining(t)
    <3>1. wait_ms \in Nat \ {0} /\ wait_ms <= 1100
      BY <1>3
    <3>2. CASE Timed
      <4>1. /\ Nap(wait_ms, Remaining(t)) \in 1 .. wait_ms
            /\ \/ Nap(wait_ms, Remaining(t)) = 1
               \/ 10000 * Nap(wait_ms, Remaining(t)) <= 9 * Remaining(t)
        BY <2>1, <3>1, <3>2, NapBounds
      <4> QED
        BY <3>1, <3>2, <4>1
    <3>3. CASE ~ Timed
      BY <3>1, <3>3
    <3> QED
      BY <3>2, <3>3
  <2> HIDE DEF nap
  <2>3. wake' = t + 1000 * nap
    BY <1>7 DEF nap
  <2>4. OptionsMakeSense' /\ RecordWritten' /\ ParseAnswersNothing'
    BY <1>2, <1>7 DEF InvocationInv, OptionsMakeSense, RecordWritten, ParseAnswersNothing, Waiting
  <2>5. NapLeavesTime'
    <3>1. wake' >= t /\ wake' - looked <= 1100 * 1000 + LateBy
      BY <1>3, <1>4, <2>2, <2>3
    <3>2. Timed => t < Deadline /\ (wake' <= t + 1000 \/ 10 * (wake' - t) <= 9 * (Deadline - t))
      BY <1>3, <1>4, <2>1, <2>2, <2>3 DEF Deadline
    <3> QED
      BY <1>1, <1>2, <3>1, <3>2 DEF NapLeavesTime, Timed, Deadline
  <2>6. FreeSinceLook'
    BY <1>2, <1>3 DEF FreeSinceLook, FitsName
  <2>7. wake' \in Nat
    BY <1>4, <2>2, <2>3
  <2>8. ClockInv'
    BY <1>1, <1>2, <1>3, <1>4, <1>7, <2>5, <2>6, <2>7 DEF ClockInv
  <2>9. OtherTypes'
    BY <1>2, <1>7 DEF InvocationInv, OtherTypes
  <2> QED
    BY <1>5, <2>4, <2>8, <2>9 DEF InvocationInv
<1> QED
  BY <1>1, <1>6, <1>7

LEMMA WakeStep ==
    ASSUME InvocationInv, Wake
    PROVE  InvocationInv'
<1>1. /\ pc = "asleep" /\ pc' = "loop" /\ now' \in Later(IF Timed THEN wake ELSE now)
      /\ UNCHANGED <<start, opts, ret, wake, looked, free, since, record, depth, outer>>
  BY DEF Wake, world, nested
<1>2. wait_ms' \in 10 .. 1100
  <2>1. PICK r \in Nat : wait_ms' = NextWait(wait_ms, r)
    BY DEF Wake
  <2>2. wait_ms \in Nat /\ wait_ms >= 10
    BY DEF InvocationInv, ClockInv
  <2>3. NextWait(wait_ms, r) \in 10 .. 1100
    BY <2>2, NextWaitBounds
  <2> QED
    BY <2>1, <2>3
<1>3. /\ now \in Nat /\ wake \in Nat /\ looked \in Nat /\ since \in Nat
      /\ looked <= now /\ since <= now /\ now - looked <= LateBy /\ wake >= now
      /\ opts.timeout \in Int /\ ret = "none"
      /\ free /\ FitsName => since >= looked
      /\ Timed => now < Deadline /\ (wake <= now + 1000 \/ 10 * (wake - now) <= 9 * (Deadline - now))
  BY <1>1 DEF InvocationInv, ClockInv, FreeSinceLook, NapLeavesTime, OptionsMakeSense, Waiting
<1>4. /\ now' \in Nat /\ now' >= now /\ LateBy \in Nat
      /\ Timed => now' >= wake /\ now' - wake <= LateBy
      /\ ~ Timed => now' = now
  BY <1>1, <1>3, LongestDelay DEF Later
<1>5. Sound(parsed)' /\ EnvironmentKept'
  BY <1>1, StartUnchanged
<1>6. OptionsMakeSense' /\ RecordWritten' /\ ParseAnswersNothing'
  <2>1. opts.mode \in {"hold", "exec"} => Acceptable(opts.descriptor)
    BY <1>1 DEF InvocationInv, OptionsMakeSense, Waiting
  <2> QED
    BY <1>1, <2>1 DEF InvocationInv, OptionsMakeSense, RecordWritten, ParseAnswersNothing, Waiting
<1>7. NotMuchLate'
  <2>1. CASE Timed
    <3>1. now' <= Deadline + 1000 + LateBy
      BY <2>1, <1>3, <1>4 DEF Deadline
    <3>2. now' >= Deadline /\ free /\ FitsName => Deadline - since <= LateBy + 1000 + 10 * LateBy
      BY <2>1, <1>3, <1>4 DEF Deadline
    <3> QED
      BY <1>1, <3>1, <3>2 DEF NotMuchLate, FitsName, Deadline
  <2>2. CASE ~ Timed
    BY <2>2, <1>1, <1>3 DEF NotMuchLate, Timed
  <2> QED
    BY <2>1, <2>2
<1>8. ClockInv'
  BY <1>1, <1>2, <1>3, <1>4, <1>7 DEF ClockInv, FreeSinceLook, NapLeavesTime
<1>9. OtherTypes'
  BY <1>1 DEF InvocationInv, OtherTypes
<1> QED
  BY <1>5, <1>6, <1>8, <1>9 DEF InvocationInv

LEMMA OthersMoveStep ==
    ASSUME InvocationInv, OthersMove
    PROVE  InvocationInv'
<1>1. /\ pc \in {"pause", "asleep"} /\ since' = now /\ free' \in BOOLEAN
      /\ UNCHANGED <<start, opts, pc, ret, now, wait_ms, wake, looked, record, depth, outer>>
  BY DEF OthersMove, clock, nested, InvocationInv, OtherTypes
<1>2. Sound(parsed)' /\ EnvironmentKept'
  BY <1>1, StartUnchanged
<1>3. OptionsMakeSense' /\ RecordWritten' /\ ParseAnswersNothing'
  BY <1>1 DEF InvocationInv, OptionsMakeSense, RecordWritten, ParseAnswersNothing, Waiting
<1>4. ClockInv'
  <2>1. ret = "none"
    BY <1>1 DEF InvocationInv, OptionsMakeSense, Waiting
  <2> QED
    BY <1>1, <2>1 DEF InvocationInv, ClockInv, FreeSinceLook, NapLeavesTime, Timed, Deadline
<1>5. OtherTypes'
  BY <1>1 DEF InvocationInv, OtherTypes
<1> QED
  BY <1>2, <1>3, <1>4, <1>5 DEF InvocationInv

(* execvp() starts from the environment alone. *)
LEMMA NestStep ==
    ASSUME InvocationInv, Nest
    PROVE  InvocationInv'
<1>1. /\ pc = "held" /\ pc' = "parse" /\ depth' = depth + 1 /\ depth < MaxDepth
      /\ parsed' = FromEnvironment(env') /\ opts' = Unsettled
      /\ now' = 0 /\ wait_ms' = INITIAL_WAIT_MS /\ wake' = 0 /\ looked' = 0
      /\ since' = 0 /\ record' = NoRecord
      /\ UNCHANGED <<argc, ret, free>>
      /\ \/ \E slot : env' = [env EXCEPT !.slot = slot]
         \/ env' = env
      /\ outer' \in {-1, record.slot, outer}
  BY DEF Nest
<1>2. ret = "none" /\ opts.max_holders \in Nat
  BY <1>1 DEF InvocationInv, OptionsMakeSense, Waiting
<1>3. EnvironmentKept'
  BY <1>1 DEF InvocationInv, EnvironmentKept
<1>4. Sound(parsed)'
  BY <1>1, <1>3, EnvironmentSound DEF EnvironmentKept
<1>5. OptionsMakeSense' /\ RecordWritten' /\ ParseAnswersNothing'
  <2>1. opts'.max_holders = 1 /\ opts'.timeout = -1
    BY <1>1 DEF Unsettled
  <2>2. OptionsMakeSense'
    BY <1>1, <2>1 DEF OptionsMakeSense, Waiting
  <2> QED
    BY <1>1, <1>2, <2>2 DEF RecordWritten, ParseAnswersNothing
<1>6. ClockInv'
  BY <1>1, <1>2 DEF ClockInv, FreeSinceLook, NapLeavesTime, INITIAL_WAIT_MS
<1>7. OtherTypes'
  BY <1>1, <1>2, RecordTypes DEF InvocationInv, OtherTypes, NoRecord
<1> QED
  BY <1>3, <1>4, <1>5, <1>6, <1>7 DEF InvocationInv

LEMMA Stuttering ==
    ASSUME InvocationInv, UNCHANGED vars
    PROVE  InvocationInv'
<1>1. UNCHANGED <<start, opts, pc, ret, now, wait_ms, wake, looked, free, since, record, depth, outer>>
  BY DEF vars, clock, world, nested
<1>2. Sound(parsed)' /\ EnvironmentKept'
  BY <1>1, StartUnchanged
<1>3. OptionsMakeSense' /\ RecordWritten' /\ ParseAnswersNothing'
  <2>1. OptionsMakeSense'
    BY <1>1 DEF InvocationInv, OptionsMakeSense
  <2> QED
    BY <1>1, <2>1 DEF InvocationInv, RecordWritten, Written, ParseAnswersNothing
<1>4. ClockInv'
  BY <1>1 DEF InvocationInv, ClockInv, FreeSinceLook, NapLeavesTime, NotMuchLate, FitsName, Timed, Deadline
<1>5. OtherTypes'
  BY <1>1 DEF InvocationInv, OtherTypes
<1> QED
  BY <1>2, <1>3, <1>4, <1>5 DEF InvocationInv

(* The invariant from which the theorems follow *)
THEOREM InvocationInvariant == Spec => []InvocationInv
<1>1. InvocationInv /\ [Next]_vars => InvocationInv'
  <2> SUFFICES ASSUME InvocationInv, [Next]_vars PROVE InvocationInv'
    OBVIOUS
  <2> QED
    BY ParseSteps, AnswerSteps, ClaimStep, InVainStep, PauseStep, WakeStep, OthersMoveStep,
       NestStep, Stuttering DEF Next, Run, Finished
<1> QED
  BY <1>1, InitInv, PTL DEF Spec

-----------------------------------------------------------------------------
(* The state keeps its type: wait_ms its range, the clock its order.       *)
THEOREM TypesKept == Spec => []TypeOK
BY InvocationInvariant, TypesFollow, PTL

(* --check and acquire_lock agree for every limit of 16 bits.              *)
THEOREM CheckAndAcquireAgree == Spec => []CheckAgrees
<1>1. InvocationInv => CheckAgrees
  <2> SUFFICES ASSUME InvocationInv, pc = "held", opts.max_holders <= UINT16_MAX + 1,
                      NEW holders \in 1 .. 3
               PROVE  /\ holders >= opts.max_holders => holders >= record.max_holders
                      /\ opts.max_holders <= UINT16_MAX /\ holders >= record.max_holders
                           => holders >= opts.max_holders
    BY DEF CheckAgrees
  <2>1. record.max_holders = Uint16(opts.max_holders) /\ opts.max_holders \in Nat
    BY DEF InvocationInv, RecordWritten, OptionsMakeSense, Written
  <2>2. UINT16_MAX \in Nat
    BY RecordTypes
  <2>3. CASE opts.max_holders <= UINT16_MAX
    BY <2>1, <2>2, <2>3 DEF Uint16
  <2>4. CASE opts.max_holders = UINT16_MAX + 1
    BY <2>1, <2>2, <2>4 DEF Uint16
  <2> QED
    BY <2>1, <2>2, <2>3, <2>4
<1> QED
  BY <1>1, InvocationInvariant, PTL

(* TIMEOUT comes when it is due, for every timeout and every delay.        *)
THEOREM TimeoutIsInTime == Spec => []TimeoutInTime
<1>1. InvocationInv => TimeoutInTime
  BY DEF InvocationInv, ClockInv, NotMuchLate, TimeoutInTime
<1> QED
  BY <1>1, InvocationInvariant, PTL

(* No lock is missed that was free eleven delays and a millisecond before  *)
(* the deadline.                                                           *)
THEOREM FreeLockIsTaken == Spec => []FreeLockTaken
<1>1. InvocationInv => FreeLockTaken
  BY DEF InvocationInv, ClockInv, NotMuchLate, FreeLockTaken
<1> QED
  BY <1>1, InvocationInvariant, PTL

(* Whoever waits looks again within 1.1 s.                                 *)
THEOREM AlwaysLooksAgain == Spec => []LooksAgain
<1>1. InvocationInv => LooksAgain
  BY DEF InvocationInv, ClockInv, NapLeavesTime, LooksAgain
<1> QED
  BY <1>1, InvocationInvariant, PTL

-----------------------------------------------------------------------------
(* WAITLOCK_SLOT *)

(* What parse_args makes of it (core.c:102-108) *)
Inherited(e) == IF e.slot = None \/ Atoi(e.slot) < 0 THEN -1 ELSE Atoi(e.slot)

(* The number that was exported, and the one the nested run prefers while  *)
(* it reads its options, is the slot of the exporter.                      *)
SlotsHandedDown ==
    /\ pc = "held" => record.slot \in {0, 1}
    /\ outer >= 0 => Inherited(env) <= outer /\ parsed.opts.preferred_slot <= outer

LEMMA EnvironmentPrefers ==
    ASSUME NEW e
    PROVE  FromEnvironment(e).opts.preferred_slot = Inherited(e)
<1> DEFINE slot == IF e.slot = None \/ Atoi(e.slot) < 0 THEN -1 ELSE Atoi(e.slot)
           time == IF e.timeout = None THEN Defaults.timeout ELSE Atof(e.timeout)
           o    == [Defaults EXCEPT !.timeout = time, !.lock_dir = e.dir, !.preferred_slot = slot]
           p    == [opts |-> o, awaiting |-> None, answer |-> "go"]
<1>1. FromEnvironment(e) = OrUsage(e.timeout = None \/ o.timeout >= 0, p)
  BY Zenon DEF FromEnvironment
<1> HIDE DEF slot, time
<1>2. o.preferred_slot = slot
  BY DEF Defaults
<1> HIDE DEF o
<1>3. p.opts = o /\ Usage(p).opts = o
  BY DEF Usage
<1> HIDE DEF p
<1>4. FromEnvironment(e).opts = o
  BY <1>1, <1>3 DEF OrUsage
<1> QED
  BY <1>2, <1>4 DEF Inherited, slot

(* No option changes the preferred slot. *)
LEMMA ReadPrefers ==
    ASSUME NEW p, Sound(p), p.answer = "go", NEW tok \in Token
    PROVE  Read(p, tok).opts.preferred_slot = p.opts.preferred_slot
<1> DEFINE Same(q) == q.opts.preferred_slot = p.opts.preferred_slot
<1>1. p \in Parse /\ p.opts \in Options
  BY DEF Sound, Parse
<1>2. \A q \in Parse : Same(q) => Same(Usage(q))
  BY DEF Usage, Parse
<1>3. CASE p.awaiting = "-e"
  <2>1. Same([p EXCEPT !.opts.command = TRUE])
    BY <1>1 DEF Parse, Options
  <2> QED
    BY <1>3, <2>1 DEF Read, WithArgument
<1>4. CASE p.awaiting \in WithArgument
  <2> DEFINE q == [p EXCEPT !.awaiting = None]
  <2>1. q \in Parse /\ q.opts = p.opts /\ q.opts \in Options /\ Same(q)
    BY <1>1 DEF Parse
  <2> HIDE DEF q
  <2>2. \A n \in Int :
          /\ [q EXCEPT !.opts.max_holders = n] \in Parse /\ Same([q EXCEPT !.opts.max_holders = n])
          /\ Same([q EXCEPT !.opts.exclude_cpus = n])
          /\ [q EXCEPT !.opts.timeout = n] \in Parse /\ Same([q EXCEPT !.opts.timeout = n])
    BY <2>1 DEF Parse, Options
  <2>3. Same([q EXCEPT !.opts.lock_dir = tok])
    BY <2>1 DEF Parse, Options
  <2>4. \A ok, r : r \in Parse /\ Same(r) => Same(OrUsage(ok, r))
    BY <1>2 DEF OrUsage
  <2>5. Atoi(tok) \in Int /\ Atof(tok) \in Int
    BY NumberTypes
  <2> HIDE DEF Same
  <2>6. /\ Same(OrUsage(Atoi(tok) >= 1, [q EXCEPT !.opts.max_holders = Atoi(tok)]))
        /\ Same([q EXCEPT !.opts.exclude_cpus = Atoi(tok)])
        /\ Same(OrUsage(Atof(tok) >= 0, [q EXCEPT !.opts.timeout = Atof(tok)]))
    BY <2>2, <2>4, <2>5
  <2>7. Same(OrUsage(tok \in Format, q)) /\ Same(OrUsage(tok \in Facility, q))
    BY <2>1, <2>4
  <2>8. Same(Argument(p, tok))
    BY <1>4, <2>3, <2>6, <2>7, Zenon DEF Argument, WithArgument, q
  <2>9. Read(p, tok) = Argument(p, tok)
    BY <1>4 DEF Read, WithArgument
  <2> QED
    BY <2>8, <2>9 DEF Same
<1>5. CASE p.awaiting \notin WithArgument \cup {"-e"}
  <2>1. /\ Same([p EXCEPT !.answer = "SUCCESS"])
        /\ Same([p EXCEPT !.awaiting = tok])
        /\ Same([p EXCEPT !.opts.set = @ \cup {tok}])
        /\ Same(Usage(p))
    BY <1>1, <1>2 DEF Parse, Options
  <2>2. Same(OrUsage(p.opts.descriptor = None, [p EXCEPT !.opts.descriptor = tok]))
    <3> DEFINE r == [p EXCEPT !.opts.descriptor = tok]
    <3>1. r \in Parse /\ Same(r)
      BY <1>1 DEF Parse, Options
    <3>2. Same(Usage(r))
      BY <1>2, <3>1
    <3> HIDE DEF r, Same
    <3>3. Same(OrUsage(p.opts.descriptor = None, r))
      BY <3>1, <3>2, Zenon DEF OrUsage
    <3> QED
      BY <3>3 DEF r
  <2>3. Read(p, tok) = Option(p, tok)
    BY <1>5 DEF Read
  <2> HIDE DEF Same
  <2>4. Same(Option(p, tok))
    BY <2>1, <2>2, Zenon DEF Option
  <2> QED
    BY <2>3, <2>4 DEF Same
<1> QED
  BY <1>3, <1>4, <1>5

(* The number that is exported is the claimed slot. *)
LEMMA ExportedNumber ==
    ASSUME NEW n \in {0, 1}, NEW e, e.slot = Digits(n)
    PROVE  Inherited(e) \in {-1, n}
<1>1. Digits(n) \in DOMAIN Integer /\ Integer[Digits(n)] = n
  BY SlotNumbersAssumption DEF Digits
<1> QED
  BY <1>1 DEF Inherited, Atoi

LEMMA SlotsStep ==
    ASSUME InvocationInv, SlotsHandedDown, [Next]_vars
    PROVE  SlotsHandedDown'
<1> USE DEF SlotsHandedDown
<1>1. Inherited(env) \in Int /\ outer \in Int
  BY NumberTypes, RecordTypes DEF Inherited, InvocationInv, OtherTypes
<1>2. CASE ReadToken
  <2>1. parsed'.opts.preferred_slot = parsed.opts.preferred_slot
    BY <1>2, ReadPrefers DEF ReadToken, InvocationInv
  <2> QED
    BY <1>2, <2>1 DEF ReadToken, nested, Inherited
<1>3. CASE Settle
  <2>1. pc' # "held" /\ env' = env /\ outer' = outer /\ parsed' = FromEnvironment(env)
    BY <1>3 DEF Settle, Ends, nested
  <2> QED
    BY <2>1, EnvironmentPrefers DEF Inherited
<1>4. CASE Claim
  <2>1. PICK slot \in 0 .. Least(opts.max_holders, 2) - 1 : record' = Written(slot)
    BY <1>4 DEF Claim
  <2>2. slot \in {0, 1}
    BY <2>1 DEF Least, InvocationInv, OptionsMakeSense
  <2>3. record'.slot = slot
    BY <2>1, <2>2 DEF Written, Uint16, UINT16_MAX
  <2> QED
    BY <1>4, <2>2, <2>3 DEF Claim, start, nested, Inherited
<1>5. CASE Nest
  <2>1. /\ pc = "held" /\ pc' = "parse" /\ parsed' = FromEnvironment(env')
        /\ opts.max_holders > 1 =>
             /\ env' = [env EXCEPT !.slot = Digits(ExportedSlot)]
             /\ outer' = IF Misled THEN -1 ELSE record.slot
        /\ ~ (opts.max_holders > 1) => env' = env /\ outer' = outer
    BY <1>5 DEF Nest
  <2>2. outer' >= 0 => Inherited(env') <= outer'
    <3>1. CASE opts.max_holders > 1 /\ ~ Misled
      <4>1. ExportedSlot = record.slot /\ outer' = record.slot
        BY <2>1, <3>1 DEF ExportedSlot, Misled
      <4>2. env'.slot = Digits(record.slot)
        BY <2>1, <3>1, <4>1 DEF InvocationInv, EnvironmentKept
      <4>3. Inherited(env') \in {-1, record.slot}
        BY <2>1, <4>2, ExportedNumber
      <4> QED
        BY <2>1, <4>1, <4>3
    <3>2. CASE opts.max_holders > 1 /\ Misled
      BY <2>1, <3>2
    <3>3. CASE ~ (opts.max_holders > 1)
      BY <2>1, <3>3
    <3> QED
      BY <3>1, <3>2, <3>3
  <2> QED
    BY <2>1, <2>2, EnvironmentPrefers
<1>6. CASE \/ Refuse \/ GiveUp \/ Busy \/ InVain \/ Pause \/ Wake \/ OthersMove \/ UNCHANGED vars
  <2>1. /\ pc' = "held" => pc = "held" /\ UNCHANGED <<record, opts>>
        /\ UNCHANGED <<env, parsed, outer>>
    BY <1>6 DEF Refuse, GiveUp, Busy, InVain, Pause, Wake, OthersMove, Ends, start, nested, vars
  <2> QED
    BY <2>1 DEF Inherited
<1> QED
  BY <1>2, <1>3, <1>4, <1>5, <1>6 DEF Next, Run, Finished

(* Two parses that differ in the preferred slot alone: where it is the one *)
(* a limit allows, it makes no difference.                                 *)
LEMMA PreferenceHarmless ==
    ASSUME NEW p, Sound(p), p.answer = "go", NEW stdin, NEW slot \in Int,
           p.opts.preferred_slot <= slot,
           Accept([p EXCEPT !.opts.preferred_slot = -1], stdin).answer = "go",
           Accept([p EXCEPT !.opts.preferred_slot = -1], stdin).opts.max_holders > slot
    PROVE  Accept(p, stdin).answer = "go"
<1> DEFINE o == [p.opts EXCEPT !.max_holders = Limit(p.opts), !.descriptor = Descriptor(p.opts, stdin)]
           q == [p EXCEPT !.opts = o]
           ok == /\ p.awaiting \notin WithArgument /\ (p.awaiting = "-e" => o.command)
                 /\ NeedsDescriptor(o) => Acceptable(o.descriptor)
                 /\ o.preferred_slot < o.max_holders
           p1 == [p EXCEPT !.opts.preferred_slot = -1]
           o1 == [p1.opts EXCEPT !.max_holders = Limit(p1.opts), !.descriptor = Descriptor(p1.opts, stdin)]
           q1 == [p1 EXCEPT !.opts = o1]
           ok1 == /\ p1.awaiting \notin WithArgument /\ (p1.awaiting = "-e" => o1.command)
                  /\ NeedsDescriptor(o1) => Acceptable(o1.descriptor)
                  /\ o1.preferred_slot < o1.max_holders
<1>1. Accept(p, stdin) = OrUsage(ok, q) /\ Accept(p1, stdin) = OrUsage(ok1, q1)
  BY Zenon DEF Accept
<1>2. p \in Parse /\ p.opts \in Options
  BY DEF Sound, Parse
<1>3. /\ p1 \in Parse /\ p1.awaiting = p.awaiting /\ p1.answer = "go" /\ p1.opts \in Options
      /\ p1.opts.set = p.opts.set /\ p1.opts.command = p.opts.command
      /\ p1.opts.max_holders = p.opts.max_holders /\ p1.opts.exclude_cpus = p.opts.exclude_cpus
      /\ p1.opts.descriptor = p.opts.descriptor
  BY <1>2 DEF Parse, Options
<1> HIDE DEF p1
<1>4. Limit(p1.opts) = Limit(p.opts) /\ Descriptor(p1.opts, stdin) = Descriptor(p.opts, stdin)
  BY <1>3 DEF Limit, Descriptor, NeedsDescriptor
<1>5. /\ o.set = p.opts.set /\ o.command = p.opts.command /\ o.preferred_slot = p.opts.preferred_slot
      /\ o.max_holders = Limit(p.opts) /\ o.descriptor = Descriptor(p.opts, stdin)
  BY <1>2 DEF Options
<1>6. /\ o1.set = p.opts.set /\ o1.command = p.opts.command
      /\ o1.max_holders = Limit(p.opts) /\ o1.descriptor = Descriptor(p.opts, stdin)
  BY <1>3, <1>4 DEF Options
<1>7. q.answer = "go" /\ q1.opts = o1 /\ Usage(q1).answer = "USAGE"
  BY <1>2, <1>3 DEF Parse, Usage
<1>8. ok1 /\ o1.max_holders > slot
  <2>1. OrUsage(ok1, q1).answer = "go" /\ OrUsage(ok1, q1).opts.max_holders > slot
    BY <1>1 DEF p1
  <2> HIDE DEF ok1, q1, o1
  <2> QED
    BY <1>7, <2>1 DEF OrUsage
<1>9. ok
  <2>1. NeedsDescriptor(o) = NeedsDescriptor(o1)
    BY <1>5, <1>6 DEF NeedsDescriptor
  <2>2. Limit(p.opts) \in Int /\ p.opts.preferred_slot \in Int
    BY <1>2 DEF Limit, Cpus, Options
  <2> HIDE DEF o, o1
  <2> QED
    BY <1>3, <1>5, <1>6, <1>8, <2>1, <2>2
<1> HIDE DEF ok, q
<1> QED
  BY <1>1, <1>7, <1>9 DEF OrUsage

(* Under any number of nested invocations, whatever their command lines,   *)
(* no run is refused for the slot it inherits while its limit is above the *)
(* slot that the exporter holds, unless a ".slot" in the exporter's own    *)
(* directory or descriptor misled it (process.c:159-168, core.c:278-282).  *)
THEOREM NestedIsNotRefused == Spec => []NestedNotRefused
<1>1. InvocationInv /\ SlotsHandedDown => NestedNotRefused
  <2> SUFFICES ASSUME InvocationInv, SlotsHandedDown PROVE NestedNotRefused
    OBVIOUS
  <2>1. outer \in Int /\ Sound(parsed)
    BY RecordTypes DEF InvocationInv, OtherTypes
  <2> QED
    BY <2>1, PreferenceHarmless DEF SlotsHandedDown, NestedNotRefused
<1>2. Init => SlotsHandedDown
  BY DEF Init, SlotsHandedDown
<1>3. InvocationInv /\ SlotsHandedDown /\ [Next]_vars => SlotsHandedDown'
  BY SlotsStep
<1> QED
  BY <1>1, <1>2, <1>3, InvocationInvariant, PTL DEF Spec
=============================================================================
