------------------------------ MODULE Arguments ------------------------------
(***************************************************************************)
(* The command line and the environment of one invocation: what parse_args *)
(* makes of them, one token after the other.  Options are named by their   *)
(* short form.                                                             *)
(***************************************************************************)
EXTENDS Integers

CONSTANTS
    Dashed,      \* the tokens that begin with a dash
    Integer,     \* Integer[tok]: what atoi() makes of a token, where not zero
    Micros,      \* Micros[tok]: what atof() makes of it, in microseconds
    Length,      \* Length[tok]: its length in characters
    WellFormed,  \* the tokens made of letters, digits, '_', '-' and '.' only
    FirstPart,   \* FirstPart[tok]: the first MAX_DESC_LEN characters of a longer one
    None,        \* no token: not set, not given, end of input
    OnlineCpus   \* what the system says of the number of CPUs, -1 where it fails

MAX_DESC_LEN == 255

ASSUME CpusAssumption == OnlineCpus \in Int
ASSUME NumbersAssumption ==
    /\ \A t \in DOMAIN Integer : Integer[t] \in Int
    /\ \A t \in DOMAIN Micros : Micros[t] \in Int

Atoi(tok) == IF tok \in DOMAIN Integer THEN Integer[tok] ELSE 0
Atof(tok) == IF tok \in DOMAIN Micros THEN Micros[tok] ELSE 0

Switch == {"-c", "--check", "--done", "-l", "--test", "-a", "--stale-only", "-q", "-v", "--syslog"}

(* Options whose argument must be one of a few words; facilities in any case *)
Format   == {"human", "csv", "null"}
Facility == {"daemon", "user", "mail", "news", "uucp", "cron", "authpriv", "syslog", "local0",
             "local1", "local2", "local3", "local4", "local5", "local6", "local7"}

WithArgument == {"-m", "-x", "-t", "-d", "-f", "--syslog-facility"}

Defaults ==
    [descriptor |-> None, max_holders |-> 1, exclude_cpus |-> 0, timeout |-> -1,
     lock_dir |-> None, set |-> {}, command |-> FALSE, preferred_slot |-> -1]

(* A parse under way: the options so far, the option that still wants its  *)
(* argument, and "go" or the answer that ends it.                          *)
Usage(p) == [p EXCEPT !.answer = "USAGE"]

OrUsage(ok, p) == IF ok THEN p ELSE Usage(p)

FromEnvironment(env) ==
    LET slot == IF env.slot = None \/ Atoi(env.slot) < 0 THEN -1 ELSE Atoi(env.slot)
        o    == [Defaults EXCEPT !.timeout  = IF env.timeout = None THEN @ ELSE Atof(env.timeout),
                                 !.lock_dir = env.dir,
                                 !.preferred_slot = slot]
    IN  OrUsage(env.timeout = None \/ o.timeout >= 0,
                [opts |-> o, awaiting |-> None, answer |-> "go"])

(* Any token will do for an argument, one that looks like an option too. *)
Argument(p, tok) ==
    LET q == [p EXCEPT !.awaiting = None]
    IN  CASE p.awaiting = "-m" -> OrUsage(Atoi(tok) >= 1, [q EXCEPT !.opts.max_holders = Atoi(tok)])
          [] p.awaiting = "-x" -> [q EXCEPT !.opts.exclude_cpus = Atoi(tok)]
          [] p.awaiting = "-t" -> OrUsage(Atof(tok) >= 0, [q EXCEPT !.opts.timeout = Atof(tok)])
          [] p.awaiting = "-d" -> [q EXCEPT !.opts.lock_dir = tok]
          [] p.awaiting = "-f" -> OrUsage(tok \in Format, q)
          [] p.awaiting = "--syslog-facility" -> OrUsage(tok \in Facility, q)

Option(p, tok) ==
    CASE tok \in {"-h", "-V"}                     -> [p EXCEPT !.answer = "SUCCESS"]
      [] tok \in WithArgument \cup {"-e"}         -> [p EXCEPT !.awaiting = tok]
      [] tok \in Switch                           -> [p EXCEPT !.opts.set = @ \cup {tok}]
      [] tok \in Dashed \ (WithArgument \cup Switch \cup {"-h", "-V", "-e"}) -> Usage(p)
      [] OTHER -> OrUsage(p.opts.descriptor = None, [p EXCEPT !.opts.descriptor = tok])

(* The next token while the parse goes on.  What follows -e is the         *)
(* command, whatever it looks like.                                        *)
Read(p, tok) ==
    CASE p.awaiting = "-e"               -> [p EXCEPT !.opts.command = TRUE]
      [] p.awaiting \in WithArgument     -> Argument(p, tok)
      [] OTHER                           -> Option(p, tok)

(* get_cpu_count *)
Cpus == IF OnlineCpus > 0 THEN OnlineCpus ELSE 1

(* Mutant: as many CPUs as there are may be reserved. *)
LimitUnchecked(o) == IF "-c" \in o.set THEN Cpus - o.exclude_cpus ELSE o.max_holders

(* -c overrides -m, wherever it stands, and is never below one. *)
Limit(o) ==
    IF "-c" \notin o.set THEN o.max_holders
    ELSE IF Cpus - o.exclude_cpus < 1 THEN 1 ELSE Cpus - o.exclude_cpus

NeedsDescriptor(o) == {"-l", "--test"} \cap o.set = {}

(* A line of standard input takes the place of the missing descriptor; the *)
(* buffer cuts it where an argument would be refused.                      *)
Descriptor(o, stdin) ==
    IF o.descriptor # None \/ ~ NeedsDescriptor(o) THEN o.descriptor
    ELSE IF stdin # None /\ Length[stdin] > MAX_DESC_LEN THEN FirstPart[stdin]
    ELSE stdin

Acceptable(desc) == desc # None /\ desc \in WellFormed /\ Length[desc] <= MAX_DESC_LEN

(* The checks after the last token *)
Accept(p, stdin) ==
    LET o == [p.opts EXCEPT !.max_holders = Limit(p.opts), !.descriptor = Descriptor(p.opts, stdin)]
    IN  OrUsage(/\ p.awaiting \notin WithArgument /\ (p.awaiting = "-e" => o.command)
                /\ NeedsDescriptor(o) => Acceptable(o.descriptor)
                /\ o.preferred_slot < o.max_holders,
                [p EXCEPT !.opts = o])

(* main: the first of these that was asked for; the rest is disregarded. *)
Mode(o) ==
    IF "--test" \in o.set THEN "test"
    ELSE IF "-l" \in o.set THEN "list"
    ELSE IF "--check" \in o.set THEN "check"
    ELSE IF "--done" \in o.set THEN "done"
    ELSE IF o.command THEN "exec" ELSE "hold"
=============================================================================
