---------------------------- MODULE MCInvocation -----------------------------
(***************************************************************************)
(* Command lines of up to four of the tokens below in several environments *)
(* and with several standard inputs, on two CPUs.  The number tokens are   *)
(* read differently by atoi() and by atof(): "2e-2" is 2 and 20 ms,        *)
(* "65536e-9" is 65536 and 65 microseconds.  11048894 is one less than a   *)
(* multiple of 3, 5, 9, 17, 33, 65 and 101, so that rand() gives now the   *)
(* least jitter and now the most.                                          *)
(***************************************************************************)
EXTENDS Invocation

Number == {"-1", "0", "1", "7", "2e-2", "65536e-9"}

Tokens == {"-m", "-c", "-x", "-t", "-e", "-h", "-l", "--bad", "2e-2", "65536e-9", "a.slot7", "long"}

OptionTokens == {"-m", "-c", "-x", "-t", "-e", "-h", "-l", "--bad", "-1"}

Lines == {"none", "huge"}

Surroundings ==
    {[timeout |-> "none", slot |-> "-1", dir |-> "none"],
     [timeout |-> "none", slot |-> "none", dir |-> "a.slot7"],
     [timeout |-> "-1", slot |-> "none", dir |-> "none"]}

Integers ==
    [t \in Number |-> CASE t = "-1" -> -1 [] t = "0" -> 0 [] t = "1" -> 1 [] t = "7" -> 7
                        [] t = "2e-2" -> 2 [] t = "65536e-9" -> 65536]

Microseconds ==
    [t \in Number |-> CASE t = "2e-2" -> 20000 [] t = "65536e-9" -> 65 [] OTHER -> 1000000 * Integers[t]]

Names   == {"a.slot7", "long", "hug"} \cup (Number \ {"-1"})
Lengths ==
    [t \in Names \cup {"huge"} |->
        CASE t = "long" -> 250 [] t = "huge" -> 300 [] t = "hug" -> 255 [] OTHER -> 8]

FirstParts == [t \in {"huge"} |-> "hug"]

SlotsInNames == [t \in {"a.slot7"} |-> 7]
=============================================================================
