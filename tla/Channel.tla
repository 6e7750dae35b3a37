------------------------------- MODULE Channel -------------------------------
(***************************************************************************)
(* What ProcessCoordinator promises its two peers: a stream of bytes in    *)
(* each direction and an honest answer to every attempt to receive.        *)
(***************************************************************************)
EXTENDS Integers, Sequences, SequencesExt

CONSTANT Byte

Peer == {"parent", "child"}

Other(x) == IF x = "parent" THEN "child" ELSE "parent"

VARIABLES
    transit,  \* transit[x]: the bytes on their way to x, oldest first
    open,     \* open[x]: somebody may still write on behalf of x
    answer    \* answer[x]: what the last receive of x has returned

Data(s) == [kind |-> "data", bytes |-> s]
Nothing(kind) == [kind |-> kind, bytes |-> <<>>]

Init ==
    /\ transit = [x \in Peer |-> <<>>]
    /\ open = [x \in Peer |-> FALSE]
    /\ answer = [x \in Peer |-> Nothing("none")]

Open(x) ==
    /\ ~ open[x]
    /\ open' = [open EXCEPT ![x] = TRUE]
    /\ UNCHANGED <<transit, answer>>

Shut(S) ==
    /\ open' = [x \in Peer |-> open[x] /\ x \notin S]
    /\ UNCHANGED <<transit, answer>>

Put(x) ==
    /\ open[x]
    /\ transit' \in [Peer -> Seq(Byte)]
    /\ transit'[x] = transit[x]
    /\ IsPrefix(transit[Other(x)], transit'[Other(x)])
    /\ UNCHANGED <<open, answer>>

(* The oldest bytes, without regard to how they were written. *)
Take(x) ==
    /\ \E n \in 1 .. Len(transit[x]) :
         /\ answer' = [answer EXCEPT ![x] = Data(SubSeq(transit[x], 1, n))]
         /\ transit' = [transit EXCEPT ![x] = SubSeq(@, n + 1, Len(@))]
    /\ UNCHANGED open

(* Only a receiver that has taken everything is told of the end. *)
Closed(x) ==
    /\ transit[x] = <<>> /\ ~ open[Other(x)]
    /\ answer' = [answer EXCEPT ![x] = Nothing("closed")]
    /\ UNCHANGED <<transit, open>>

TimedOut(x) ==
    /\ transit[x] = <<>> /\ open[Other(x)]
    /\ answer' = [answer EXCEPT ![x] = Nothing("timeout")]
    /\ UNCHANGED <<transit, open>>

Next ==
    \/ \E x \in Peer : Open(x) \/ Put(x) \/ Take(x) \/ Closed(x) \/ TimedOut(x)
    \/ \E S \in SUBSET Peer : Shut(S)

Spec == Init /\ [][Next]_<<transit, open, answer>>
=============================================================================
