------------------------ MODULE MCProcessCoordinator -------------------------
(***************************************************************************)
(* A small instance of ProcessCoordinator for TLC: a message of two bytes, *)
(* so that one read may return half of it, or the ready signal and a part; *)
(* its second byte looks like the ready signal.                            *)
(***************************************************************************)
EXTENDS ProcessCoordinator

TwoBytes == {<<"a", "R">>}

ChildTalks == [parent |-> 1, child |-> 3]
=============================================================================
