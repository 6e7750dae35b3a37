----------------------------- MODULE MCExecMode ------------------------------
(***************************************************************************)
(* Small instances of ExecMode for TLC.                                    *)
(***************************************************************************)
EXTENDS ExecMode
=============================================================================
