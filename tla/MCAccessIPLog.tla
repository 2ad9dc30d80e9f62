---------------------------- MODULE MCAccessIPLog ----------------------------
(***************************************************************************)
(* The job and two requests of the page; enough lines for the file to be   *)
(* truncated and to outgrow the offset.                                    *)
(***************************************************************************)
EXTENDS AccessIPLog
=============================================================================
