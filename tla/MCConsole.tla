----------------------------- MODULE MCConsole ------------------------------
(***************************************************************************)
(* Two processes, a buffer of three bytes and indices that wrap at six.    *)
(***************************************************************************)
EXTENDS Console
MCSizes == {0, 2}
=============================================================================
