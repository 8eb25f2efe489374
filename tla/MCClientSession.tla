---------------------------- MODULE MCClientSession --------------------------
(* Instance of ClientSession: two opens, short times.                    *)
EXTENDS ClientSession
=============================================================================
