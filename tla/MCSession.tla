------------------------------ MODULE MCSession ------------------------------
(* Small instances of Session: see the configurations.                     *)
EXTENDS Session
=============================================================================
