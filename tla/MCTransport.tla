----------------------------- MODULE MCTransport -----------------------------
(* Small instances of Transport: see the configurations.                   *)
EXTENDS Transport
=============================================================================
