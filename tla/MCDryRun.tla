------------------------------ MODULE MCDryRun ------------------------------
(* A small instance of DryRun.  It keeps the proportions of the real one:  *)
(* a print sleeps while a kilobyte drains, and waits end in a few polls.   *)
EXTENDS DryRun

MCImages  == [w : {1, 2, 3, 7}, h : {1, 2, 3, 7}]
MCAspects == {<<1, 1>>, <<3, 2>>, <<2, 3>>, <<5, 4>>}
=============================================================================
