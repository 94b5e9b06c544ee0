---------------------------- MODULE MCLocalDemo ----------------------------
(* Instances of LocalDemo for TLC.                                         *)
EXTENDS LocalDemo

MCJoining == <<{"t1", "t2", "t3"}, {"t4", "t5"}>>
=============================================================================
