--------------------------- MODULE MCMirroredSync ---------------------------
(* Instances of CommerceSync, beside what it promises, for TLC.            *)
EXTENDS MirroredSync

CONSTANT p1

MCProductOf == [o \in Orders |-> p1]
=============================================================================
