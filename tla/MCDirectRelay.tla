--------------------------- MODULE MCDirectRelay ---------------------------
(* Instances of DirectRelay for TLC. *)
EXTENDS DirectRelay

MCConnections == Consumers \X (1..Endpoints)
=============================================================================
