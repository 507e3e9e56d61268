------------------------- MODULE MCRuntimeSupervisor -------------------------
(* Three workers, which are named in the .cfg files.                       *)
EXTENDS RuntimeSupervisor
=============================================================================
