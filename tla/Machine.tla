------------------------------ MODULE Machine ------------------------------
(* The processes that share the files under /opt/aiwarden. *)
CONSTANT Processes
=============================================================================
