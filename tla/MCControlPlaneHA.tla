--------------------------- MODULE MCControlPlaneHA ---------------------------
(* Small instances of ControlPlaneHA. *)
EXTENDS ControlPlaneHA
=============================================================================
