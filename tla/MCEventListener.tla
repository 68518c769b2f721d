-------------------------- MODULE MCEventListener ---------------------------
(***************************************************************************)
(* Instances of EventListener for TLC.                                     *)
(***************************************************************************)
EXTENDS EventListener

(* ABIs that declare all that is listened to.                                *)
DeclaredAll == Listened
=============================================================================
