---------------------------- MODULE MCRollback ----------------------------
(* Rollback on a body whose pose is the parity of the inputs it has run.   *)
EXTENDS Rollback

MCStep(pose, input) == (pose + input) % 2
=============================================================================
