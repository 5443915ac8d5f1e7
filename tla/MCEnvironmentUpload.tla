------------------------ MODULE MCEnvironmentUpload ------------------------
(* Model-checking instance of EnvironmentUpload: three clients that need the *)
(* same environment.                                                         *)
EXTENDS EnvironmentUpload, TLC
=============================================================================
