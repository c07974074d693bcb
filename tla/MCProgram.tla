------------------------------ MODULE MCProgram ------------------------------
(* ProgramPipeline on the bundles and requests of Programs.                *)
EXTENDS ProgramPipeline, Programs
=============================================================================
