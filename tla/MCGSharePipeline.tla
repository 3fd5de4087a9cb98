-------------------------- MODULE MCGSharePipeline ---------------------------
(* GSharePipeline on the programs of MCPrograms.  The theorems of
   GSharePipelineProofs are about programs whose CSR instructions are forwarded
   right; MCEveryProgram's are, and MCWritePrograms's are not. *)
EXTENDS GSharePipeline, MCPrograms

ASSUME ProgramsForwardRight == Programs = MCEveryProgram => CsrsForwardRight
==============================================================================
