-------------------------- MODULE MCInOrderPipeline --------------------------
(* InOrderPipeline on the programs of MCPrograms.  The theorem Refinement is about
   programs whose CSR instructions are forwarded right; these are. *)
EXTENDS InOrderPipeline, MCPrograms

ASSUME ProgramsForwardRight == CsrsForwardRight
==============================================================================
