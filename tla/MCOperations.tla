---------------------------- MODULE MCOperations ----------------------------
(***************************************************************************)
(* The operations of a scan that run to their end on data of their own:    *)
(* reading a file (Documents, Terraform), placing a result in it           *)
(* (Findings), and reporting what was found (Results), with the inputs of  *)
(* the modules for each kind of them.  A behaviour is one call of one of   *)
(* them; what runs at the same time, and in which order, is the matter of  *)
(* Inspect and ScanPipeline.                                               *)
(***************************************************************************)
EXTENDS MCDocuments, MCTerraform, MCResults

OperationsInit == DocumentsInit \/ TerraformInit \/ FindingsInit \/ ResultsInit
OperationsNext == DocumentsNext \/ TerraformNext \/ FindingsNext \/ ResultsNext
OperationsSpec == OperationsInit /\ [][OperationsNext]_vars
=============================================================================
