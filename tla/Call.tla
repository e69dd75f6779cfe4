-------------------------------- MODULE Call --------------------------------
(***************************************************************************)
(* One call of a sequential operation of the program: what is called, its  *)
(* input, and, when it has returned, its output.                           *)
(***************************************************************************)
EXTENDS Integers, Sequences, FiniteSets, TLC, SequencesExt

VARIABLES call, input, output, returned
vars == <<call, input, output, returned>>

Called(name, inputs) == call = name /\ input \in inputs /\ output = <<>> /\ returned = FALSE

Return(value) == ~returned /\ output' = value /\ returned' = TRUE /\ UNCHANGED <<call, input>>
=============================================================================
