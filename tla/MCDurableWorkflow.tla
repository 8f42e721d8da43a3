------------------------- MODULE MCDurableWorkflow -------------------------
(***************************************************************************)
(* The instances of DurableWorkflow that TLC checks.                       *)
(***************************************************************************)
EXTENDS WorkflowProperties, TLC

Symmetry == Permutations(Workflows) \cup Permutations(Bindings)

-----------------------------------------------------------------------------
(* What the documentation says and the code does not do *)

\* durable_workflow.py: "not found and the workspace is gone -> the side effect
\* died with the workspace, so the workflow FAILS SAFELY with that exact reason
\* instead of quietly writing again".
NeverQuietlyWritesAgain == CommittedOnce
=============================================================================
