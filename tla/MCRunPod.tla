------------------------------ MODULE MCRunPod ------------------------------
(* One lease, a selection of two contracts.                                *)
EXTENDS RunPod
=============================================================================
