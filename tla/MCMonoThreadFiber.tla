------------------------ MODULE MCMonoThreadFiber ------------------------
(* A small instance of MonoThreadFiber: one work item of each kind.        *)
EXTENDS MonoThreadFiber
=============================================================================
