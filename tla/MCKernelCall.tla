---------------------------- MODULE MCKernelCall ----------------------------
(* Values for KernelCall's constants are in the configuration.             *)
EXTENDS KernelCall
=============================================================================
