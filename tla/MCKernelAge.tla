------------------------------ MODULE MCKernelAge ------------------------------
(* The instances of MCKernel, with the clocks of KernelAge.                 *)
EXTENDS KernelAge, MCKernel
================================================================================
