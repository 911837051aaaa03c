------------------------------ MODULE MCKernel ------------------------------
(***************************************************************************)
(* The kernel on a small instance: two users, the version spoken, one      *)
(* alternative that is accepted and one that is not, two posts per load    *)
(* where the code has fifty.                                               *)
(***************************************************************************)
EXTENDS Kernel
=============================================================================
