----------------------------- MODULE MCWrapper -----------------------------
(* Model-checking instance of WrapperQueue. *)
EXTENDS WrapperQueue
=============================================================================
