------------------------------- MODULE Common -------------------------------
(* What every component's module refers to.                                 *)

CONSTANTS
  Handlers,  \* the exchange handlers that run concurrently
  Nothing    \* Rust's None
=============================================================================
