-------------------------- MODULE MCAsyncEventBus --------------------------
(* AsyncEventBus on a small instance. *)
EXTENDS AsyncEventBus
=============================================================================
