------------------------------ MODULE Intents ------------------------------
(***************************************************************************)
(* What an agent asks Attest to do.  A request to POST /v1/actions carries *)
(* a task, a step, a tool and its arguments; derive_key hashes the four    *)
(* into the idempotency key under which the action is recorded and with    *)
(* which the downstream system is called.  Two submissions of one intent   *)
(* have one key, and the key determines the tool and the arguments, so an  *)
(* intent is represented by its key.                                       *)
(***************************************************************************)

CONSTANT Key      \* the idempotency keys agents submit, one per intent

=============================================================================
