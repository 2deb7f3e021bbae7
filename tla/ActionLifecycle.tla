-------------------------- MODULE ActionLifecycle --------------------------
(***************************************************************************)
(* What Attest promises about one action, whatever processes, sessions and *)
(* failures implement it: an action is recorded before anything is sent,   *)
(* each attempt is sent at most once, an outcome is recorded only for an   *)
(* attempt that was sent, outcomes follow the legal arcs, and a new        *)
(* attempt starts only from FAILED.                                        *)
(***************************************************************************)
EXTENDS ActionStateMachine

CONSTANTS Key, Unrecorded

VARIABLES
  state,    \* state[k]: the state of the action, or Unrecorded
  sent      \* the actions whose current attempt has been sent downstream

vars == <<state, sent>>

Init ==
  /\ state = [k \in Key |-> Unrecorded]
  /\ sent = {}

Record(k) ==
  /\ state[k] = Unrecorded
  /\ state' = [state EXCEPT ![k] = "RECEIVED"]
  /\ UNCHANGED sent

Send(k) ==
  /\ state[k] = "RECEIVED"
  /\ k \notin sent
  /\ sent' = sent \cup {k}
  /\ UNCHANGED state

Resolve(k, target) ==
  /\ k \in sent
  /\ IsLegalTransition(state[k], target)
  /\ target # "RECEIVED"
  /\ state' = [state EXCEPT ![k] = target]
  /\ UNCHANGED sent

Retry(k) ==
  /\ state[k] = "FAILED"
  /\ state' = [state EXCEPT ![k] = "RECEIVED"]
  /\ sent' = sent \ {k}

Next ==
  \E k \in Key :
    \/ Record(k) \/ Send(k) \/ Retry(k)
    \/ \E target \in ActionState : Resolve(k, target)

Spec == Init /\ [][Next]_vars

=============================================================================
