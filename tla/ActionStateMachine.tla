------------------------ MODULE ActionStateMachine ------------------------
(***************************************************************************)
(* The lifecycle of an action: the states of state_machine.py and the      *)
(* arcs that transition() accepts.                                         *)
(***************************************************************************)

ActionState == {"RECEIVED", "EXECUTED", "VERIFIED", "FAILED", "UNKNOWN",
                "COMPENSATING", "COMPENSATED", "NEEDS_REVIEW"}

TERMINAL_STATES == {"VERIFIED", "COMPENSATED", "NEEDS_REVIEW"}

LEGAL_TRANSITIONS ==
  { <<"RECEIVED", "EXECUTED">>, <<"RECEIVED", "FAILED">>,
    <<"RECEIVED", "UNKNOWN">>,
    <<"EXECUTED", "VERIFIED">>, <<"EXECUTED", "COMPENSATING">>,
    <<"EXECUTED", "FAILED">>, <<"EXECUTED", "UNKNOWN">>,
    <<"UNKNOWN", "VERIFIED">>, <<"UNKNOWN", "FAILED">>,
    <<"UNKNOWN", "NEEDS_REVIEW">>,
    <<"FAILED", "RECEIVED">>,
    <<"COMPENSATING", "COMPENSATED">>, <<"COMPENSATING", "NEEDS_REVIEW">> }

(* is_legal_transition(current, target); transition() raises when false.   *)
IsLegalTransition(current, target) == <<current, target>> \in LEGAL_TRANSITIONS

=============================================================================
