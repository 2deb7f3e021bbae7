-------------------------- MODULE MCLedgerSessions --------------------------
(* Instances of LedgerSessions for TLC.                                    *)
EXTENDS LedgerSessions, TLC

CONSTANTS own, fresh, any     \* the keys, each with a discipline

MCDiscipline ==
  [k \in Key |-> CASE k = own -> "owner" [] k = fresh -> "fresh" [] OTHER -> "any"]

(* A call the router makes from RECEIVED, the one that verifies, and a     *)
(* call that does not name the state it expects and queues a reconcile.    *)
MCCalls ==
  { [from |-> "RECEIVED", to |-> "EXECUTED", kind |-> NoKind],
    [from |-> "EXECUTED", to |-> "VERIFIED", kind |-> NoKind],
    [from |-> NoState, to |-> "UNKNOWN", kind |-> "reconcile"] }

(* The two verdicts two sessions may reach about one recorded action.      *)
RivalCalls ==
  { [from |-> "RECEIVED", to |-> "EXECUTED", kind |-> NoKind],
    [from |-> "RECEIVED", to |-> "UNKNOWN", kind |-> "reconcile"] }

Symmetry == Permutations(Session)

=============================================================================
