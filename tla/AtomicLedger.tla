---------------------------- MODULE AtomicLedger ----------------------------
(***************************************************************************)
(* What the repository promises its callers: each call takes effect in one *)
(* step, on the state the action is in at that step.  LedgerSessions and   *)
(* Gateway implement it, the first from database sessions and row locks,   *)
(* the second from the router's calls; ActionsApi builds on it.            *)
(***************************************************************************)
EXTENDS Ledger

(* A transition from the current state, with or without an outbox entry.   *)
TransitionNow(k, to, kind) ==
  /\ TransitionAllowed(rows[k], rows[k], to)
  /\ WriteTransition(k, rows[k], to, kind)

LedgerStep ==
  \E k \in Key :
    \/ InsertAction(k)
    \/ \E to \in ActionState, kind \in OutboxKind \cup {NoKind} :
         TransitionNow(k, to, kind)

LedgerSpec == LedgerInit /\ [][LedgerStep]_ledgerVars

=============================================================================
