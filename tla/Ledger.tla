------------------------------- MODULE Ledger -------------------------------
(***************************************************************************)
(* The durable tables of Attest (models/action.py): actions, action_events *)
(* and outbox, and the two transactions that write them (repository.py).   *)
(* The unique index on idempotency_key lets one row exist per key, so a    *)
(* row is represented by the state stored in it.  The modules that compose *)
(* the ledger decide when each transaction runs and what it has read.      *)
(***************************************************************************)
EXTENDS ActionStateMachine, Intents, Naturals, Sequences

VARIABLES
  rows,     \* rows[k]: actions.state of the row with key k, or NoRow
  events,   \* events[k]: the action_events of that row, in id order
  outbox    \* outbox[k]: the kinds of its outbox entries, in id order

ledgerVars == <<rows, events, outbox>>

NoRow == "no row"
NoState == "null"                 \* from_state of the first event
NoKind == "none"                  \* transition_action's outbox_kind = None
OutboxKind == {"reconcile", "compensate"}

Event == [from : ActionState \cup {NoState}, to : ActionState]

LedgerTypeOK ==
  /\ rows \in [Key -> ActionState \cup {NoRow}]
  /\ events \in [Key -> Seq(Event)]
  /\ outbox \in [Key -> Seq(OutboxKind)]

LedgerInit ==
  /\ rows = [k \in Key |-> NoRow]
  /\ events = [k \in Key |-> <<>>]
  /\ outbox = [k \in Key |-> <<>>]

(* Mutant of InsertAction: without the unique index.                       *)
InsertOverExisting(k) ==
  /\ rows' = [rows EXCEPT ![k] = "RECEIVED"]
  /\ events' = [events EXCEPT ![k] =
                  Append(@, [from |-> NoState, to |-> "RECEIVED"])]
  /\ UNCHANGED outbox

(* create_action's transaction: the row in RECEIVED and its first event.   *)
InsertAction(k) ==
  /\ rows[k] = NoRow
  /\ rows' = [rows EXCEPT ![k] = "RECEIVED"]
  /\ events' = [events EXCEPT ![k] =
                  Append(@, [from |-> NoState, to |-> "RECEIVED"])]
  /\ UNCHANGED outbox

(* Mutant of TransitionAllowed: transition() is not called.                *)
ExpectedStateOnly(held, from, target) == from \in {NoState, held}

(* transition_action's two checks, on the state the session holds.         *)
TransitionAllowed(held, from, target) ==
  /\ from \in {NoState, held}
  /\ IsLegalTransition(held, target)

(* Mutant of WriteTransition: the event is built after the state is set.   *)
EventAfterUpdate(k, held, target, kind) ==
  /\ rows' = [rows EXCEPT ![k] = target]
  /\ events' = [events EXCEPT ![k] = Append(@, [from |-> target, to |-> target])]
  /\ outbox' = IF kind = NoKind THEN outbox
               ELSE [outbox EXCEPT ![k] = Append(@, kind)]

(* transition_action's transaction: the state, the event and the outbox    *)
(* entry commit together.  held is the state the session read, which is    *)
(* what the event records as from_state.                                   *)
WriteTransition(k, held, target, kind) ==
  /\ rows' = [rows EXCEPT ![k] = target]
  /\ events' = [events EXCEPT ![k] = Append(@, [from |-> held, to |-> target])]
  /\ outbox' = IF kind = NoKind THEN outbox
               ELSE [outbox EXCEPT ![k] = Append(@, kind)]

-----------------------------------------------------------------------------
(* A trail tells one story: it starts with the recording, each event       *)
(* starts where the previous one ended, and it ends in the row's state.    *)
Chained(trail, state) ==
  /\ Len(trail) > 0
  /\ trail[1] = [from |-> NoState, to |-> "RECEIVED"]
  /\ \A i \in 2 .. Len(trail) :
       /\ trail[i].from = trail[i - 1].to
       /\ IsLegalTransition(trail[i].from, trail[i].to)
  /\ trail[Len(trail)].to = state

(* AuditChain: the audit trail of every recorded action is an unbroken     *)
(* chain of legal transitions that ends in the state the row is in         *)
(* (LEDG-04), whatever sessions raced, failed or were retried.             *)
AuditChain ==
  \A k \in Key : IF rows[k] = NoRow THEN events[k] = <<>>
                 ELSE Chained(events[k], rows[k])

=============================================================================
