------------------------- MODULE GatewayProperties -------------------------
(***************************************************************************)
(* What the gateway, the ledger and the downstream service promise         *)
(* together.                                                               *)
(***************************************************************************)
EXTENDS Gateway

(* AtMostOneSend: however many requests carry an intent, concurrently,     *)
(* after one another or after a crash, it is sent downstream at most once  *)
(* (router.py: "If deduplicated, do not re-execute downstream").           *)
AtMostOneSend == \A k \in Key : sends[k] <= 1

(* NothingRunsUnlogged: an intent has been sent, or has an effect          *)
(* downstream, only if its action is in the ledger (the ledger guard of    *)
(* router.py), also when its recording was answered with a 503.            *)
NothingRunsUnlogged ==
  \A k \in Key : sends[k] > 0 \/ HasEffect(k) => rows[k] # NoRow

(* HeldStateIsCurrent: between recording an action and answering, the      *)
(* request's session holds the state that is in the database and that the  *)
(* router's next transition names as from_state, so that                   *)
(* transition_action never refuses the router.                             *)
HeldStateIsCurrent ==
  \A r \in Request : Owns(r) =>
    /\ held[r] = rows[key[r]]
    /\ held[r] = IF pc[r] \in {"executed", "judged"} THEN "EXECUTED" ELSE "RECEIVED"

(* OutboxInStep: work is queued for an action exactly when its state asks  *)
(* for it, once, and of the right kind: the outbox entry commits with the  *)
(* transition (repository.py, transition_action) even if nobody learns of  *)
(* the commit.                                                             *)
OutboxInStep ==
  \A k \in Key :
    outbox[k] = CASE rows[k] = "UNKNOWN" -> <<"reconcile">>
                  [] rows[k] = "COMPENSATING" -> <<"compensate">>
                  [] OTHER -> <<>>

(* VerifiedRefundIsExact: a VERIFIED refund was applied completely and     *)
(* exactly once, whatever fault profile its call met and whichever other   *)
(* actions touched the order between the call and the verification read.   *)
VerifiedRefundIsExact ==
  \A k \in Key : IsRefund(k) /\ rows[k] = "VERIFIED" =>
    k \in processed /\ Cardinality(RefundsOf(k)) = 1

(* VerifiedCancelHappened: behind a VERIFIED cancellation there is a       *)
(* cancellation of that order that was written.                            *)
VerifiedCancelHappened ==
  \A k \in Key : IsCancel(k) /\ rows[k] = "VERIFIED" =>
    \E j \in cancelled : OrderOf[j] = OrderOf[k]

(* FailedRefundHasNoEffect: a refund recorded as FAILED, which may be      *)
(* retried, has left no record downstream and never will, not even by a    *)
(* call that is handled late (state_machine.py: "FAILED is reached only    *)
(* when the system has confirmed no downstream effect").                   *)
FailedRefundHasNoEffect ==
  \A k \in Key : IsRefund(k) /\ rows[k] = "FAILED" => RefundsOf(k) = {}

(* VerdictStands: a verdict given to an agent is the verdict the ledger    *)
(* supports, at that moment and ever after; a deduplicated request that    *)
(* found the action under way is given none.                               *)
VerdictStands ==
  \A r \in Request : reply[r].verdict # "none" =>
    reply[r].verdict = StateToVerdict(rows[key[r]])

(* Lifecycle: the gateway implements the abstract life of an action, the   *)
(* row being its state and a nonzero count of sends its attempt.           *)
Lifecycle == INSTANCE ActionLifecycle WITH
  Unrecorded <- NoRow, state <- rows, sent <- {k \in Key : sends[k] > 0}

ImplementsLifecycle == Lifecycle!Spec

(* LedgerIsAtomic: with concurrent requests, crashes and lost commits, the *)
(* gateway only ever takes the ledger through steps the repository offers, *)
(* each legal in the state the action is in at that moment.                *)
AtomicLedgerOf == INSTANCE AtomicLedger

LedgerIsAtomic == AtomicLedgerOf!LedgerSpec

-----------------------------------------------------------------------------
(* EveryRequestAnswered: a request that a running gateway has accepted is  *)
(* answered, or is in the process when that dies; no answer depends on the *)
(* downstream service answering.                                           *)
EveryRequestAnswered ==
  \A r \in Request : pc[r] = "lookup" ~> pc[r] \in {"done", "crashed"}

(* The requests that recorded k and know it: at most one.                  *)
RecordersOf(k) == {r \in Request : key[r] = k /\ held[r] # NoRow}

(* The request that recorded k was lost with the process, answered with a  *)
(* server error, or answered 503 without having learnt that it recorded k. *)
Abandoned(k) ==
  \/ RecordersOf(k) = {}
  \/ \E r \in RecordersOf(k) : pc[r] = "crashed" \/ reply[r].code \in {500, 503}

(* ActionsSettle: a recorded action leaves RECEIVED and EXECUTED unless    *)
(* the request that recorded it was abandoned; nothing else in src/        *)
(* resumes an action, so an abandoned one can stay where it is.            *)
ActionsSettle ==
  \A k \in Key :
    rows[k] \in {"RECEIVED", "EXECUTED"} ~>
      rows[k] \notin {"RECEIVED", "EXECUTED"} \/ Abandoned(k)

-----------------------------------------------------------------------------
(* FailedMeansNoEffect: what state_machine.py says of FAILED, for every    *)
(* contract.                                                               *)
FailedMeansNoEffect == \A k \in Key : rows[k] = "FAILED" => ~ HasEffect(k)

(* CompensatingMeansPartial: what state_machine.py says of COMPENSATING    *)
(* ("postcondition violated - partial write"): the action's own effect was *)
(* not the complete and single one the downstream service remembers.       *)
CompensatingMeansPartial ==
  \A k \in Key : rows[k] = "COMPENSATING" => k \notin processed

(* LedgerErrorBlocksExecution: what the 503 of app.py and router.py says   *)
(* ("Cannot record action; execution blocked"): the request that gets it   *)
(* has sent nothing.                                                       *)
LedgerErrorBlocksExecution ==
  \A r \in Request : reply[r].code = 503 => wire[r] = "idle"

=============================================================================
