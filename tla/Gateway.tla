------------------------------ MODULE Gateway ------------------------------
(***************************************************************************)
(* The gateway's pipeline: POST /v1/actions (router.py, create_action)     *)
(* over the ledger, the downstream service and the verification read.      *)
(* Each request is a coroutine, and pc says between which of its awaits it *)
(* is; requests interleave there, and the process may crash there.  One    *)
(* repository call is one step: LedgerSessions shows that for the router's *)
(* use of it the row lock and the unique index make it one.  The           *)
(* downstream handler runs whenever the message reaches it, also after the *)
(* gateway has given up waiting.                                           *)
(***************************************************************************)
EXTENDS Ledger, Downstream, Executor, Verifier

CONSTANTS
  Request,            \* the POSTs the gateway receives
  Profiles,           \* the fault profiles the downstream service resolves
  MaxCrashes,         \* bound on crashes of the gateway process
  MaxLedgerFaults,    \* bound on failures of the database
  MaxReadFaults,      \* bound on failures of the verification read
  MaxResets           \* bound on resets (restarts) of the downstream store

ASSUME ProfilesAssumption == Profiles \subseteq FaultProfile
ASSUME BoundsAssumption ==
  {MaxCrashes, MaxLedgerFaults, MaxReadFaults, MaxResets} \subseteq Nat
ASSUME NoKeyAssumption == "no key" \notin Key

VARIABLES
  pc,        \* pc[r]: where the handler of r is
  key,       \* key[r]: the idempotency key r derives, or NoKey
  held,      \* held[r]: action.state in r's session, once it has recorded
  outcome,   \* outcome[r]: the classification or the verdict just obtained
  reply,     \* reply[r]: what r was answered
  wire,      \* wire[r]: r's call to the downstream service
  sends,     \* sends[k]: how often k was sent downstream
  faults     \* how often each bounded fault has happened

requestVars == <<pc, key, held, outcome, reply>>
vars == <<rows, events, outbox, status, refunded, refunds, processed,
          cancelled, pc, key, held, outcome, reply, wire, sends, faults>>

NoKey == "no key"
NoReply == [code |-> 0, verdict |-> "none", deduplicated |-> "no"]

Place == {"new", "lookup", "insert", "refetch", "recorded", "waiting",
          "classified", "executed", "judged", "done", "crashed"}

(* The request owns the action it has recorded until it is answered.       *)
Owner == {"recorded", "waiting", "classified", "executed", "judged"}
Owns(r) == pc[r] \in Owner
InFlight(r) == pc[r] \notin {"new", "done", "crashed"}

Fault == {"crash", "ledger", "read", "reset"}

TypeOK ==
  /\ LedgerTypeOK
  /\ StoreTypeOK
  /\ pc \in [Request -> Place]
  /\ key \in [Request -> Key \cup {NoKey}]
  /\ held \in [Request -> ActionState \cup {NoRow}]
  /\ outcome \in [Request -> Classification \cup Verdict \cup {"none"}]
  /\ reply \in [Request -> [code : {0, 200, 422, 500, 503},
                            verdict : {"VERIFIED", "FAILED", "UNKNOWN", "none"},
                            deduplicated : {"no", "yes"}]]
  /\ wire \in [Request -> {"idle", "sent", "closed"} \cup Response]
  /\ sends \in [Key -> Nat]
  /\ faults \in [Fault -> Nat]

Init ==
  /\ LedgerInit
  /\ StoreInit
  /\ pc = [r \in Request |-> "new"]
  /\ key = [r \in Request |-> NoKey]
  /\ held = [r \in Request |-> NoRow]
  /\ outcome = [r \in Request |-> "none"]
  /\ reply = [r \in Request |-> NoReply]
  /\ wire = [r \in Request |-> "idle"]
  /\ sends = [k \in Key |-> 0]
  /\ faults = [f \in Fault |-> 0]

-----------------------------------------------------------------------------
Goto(r, place) == pc' = [pc EXCEPT ![r] = place]

(* The handler ends with an answer.                                        *)
Answer(r, code, verdict, deduplicated) ==
  /\ reply' = [reply EXCEPT ![r] = [code |-> code, verdict |-> verdict,
                                    deduplicated |-> deduplicated]]
  /\ Goto(r, "done")

(* One more fault, within its bound.                                       *)
Happens(fault, bound) ==
  /\ faults[fault] < bound
  /\ faults' = [faults EXCEPT ![fault] = @ + 1]

(* Mutant of StateToVerdict: a state that has no verdict is passed on.     *)
StateAsVerdict(state) ==
  CASE state \in {"FAILED", "COMPENSATING", "COMPENSATED"} -> "FAILED"
    [] state \in {"UNKNOWN", "NEEDS_REVIEW"} -> "UNKNOWN"
    [] OTHER -> state

(* _state_to_verdict.                                                      *)
StateToVerdict(state) ==
  CASE state = "VERIFIED" -> "VERIFIED"
    [] state \in {"FAILED", "COMPENSATING", "COMPENSATED"} -> "FAILED"
    [] state \in {"UNKNOWN", "NEEDS_REVIEW"} -> "UNKNOWN"
    [] OTHER -> "none"

-----------------------------------------------------------------------------
(* A request arrives; a tool without a contract is refused with 422.       *)
Submit(r, k) ==
  /\ pc[r] = "new"
  /\ key' = [key EXCEPT ![r] = k]
  /\ IF ToolOf[k] \in Tool THEN Goto(r, "lookup") /\ UNCHANGED reply
     ELSE Answer(r, 422, "none", "no")
  /\ UNCHANGED <<ledgerVars, storeVars, held, outcome, wire, sends, faults>>

(* The answer to a request whose action is already there.                  *)
AnswerDeduplicated(r) ==
  /\ Answer(r, 200, StateToVerdict(rows[key[r]]), "yes")
  /\ UNCHANGED <<ledgerVars, storeVars, key, held, outcome, wire, sends, faults>>

Lookup(r) ==
  /\ pc[r] = "lookup"
  /\ \/ rows[key[r]] # NoRow /\ AnswerDeduplicated(r)
     \/ /\ rows[key[r]] = NoRow
        /\ Goto(r, "insert")
        /\ UNCHANGED <<ledgerVars, storeVars, key, held, outcome, reply, wire,
                       sends, faults>>

(* The insert commits, or the unique index refuses it.                     *)
Insert(r) ==
  /\ pc[r] = "insert"
  /\ \/ /\ InsertAction(key[r])
        /\ held' = [held EXCEPT ![r] = "RECEIVED"]
        /\ Goto(r, "recorded")
     \/ /\ rows[key[r]] # NoRow
        /\ Goto(r, "refetch")
        /\ UNCHANGED <<ledgerVars, held>>
  /\ UNCHANGED <<storeVars, key, outcome, reply, wire, sends, faults>>

(* Mutant of Refetch: the row of the conflict is taken for one's own.      *)
RefetchAsRecorded(r) ==
  /\ pc[r] = "refetch"
  /\ rows[key[r]] # NoRow
  /\ held' = [held EXCEPT ![r] = rows[key[r]]]
  /\ Goto(r, "recorded")
  /\ UNCHANGED <<ledgerVars, storeVars, key, outcome, reply, wire, sends, faults>>

Refetch(r) ==
  /\ pc[r] = "refetch"
  /\ rows[key[r]] # NoRow
  /\ AnswerDeduplicated(r)

(* Mutant of RecordingFails: the ledger guard lets the action pass.        *)
RecordingFailsOpen(r) ==
  /\ pc[r] \in {"lookup", "insert", "refetch"}
  /\ Happens("ledger", MaxLedgerFaults)
  /\ held' = [held EXCEPT ![r] = "RECEIVED"]
  /\ Goto(r, "recorded")
  /\ UNCHANGED <<ledgerVars, storeVars, key, outcome, reply, wire, sends>>

(* The database fails while the action is being recorded: 503, and the row *)
(* is not there, or it is and the commit's answer or the refresh was lost. *)
RecordingFails(r) ==
  /\ pc[r] \in {"lookup", "insert", "refetch"}
  /\ Happens("ledger", MaxLedgerFaults)
  /\ Answer(r, 503, "none", "no")
  /\ \/ UNCHANGED ledgerVars
     \/ pc[r] = "insert" /\ InsertAction(key[r])
  /\ UNCHANGED <<storeVars, key, held, outcome, wire, sends>>

-----------------------------------------------------------------------------
(* execute_contract: the path is resolved outside its try block, so a      *)
(* missing argument leaves the handler as a 500; otherwise the call is     *)
(* sent.                                                                   *)
Execute(r) ==
  /\ pc[r] = "recorded"
  /\ IF ResolvesPath(key[r])
     THEN /\ wire' = [wire EXCEPT ![r] = "sent"]
          /\ sends' = [sends EXCEPT ![key[r]] = @ + 1]
          /\ Goto(r, "waiting")
          /\ UNCHANGED reply
     ELSE /\ Answer(r, 500, "none", "no")
          /\ UNCHANGED <<wire, sends>>
  /\ UNCHANGED <<ledgerVars, storeVars, key, held, outcome, faults>>

(* The downstream handler runs; nobody reads an answer that comes after    *)
(* the gateway stopped waiting.                                            *)
Handle(r) ==
  /\ wire[r] = "sent"
  /\ \E profile \in Profiles, response \in Response :
       /\ Mutate(profile, key[r], response)
       /\ wire' = [wire EXCEPT ![r] =
                     IF pc[r] = "waiting" THEN response ELSE "closed"]
  /\ UNCHANGED <<ledgerVars, requestVars, sends, faults>>

(* The response arrives in time and is classified.                         *)
Receive(r) ==
  /\ pc[r] = "waiting"
  /\ wire[r] \in Response \ {"late"}
  /\ outcome' = [outcome EXCEPT ![r] =
                   Classify(StatusCode(wire[r]), wire[r] = "blank",
                            DefiniteFailureStatuses(key[r]))]
  /\ wire' = [wire EXCEPT ![r] = "closed"]
  /\ Goto(r, "classified")
  /\ UNCHANGED <<ledgerVars, storeVars, key, held, reply, sends, faults>>

(* Mutant of GiveUp: the call has no timeout.                              *)
GiveUpOnceHandled(r) ==
  /\ pc[r] = "waiting"
  /\ wire[r] # "sent"
  /\ outcome' = [outcome EXCEPT ![r] = "ambiguous"]
  /\ wire' = [wire EXCEPT ![r] = "closed"]
  /\ Goto(r, "classified")
  /\ UNCHANGED <<ledgerVars, storeVars, key, held, reply, sends, faults>>

(* Timeout, connection error or a 5xx of something in between, at any      *)
(* moment: before the call is handled, and after.                          *)
GiveUp(r) ==
  /\ pc[r] = "waiting"
  /\ outcome' = [outcome EXCEPT ![r] =
                   Classify(NoAnswer, TRUE, DefiniteFailureStatuses(key[r]))]
  /\ wire' = [wire EXCEPT ![r] = IF @ = "sent" THEN @ ELSE "closed"]
  /\ Goto(r, "classified")
  /\ UNCHANGED <<ledgerVars, storeVars, key, held, reply, sends, faults>>

-----------------------------------------------------------------------------
(* transition_action as the router calls it.                               *)
Transition(r, from, target, kind) ==
  /\ TransitionAllowed(held[r], from, target)
  /\ WriteTransition(key[r], held[r], target, kind)
  /\ held' = [held EXCEPT ![r] = target]

(* The router's three branches on the classification, its four on the      *)
(* verdict: the state each goes to and the outbox entry it asks for.       *)
Target(result) ==
  CASE result \in {"definite_failure", "FAILED"} -> "FAILED"
    [] result = "definite_success" -> "EXECUTED"
    [] result = "VERIFIED" -> "VERIFIED"
    [] result = "COMPENSATING" -> "COMPENSATING"
    [] result \in {"ambiguous", "UNKNOWN"} -> "UNKNOWN"

(* Mutant of Kind: an unavailable read queues no reconciliation.           *)
KindOfCallOnly(result) ==
  CASE result = "ambiguous" -> "reconcile"
    [] result = "COMPENSATING" -> "compensate"
    [] OTHER -> NoKind

Kind(result) ==
  CASE result \in {"ambiguous", "UNKNOWN"} -> "reconcile"
    [] result = "COMPENSATING" -> "compensate"
    [] OTHER -> NoKind

(* Mutant of Spoken: a compensation under way is told as success.          *)
SpokenOptimistically(result) ==
  CASE result \in {"VERIFIED", "COMPENSATING"} -> "VERIFIED"
    [] result \in {"definite_failure", "FAILED"} -> "FAILED"
    [] result \in {"ambiguous", "UNKNOWN"} -> "UNKNOWN"

(* The verdict each branch puts into its answer.                           *)
Spoken(result) ==
  CASE result = "VERIFIED" -> "VERIFIED"
    [] result \in {"definite_failure", "FAILED", "COMPENSATING"} -> "FAILED"
    [] result \in {"ambiguous", "UNKNOWN"} -> "UNKNOWN"

Expected(r) == IF pc[r] = "classified" THEN "RECEIVED" ELSE "EXECUTED"

RecordResult(r) ==
  Transition(r, Expected(r), Target(outcome[r]), Kind(outcome[r]))

(* A definite success is recorded as EXECUTED and goes on to verification; *)
(* the other classifications are answered.                                 *)
RecordOutcome(r) ==
  /\ pc[r] = "classified"
  /\ RecordResult(r)
  /\ IF outcome[r] = "definite_success"
     THEN Goto(r, "executed") /\ UNCHANGED reply
     ELSE Answer(r, 200, Spoken(outcome[r]), "no")
  /\ UNCHANGED <<storeVars, key, outcome, wire, sends, faults>>

(* The independent read, over a client of its own.                         *)
VerifyRead(r) ==
  /\ pc[r] = "executed"
  /\ LET o == OrderOf[key[r]] IN
       outcome' = [outcome EXCEPT ![r] =
                     Judge(key[r], OrderStatusCode(o),
                           OrderBody(o))]
  /\ Goto(r, "judged")
  /\ UNCHANGED <<ledgerVars, storeVars, key, held, reply, wire, sends, faults>>

ReadUnavailable(r) ==
  /\ pc[r] = "executed"
  /\ Happens("read", MaxReadFaults)
  /\ outcome' = [outcome EXCEPT ![r] = "UNKNOWN"]
  /\ Goto(r, "judged")
  /\ UNCHANGED <<ledgerVars, storeVars, key, held, reply, wire, sends>>

(* Mutant of RecordVerdict: an unknown verdict is answered, not recorded.  *)
RecordVerdictIfKnown(r) ==
  /\ pc[r] = "judged"
  /\ IF outcome[r] = "UNKNOWN" THEN UNCHANGED <<ledgerVars, held>> ELSE RecordResult(r)
  /\ Answer(r, 200, Spoken(outcome[r]), "no")
  /\ UNCHANGED <<storeVars, key, outcome, wire, sends, faults>>

RecordVerdict(r) ==
  /\ pc[r] = "judged"
  /\ RecordResult(r)
  /\ Answer(r, 200, Spoken(outcome[r]), "no")
  /\ UNCHANGED <<storeVars, key, outcome, wire, sends, faults>>

(* Mutant of TransitionFails: the handler goes on with a transition that   *)
(* was rolled back.                                                        *)
TransitionFailsUnnoticed(r) ==
  /\ pc[r] = "classified"
  /\ Happens("ledger", MaxLedgerFaults)
  /\ Goto(r, "executed")
  /\ held' = [held EXCEPT ![r] = "EXECUTED"]
  /\ UNCHANGED <<ledgerVars, storeVars, key, outcome, reply, wire, sends>>

(* The database fails under a transition, which is then not there, or is   *)
(* there and the commit's answer or the refresh was lost.  The exceptions  *)
(* db_exception_handler knows are answered 503, an OSError of the driver   *)
(* or a timeout of the connection pool 500.                                *)
TransitionFails(r) ==
  /\ pc[r] \in {"classified", "judged"}
  /\ Happens("ledger", MaxLedgerFaults)
  /\ \E code \in {500, 503} : Answer(r, code, "none", "no")
  /\ RecordResult(r) \/ UNCHANGED <<ledgerVars, held>>
  /\ UNCHANGED <<storeVars, key, outcome, wire, sends>>

-----------------------------------------------------------------------------
(* The gateway process dies and is started again: the coroutines are gone, *)
(* the ledger and what is on the way downstream are not.                   *)
Crash ==
  /\ \E r \in Request : InFlight(r)
  /\ Happens("crash", MaxCrashes)
  /\ pc' = [r \in Request |-> IF InFlight(r) THEN "crashed" ELSE pc[r]]
  /\ UNCHANGED <<ledgerVars, storeVars, key, held, outcome, reply, wire, sends>>

(* The downstream store is reset, or its process restarted.                *)
StoreReset ==
  /\ Happens("reset", MaxResets)
  /\ Reset
  /\ UNCHANGED <<ledgerVars, requestVars, wire, sends>>

(* What a running handler does without a fault.                            *)
Proceed(r) ==
  \/ Lookup(r) \/ Insert(r) \/ Refetch(r) \/ Execute(r)
  \/ Receive(r) \/ GiveUp(r)
  \/ RecordOutcome(r) \/ VerifyRead(r) \/ RecordVerdict(r)

Next ==
  \/ \E r \in Request :
       \/ \E k \in Key : Submit(r, k)
       \/ Proceed(r)
       \/ Handle(r)
       \/ RecordingFails(r) \/ ReadUnavailable(r) \/ TransitionFails(r)
  \/ Crash
  \/ StoreReset

(* A coroutine whose await completes is resumed, and every await of the    *)
(* handler completes: the downstream call has a timeout.  Nothing obliges  *)
(* agents to submit, messages to arrive, or faults to happen.              *)
Fairness == \A r \in Request : WF_vars(Proceed(r))

Spec == Init /\ [][Next]_vars

FairSpec == Spec /\ Fairness

=============================================================================
