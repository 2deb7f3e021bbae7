----------------------------- MODULE ActionsApi -----------------------------
(***************************************************************************)
(* The two endpoints as agents see them, over the ledger as the repository *)
(* promises it.  POST /v1/actions records an action under the key derived  *)
(* from the request, or answers with the one that is there.  GET           *)
(* /v1/actions/{id} loads the action with selectinload(Action.events): two *)
(* SELECTs in a session of its own, each of which sees what is committed   *)
(* when it runs (READ COMMITTED, the engine asks for nothing else), while  *)
(* the ledger goes on changing.  An agent knows the ids it has been told.  *)
(***************************************************************************)
EXTENDS AtomicLedger, FiniteSetsExt, SequencesExt

CONSTANTS
  Agent,
  Submitted,   \* the requests agents send
  Valid,       \* those of them ActionCreateRequest accepts
  KnownTool,   \* the names of the registry's contracts
  KeyOf,       \* KeyOf[r]: the key derived from the request r
  IntentOf,    \* IntentOf[r]: the call r asks for, whatever the order of fields
  MaxEvents    \* bound on the audit events of all actions

ASSUME MaxEventsAssumption == MaxEvents \in Nat
ASSUME KeyOfAssumption == KeyOf \in [Submitted -> Key]

VARIABLES
  submission,  \* submission[k]: the request that the row of k holds
  reply,       \* reply[g]: the last request of g that was answered, and its key
  reading,     \* reading[g]: the GET of g that is between its two SELECTs
  answers      \* answers[g][k]: what g was last told about k, or NoAnswer

vars == <<rows, events, outbox, submission, reply, reading, answers>>

NoRequest == [task |-> <<>>]
NoKey == <<>>

NoReply == [request |-> NoRequest, key |-> NoKey]
NoAnswer == [state |-> NoRow, trail |-> <<>>]
NotReading == [key |-> NoKey, state |-> NoRow]

ASSUME NoKeyAssumption == NoKey \notin Key /\ NoRequest \notin Submitted

Init ==
  /\ LedgerInit
  /\ submission = [k \in Key |-> NoRequest]
  /\ reply = [g \in Agent |-> NoReply]
  /\ reading = [g \in Agent |-> NotReading]
  /\ answers = [g \in Agent |-> [k \in Key |-> NoAnswer]]

-----------------------------------------------------------------------------
EventCount == MapThenSumSet(LAMBDA k : Len(events[k]), Key)

(* What is not valid, or names no contract, is 422 and changes nothing.    *)
Handled(r) == r \in Valid /\ r.tool \in KnownTool

Reply(g, r, k) == reply' = [reply EXCEPT ![g] = [request |-> r, key |-> k]]

(* An action that is not there yet is recorded, and will run.              *)
Record(g, r) ==
  LET k == KeyOf[r] IN
  /\ Handled(r) /\ reading[g] = NotReading
  /\ EventCount < MaxEvents
  /\ InsertAction(k)
  /\ submission' = [submission EXCEPT ![k] = r]
  /\ Reply(g, r, k)
  /\ UNCHANGED <<reading, answers>>

(* One that is there is only answered.                                     *)
Deduplicate(g, r) ==
  LET k == KeyOf[r] IN
  /\ Handled(r) /\ reading[g] = NotReading
  /\ rows[k] # NoRow
  /\ Reply(g, r, k)
  /\ UNCHANGED <<ledgerVars, submission, reading, answers>>

(* The gateway resolves actions, and whatever else may write the ledger.   *)
Resolve ==
  /\ EventCount < MaxEvents
  /\ \E k \in Key, to \in ActionState : TransitionNow(k, to, NoKind)
  /\ UNCHANGED <<submission, reply, reading, answers>>

(* SELECT the action; another id is 404 and nothing is read.               *)
SelectAction(g) ==
  LET k == reply[g].key IN
  /\ reading[g] = NotReading /\ k # NoKey
  /\ reading' = [reading EXCEPT ![g] = [key |-> k, state |-> rows[k]]]
  /\ UNCHANGED <<ledgerVars, submission, reply, answers>>

Respond(g, trail) ==
  /\ reading[g] # NotReading
  /\ answers' = [answers EXCEPT ![g][reading[g].key] =
                   [state |-> reading[g].state, trail |-> trail]]
  /\ reading' = [reading EXCEPT ![g] = NotReading]
  /\ UNCHANGED <<ledgerVars, submission, reply>>

(* Mutants of SelectEvents: the relationship has no order_by; the events   *)
(* are read from a replica that lags.                                      *)
SelectEventsUnordered(g) ==
  reading[g] # NotReading /\ Respond(g, Reverse(events[reading[g].key]))

SelectEventsFromReplica(g) ==
  reading[g] # NotReading /\
  LET trail == events[reading[g].key] IN
    \E n \in 1 .. Len(trail) : Respond(g, SubSeq(trail, 1, n))

(* SELECT its events in id order, and answer.                              *)
SelectEvents(g) ==
  reading[g] # NotReading /\ Respond(g, events[reading[g].key])

Next ==
  \/ Resolve
  \/ \E g \in Agent :
       \/ \E r \in Submitted : Record(g, r) \/ Deduplicate(g, r)
       \/ SelectAction(g)
       \/ SelectEvents(g)

Spec == Init /\ [][Next]_vars

-----------------------------------------------------------------------------
Told == {a \in UNION {{answers[g][k] : k \in Key} : g \in Agent} : a # NoAnswer}

(* TrailReachesState: the trail in an answer explains the state in it: it  *)
(* passes through that state, by a chain of legal transitions, however     *)
(* many transitions were committed between the two SELECTs.                *)
TrailReachesState ==
  \A a \in Told :
    /\ \E n \in 1 .. Len(a.trail) : Chained(SubSeq(a.trail, 1, n), a.state)
    /\ Chained(a.trail, Last(a.trail).to)

(* AnswersGrow: an agent that asks again is never shown less of the trail, *)
(* or another one, than it has seen (the trail is append-only, LEDG-04).   *)
AnswersGrow ==
  [][\A g \in Agent, k \in Key :
       IsPrefix(answers[g][k].trail, answers'[g][k].trail)]_vars

(* DeduplicatedIsSame: a request that is told of an action is the intent   *)
(* that action was recorded for, in task, step, tool and arguments: no two *)
(* intents share a key, whatever separators a task has in it, as long as   *)
(* no contract has one in its name.                                        *)
DeduplicatedIsSame ==
  \A g \in Agent :
    reply[g] # NoReply =>
      IntentOf[reply[g].request] = IntentOf[submission[reply[g].key]]

(* OneRowPerIntent: however an agent orders the fields of its arguments,   *)
(* at any depth, one intent is one action and runs once.                   *)
OneRowPerIntent ==
  \A j, k \in {i \in Key : rows[i] # NoRow} :
    IntentOf[submission[j]] = IntentOf[submission[k]] => j = k

=============================================================================
