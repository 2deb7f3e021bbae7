# Attest: specifications, checks and proofs

Attest is a gateway between AI agents and systems that act on the world. An
agent posts an action; the gateway records it, performs the call downstream
once, reads the result back independently, and tells the agent VERIFIED, FAILED
or UNKNOWN. This directory holds TLA+ modules of that program, the TLC
configurations that check them and TLAPS proofs about them. Paths below are
relative to the repository root.

## The system

| Component | State | Operations | Hard behaviours |
|---|---|---|---|
| State machine, `src/attest/state_machine.py` | none | `is_legal_transition`, `transition` | - |
| Ledger tables, `src/attest/models/action.py` | `actions`, `action_events`, `outbox` | insert, update (through the repository) | unique index, commit of three tables at once |
| Repository, `src/attest/repository.py`, sessions, `src/attest/database.py` | per session: identity map, open transaction, row locks | `create_action`, `transition_action`, `get_action`, `get_action_by_key`, `get_db` | concurrent inserts, stale identity map under `FOR UPDATE`, lost commits, locks left by failures |
| Gateway, `src/attest/api/router.py`, `src/attest/app.py` | one coroutine per request | `POST /v1/actions`, `GET /v1/actions/{id}` | interleaving at every await, crash between steps, database failure after the send |
| Executor, `src/attest/executor.py` | call in flight | `execute_contract` | timeout racing a commit, blank 2xx |
| Verifier, `src/attest/verifier.py` | none | `verify_postcondition` | other actions between the call and the read |
| Contract loading, `src/attest/contracts/loader.py`, `schema.py`, `src/attest/dependencies.py` | registry, built at start or by the first request | `load_contracts`, `get_registry` | a directory that changes while it is read, one broken file, several threads loading |
| Templates, `src/attest/contracts/template.py` | none | `substitute_path`, `parse_read_spec` | arguments of any JSON type in a path |
| Evaluator, `src/attest/contracts/evaluator.py` | none | `validate_expression`, `evaluate_postcondition` | short circuits, missing evidence, exceptions that leave it |
| Key derivation, `src/attest/idempotency.py`, `src/attest/schemas/action.py` | none | `derive_key`, `canonical_json` | two intents with one hash input, one intent with two |
| Connection pool, `src/attest/database.py` | connections in use | taken at a query, given back at a commit, rollback or close | requests that give back a connection and need one again |
| Downstream service, `src/downstream_mock` | orders, refunds, remembered keys | refund, cancel, read, reset | five fault profiles, duplicate deliveries, partial writes |

A request runs through them in this order: look the key up and insert the row
(repository); send (executor); classify; `RECEIVED -> EXECUTED | FAILED |
UNKNOWN` (repository); read and judge (verifier); `EXECUTED -> VERIFIED |
FAILED | COMPENSATING | UNKNOWN` (repository); answer. Requests share the
database and the downstream store and nothing else. The state of the row, the
audit trail and the outbox survive a crash; the coroutines do not, and no code
of this commit resumes an action.

What makes each part correct:

* ledger and sessions: a trail is one chain of legal transitions ending in the
  row's state; decisions are taken on the current state; no call waits for ever;
* gateway: an intent is sent at most once and never without its row; the outbox
  holds what the state asks for; answers agree with the ledger for ever; every
  request is answered;
* executor and verifier: VERIFIED means done exactly once, FAILED means nothing
  happened and nothing will;
* downstream service: status, amounts and records agree; a remembered key is
  not applied again;
* contracts: no file is ignored silently; an accepted assertion can be
  evaluated; a verdict of success needs evidence in the body;
* key derivation: two requests share a row if and only if they are one intent;
* pool: no request waits for ever, and a refused one has sent nothing.

`PROJECT.json` lists the hazards behind these, each at its line.

## Modules

| Module | Models | Correspondence |
|---|---|---|
| `Intents` | `derive_key` | an intent is its key |
| `ActionStateMachine` | `state_machine.py` | the states and arcs as sets |
| `ActionLifecycle` | abstract | what is promised about one action: Record, Send, Resolve, Retry |
| `Ledger` | `models/action.py`, the two transactions of `repository.py` | `rows[k]` is `actions.state`, `events[k]`, `outbox[k]`; `InsertAction`, `TransitionAllowed`, `WriteTransition` |
| `AtomicLedger` | abstract | what the repository promises: each call is one step on the state of that moment |
| `LedgerSessions` | `repository.py`, `database.py` | one action per await; `loaded[s]` is the identity map, `lock[k]` the row lock, `Close` is `get_db`'s exit |
| `SessionPool` | `database.py`, and the connections the calls of `repository.py` and `router.py` take | `at[r]` is the next query or call, `holds[r]` whether the session has a connection |
| `PyData`, `PyValues` | the Python values and operators behind JSON bodies, YAML files and assertions | tagged tuples; an operation returns a value or an exception |
| `Evaluator`, `Assertions` | `evaluator.py` | `CheckAstSafety`, `EvalNode` on syntax trees; `EvaluatePostcondition` is one step, it has no await. The interpreter's operators (`==`, `<`, `a[k]`, `getattr`, ...) are constants, which the runs give the definitions of `PyValues`; `Forest` is the syntax trees there may be, by height |
| `Template` | `template.py` | templates split at their braces |
| `ContractSchema`, `Startup` | `schema.py`; `loader.py`, the lifespan of `app.py`, `dependencies.py` | one action per file opened, in the order of the names; the directory changes in between |
| `ServedContracts` | - | joins `Startup` and `Evaluator`: what the postconditions that are served are worth |
| `KeyText`, `IntentEncoding` | `idempotency.py`, `schemas/action.py` | a request is its words and JSON arguments, `DeriveKey` their text, which `KeyText` joins |
| `ActionsApi` | the two endpoints as agents see them | composes `AtomicLedger` with any key derivation (`KeyOf`; `MCActionsApi` gives it `IntentEncoding`'s); a GET is its two SELECTs, as the ledger goes on changing |
| `Contracts` | `contracts/*.yaml`, `template.py` on them, abstract | paths, definite failures, assertions on the read body |
| `ShippedContracts` | `contracts/*.yaml` | their templates and syntax trees |
| `Executor`, `Verifier` | `executor.py`, `verifier.py` | `Classify`, `Judge` on abstract bodies |
| `Verification` | `verifier.py` in full | the verdict from read spec, JSON body, syntax trees and heuristic |
| `Downstream` | `downstream_mock` | each handler is one step: it has no await between its first read and last write |
| `DownstreamService` | the service with any clients | composes `Downstream` alone |
| `Gateway` | `router.py` with everything above | `pc[r]` is the place between two awaits of `create_action` |
| `GatewayProperties` | - | what the gateway promises, and the refinement mapping to `ActionLifecycle` |
| `MC*` | - | instances for TLC; `MCTrees` finds the `Forest` of given trees |
| `LedgerProofs`, `SessionProofs`, `DownstreamProofs`, `DownstreamServiceProofs`, `GatewayProofs`, `ActionsApiProofs`, `EvaluatorProofs`, `ContractProofs` | - | proofs |

`Gateway` treats a repository call as one step. `LedgerSessions` is the reason
why it may: in the router's use ("owner" discipline, only the session that
recorded an action transitions it) the state the session holds under the lock is
the row's (`LockedStateIsCurrent`). `Gateway` keeps `held[r]` separate from
`rows`, so that this is checked (`HeldStateIsCurrent`), not assumed. Both
implement `AtomicLedger` (`SessionsAreAtomic`, `LedgerIsAtomic`): the detailed
sessions offer what it says, and the gateway asks for no more.

Three other seams between abstract and detailed modules are checked in the same
way. `Verification` takes the verdict from the contracts' own text, the evaluator,
the templates and the JSON the service returns, and compares it with the one
`Contracts` and `Verifier` give `Gateway` (`VerdictAgrees`).
The run of `ActionsApi` shows that requests share a key exactly when they are one
intent, which `Intents` takes for granted; a `|` in a tool's name is the exception. `SessionPool` opens one cause of the database failures `Gateway` has as
faults: a request that finds no connection fails before it has sent anything, or
after its call in a way `Gateway` has too.

`cancelled` in `Downstream`, `sends` and `faults` in `Gateway` are history
variables or fault counters; no guard of the program reads them. Operators
headed "Mutant of" are deliberate bugs; no run uses them. They show that the
property listed with them in `PROJECT.json` can fail.

## Runs

| Run | Question | Size |
|---|---|---|
| `sessions` | is the repository correct under concurrent sessions and failures, and atomic to its callers? | 2 sessions, 2 actions, trails up to 3 events; 134k states |
| `sessions_stale` | and if a session may transition what it loaded earlier? It is not (`AuditChain` violated) | 2 sessions, 1 action |
| `downstream` | do status, money and records agree under all profiles, and is the verdict on the JSON body the one `Gateway` assumes, in every state? | 1 order, 9 intents with whole, decimal, boolean and missing amounts and orders, 5 records; 3.9k states |
| `gateway_safety` | safety of the pipeline and its refinement | 3 requests, 3 intents on one order, all profiles, 1 crash, 1 database failure, 1 failed read; 0.8m states |
| `gateway_liveness` | is every request answered, does every action settle, is the ledger used as promised? | 2 requests, 5 intents (refused, unaddressable, unknown order too), 1 of each fault, 1 reset; 35k states |
| `actions_api` | do requests share an action exactly when they are one intent, and can a GET in the middle of transitions mislead? | 15 requests whose texts are close, 1 agent, 3 audit events; 35k states |
| `assertions` | what does the evaluator make of assertion lists on bodies that fit and bodies that do not? | the lists, bodies and arguments of `MCAssertions` |
| `pool` | does every request close, and is none refused after a send? | 3 requests, 2 keys, 2 connections; 42k states |
| `startup` | does a gateway that serves know every contract, with a lifespan or with threads that load at once? | 3 files, 1 deployment during the load, 2 workers; 66k states |
| `failed_effect` | is FAILED only reached without effect? No, for cancellations | 2 requests |
| `compensating_clean` | does COMPENSATING mean a partial write? No | 2 requests |
| `blocked_execution` | does the 503 mean nothing was sent? No | 1 request |

Why the bounds are enough to be interesting: a conflict needs two requests of
one key, and interference with the verification read one more intent on the same
order; three requests give both at once, and a duplicate after a crash. A trail
of this program has at most three events (recorded, executed, judged), so
`MaxEvents` = 3 still lets a fourth be refused. Faults are bounded at one each,
so each can happen at every place and meet any of the others. `MaxRefunds` = 5
lets one duplicate delivery follow another and pass the order's total.
`CHECK_DEADLOCK FALSE` in the gateway runs: when every request is done the model
stops, as the gateway then has nothing to do. Resets are left out of
`gateway_safety`, because a reset downstream store has forgotten the effects the
properties are about.

The other bounds. `MaxAstDepth` is 4 in `assertions`, so that a tree of a few
nodes meets the limit, and the code's 20 elsewhere. The expressions of
`MCAssertions` have the node classes, operators and exceptions of the evaluator,
alone and behind a short circuit; bodies have fields present, missing, of another
type, or a number of another type. `Digits` and `Spelled` list the only texts of
the instances that pydantic reads as numbers; `StringOrder` lists the strings that
get compared. `PoolSize` is 2 where the code has 15: with three requests it can be
exhausted while one holds a connection and waits for another's row. `MaxDeploys` =
1 puts one change of the directory before, between and after the reads of its
files. `MaxEvents` of `actions_api` counts the events of all actions: three are one
action from its record to its verdict, or three actions of close requests.
`assertions` also has `CHECK_DEADLOCK FALSE`: an evaluation ends.

The violated properties state what a comment, a message or a test of the
repository says; each is a finding in `PROJECT.json` with the line it quotes.

### Fairness

* `Gateway`: weak fairness of a request's own next step (`Proceed`). The event
  loop resumes a coroutine whose await has completed, and every await of
  `create_action` completes: the downstream call has a timeout (`GiveUp` is always
  enabled while waiting), the read a client timeout, the database answers or
  fails. Nothing is assumed of agents, of the downstream service, of message
  delivery or of faults.
* `LedgerSessions`: weak fairness of a session's steps; strong fairness of taking
  a row lock, because PostgreSQL queues waiters; weak fairness of closing a
  session whose call failed, because the exception reaches `get_db`. Callers need
  not make a call, and need not close an idle session.

* `SessionPool`: strong fairness of taking a connection, because the pool is a
  first-in, first-out queue of waiters (`QueuePool`); weak fairness of a request's
  other steps, because its calls have timeouts and PostgreSQL resumes an INSERT
  blocked on a key when the other transaction ends. That the pool gives up after a
  timeout is a step the model allows and its liveness does not rely on.

`ActionsSettle` excludes abandoned actions, those whose own request, the one that
recorded them, crashed or was answered with a server error: the code has no
reconciler, and such an action can stay in RECEIVED or EXECUTED. What befalls
another request of the same intent is no excuse. Among the server errors is the 500
for a path that cannot be built, after the action was recorded: no property says that
such an action goes on, since it does not.

## Proofs

All theorems hold for every set of keys, orders and requests, every assignment
of tools, orders and amounts to intents, every subset of the fault profiles and
all bounds. The assumptions are the named ones of the modules: the constants have
their types, a directory is finite, the order of file names is total, and the
marker values differ from the real ones. Some theorems assume more, and say so:
`Cautious` in 8, conditions on keys in 11, and in 13 to 15 what the interpreter's
operators return and what contracts and arguments look like.

1. `TypeCorrect` (`TypeOK`). `TypeOK` alone is not inductive: to insert a row the
   request must have a key, to record a result the result must be of the kind
   its place asks for, to handle a call its path must have been resolved, and to
   number a new refund record the records must be finite. `TypeInv` adds these.
   `DownstreamProofs` shows that every handler keeps the store well-formed and
   touches no other intent's effects.
2. `SentAtMostOnce`, `LedgerGuard`, `HeldStateCurrent` (`AtMostOneSend`,
   `NothingRunsUnlogged`, `HeldStateIsCurrent`) from `OwnerInv`: an action has at
   most one owner (`OneOwner`), the number of sends follows the owner's place
   (`SendsFollowOwner`), effects come from sends and sends from rows
   (`SendsCover`). Most steps are dismissed by one lemma, `QuietStep`; inserting,
   sending and recording have a lemma each.
3. `AuditChained`, `OutboxFollows` (`AuditChain`, `OutboxInStep`): by `LedgerSteps`
   a step leaves the ledger alone, inserts, or records a legal result from the
   row's own state for an intent that was sent; both properties follow by
   induction over these three.
4. `VerdictsStand` (`VerdictStands`): a state the ledger can still leave has no
   verdict, so no verdict given can be overtaken.
5. `Implements` (`ImplementsLifecycle`): the refinement of `ActionLifecycle`, with
   `rows` as its state and the keys with a nonzero count of sends as its sent
   set. Insert maps to Record, a send to Send, a recorded result to Resolve, all
   else to stuttering.

6. `RefusedUnsent`, `CallsWithinPool` (`RefusedMeansNotSent`,
   `CallsHoldConnections`), for every number of requests and every size of the
   pool, from `PoolInv`: a request that has yet to record its action has sent
   nothing (`UnsentWhileRecording`), one in a call has a connection (`HeldInCalls`),
   and the connections held are no more than there are (`WithinPool`). The second
   needs the cardinality of the requests in calls to be at most that of the
   requests that hold.

7. `UsesLedgerAtomically` (`LedgerIsAtomic`): by `LedgerSteps` again, each step of
   the gateway is a step of `AtomicLedger` or leaves the ledger alone.
8. `SessionsTyped`, `LockedCopyIsCurrent`, `SessionsKeepAudit`, `TerminalForEver`
   and `SessionsImplementLedger` (`SessionsTypeOK`, `LockedStateIsCurrent`,
   `AuditChain`, `TerminalStatesFinal`, `SessionsAreAtomic`), for every number of
   sessions and actions and every set of calls, from `SessionsInv`. That the copy
   under the lock is current is not inductive: it rests on how the session came by
   it. So the invariant adds that a call about to write has the lock of an existing
   row (`CallFits`), that the session which recorded an action has a current copy of
   it (`OwnerKnows`) and is the only one that did (`OneOwner`), and that a session
   waiting for a lock has such a copy or none (`CallerKnows`). A step of one session
   keeps what the others know because a row is written only under its lock, and an
   owned row only by its owner (`OthersStillKnow`); what the acting session knows
   afterwards is shown action by action (`ActorKnows`). The theorems assume
   `Cautious`: every action is transitioned under the "owner" or the "fresh"
   discipline. Without it they are false, which `sessions_stale` shows.
9. `StoreTyped`, `StatusTellsMoney` and `RememberedSpent` (`StoreTypeOK`,
   `StatusFollowsMoney`, `RememberedKeyIsSpent`) for the downstream service alone:
   the first two are inductive together, since a credit needs the types of the
   amounts. The third follows from what `AddRefunds` leaves alone, and from
   `CallIsNew`: whoever refunds an order leaves a record that was not there, of a key
   not yet remembered. The bound `MaxRefunds` is arbitrary. `MoneyIsRecorded` (`NoMoneyWithoutRecord`) needs
   more: that a credited amount is that of records which are new, and what one
   more record does to a sum. The first is `Numbered`, no record has a number above
   the count of its key's records, which makes the numbers `AddRefunds` takes free.
   The second is `AmountGrows`, about the library's sum over a set: every finite
   set has a weighing, a function of its subsets that grows by the amount of
   whichever record is added, and the sum, which takes the records in the order of
   a CHOOSE, agrees with it. Both are inductions on the size of the set, over the
   set of the sizes for which the claim holds (`EveryNatural`, from the
   well-foundedness of the naturals).
10. `FailedHasNoEffect`, `VerifiedRefundExact` and `VerifiedCancelWritten`
   (`FailedRefundHasNoEffect`, `VerifiedRefundIsExact`, `VerifiedCancelHappened`):
   what a verdict in the ledger says of the downstream store. They tie a row to
   records written in another system, perhaps after the gateway gave up waiting.
   `CallInv` follows the one call of an intent: before it is sent the intent has no
   record (`OneCall`), as long as it is on the wire it has had no effect
   (`CallFits`), and a failure the executor holds means that the handler refused
   (`FailureIsTrue`); the records are accounted for by what handlers did
   (`StoreAccount`). `SuccessInv` adds what a success and a verdict rest on: a
   status that confirms was answered after the write (`SuccessIsWritten`), and a
   body that satisfies the contract was read from a store in which the effect is
   there, whatever other requests did to the order in between (`VerdictIsTrue`).
   `FailedHasNoEffect` holds with resets. The other two are stated for behaviours
   up to the first reset (`NeverReset => ...`): a store that was reset has forgotten
   the effects.
11. `DeduplicatedSame`, `OneRowForIntent`, `AnswersOnlyGrow` and `TrailsExplained`
   (`DeduplicatedIsSame`, `OneRowPerIntent`, `AnswersGrow`, `TrailReachesState`),
   for every set of requests and agents, from `ApiInv`: a row holds a request
   of its key that the API accepts (`RowsHoldRequests`), an agent was told of recorded actions only
   (`ToldIsRecorded`), the state the first SELECT read is one the trail has passed
   (`StateReadWasPassed`), and every answer is a prefix of the trail in the ledger
   (`AnswersArePrefixes`). The first two theorems assume of the derivation what
   each rests on, for the requests that are accepted: `KeysTellIntentsApart`, no
   two intents with one key, and `KeysFollowIntents`, one key for one intent.
   `DeduplicatedByText` replaces the first by what `derive_key` computes: when keys
   are the texts of `KeyText`, no tool has a `|` in its name (no shipped contract
   has), a step is written one way, arguments begin with a brace and their
   canonical JSON determines the value read from it, then agents are told only of
   their own intent, whatever `|`s their tasks contain. It rests on
   `KeyTextTellsApart`: from the text one reads back the four parts, because of two
   equal texts neither can have its JSON begin first (`NoShorterHead`). The run
   `actions_api` computes the keys with the encoding of `idempotency.py` and finds
   both conditions to hold on requests whose texts are close.
12. `EveryFileCounts` and `RefusedIsUnknown` (`NoFileIgnored`,
   `RefusedToolIsUnknown`), for every set of files and documents, every number of
   threads and every number of deployments, from `LoadInv`: in a load the files to
   come and the contracts read add up to the files listed (`Counted`); as long as the
   directory stays as it was each file is still to come or known
   (`NothingPassedOver`); and with a lifespan no request ever loads, as the registry
   is in its place before the first (`OneWayOfLoading`), so that only without one can
   a registry be empty while its load had listed files. What makes a document a
   contract is left to `ContractSchema` and not looked into.
13. `ChainIsConjunctionHolds`, `AcceptedIsEvaluableHolds`, `EqualityContainedHolds`
   and `MissingEvidenceFailsHolds` (the four properties of `assertions`), for every
   set of syntax trees of any height and width, every list of assertions, and every
   body and arguments. `EvalNode`, `CheckAstSafety` and the paths of
   `LeadsSomewhere` are functions defined by recursion on the parts of a tree. That
   such a function exists and is what its definition says (`EvalNodeIs`,
   `RecursivePredicate`) is an induction on the height, since a tree is higher than
   its parts (`ForestAssumption`), and so is every claim about all trees
   (`TreeInduction`: a set of trees that has each tree whose parts it has, has them
   all). The induction is over sets, not over an operator, which the prover cannot
   take. On it rest: what each node class yields when its parts yield values or an
   exception the interpreter knows (`StepYields`, `SafeYields`), that a path either
   raises or leads to a value (`PathFound`), and what an equality makes of its two
   sides. `ChainIsConjunctionHolds` compares two evaluations link by link
   (`Conjunction`) and assumes nothing of the interpreter. The other three assume
   `PythonValues(Value)` for some set of values that has the body and the arguments:
   an operator of the interpreter gives a value or raises an exception of its own,
   never `UnsafeExpressionError`; `==` never raises; `None` cannot be subscripted;
   an entry that a dictionary lacks raises; an attribute is a value or missing; constants in the text are values. That
   is Python on JSON data. Not used is what `<` or `+` compute.
14. `ContractsServed` and `VerdictsNeedEvidenceHolds` (`VerdictsNeedEvidence`):
   whatever is deployed and whenever it is read, what a registry serves is among the
   documents and accepted by the schema (`ContractsServedInv`, which holds of the
   contracts of an unfinished load too), so that it has at least one assertion
   (`SomeAssertion`), and that one does not hold of an empty response. The theorem
   assumes `RequiresEvidence` of every document that is a contract: an assertion is
   refused by the safety check, or is an equality whose left side is a path below
   `body` or `args`. All assertions of the shipped contracts are. Without it an
   assertion such as `1 == 1` would verify anything, which no code prevents.
15. `VerdictsAgree` and `CleanRefundsVerify` (`VerdictAgrees`,
   `CleanRefundVerifies`), for every set of orders, keys and arguments and every
   history of calls, faults and resets. The first joins the two descriptions of the
   verifier: the one `Gateway`'s theorems (10) rest on, three comparisons on an
   abstract body, and the one in the code, in which a path is built from a template,
   a JSON body is read and the contract's trees are evaluated. Step by step:
   what a path template becomes (`SubstituteIs`, `OrderIdValue`, `ReadPathIs`,
   `CallPathIs`); what each field of the body reads as (`OrderFields`,
   `RefundFieldValue`); what the shipped assertions evaluate to on it
   (`PostconditionIs`), a missing amount being an `EvaluationError` that the
   abstract contract counts as not equal to anything (`AmountValue`); and that the
   heuristic for partial effects raises nothing on such a body (`PartialIs`). The
   second theorem needs a history besides: a key that is remembered and
   has one record, alone on its order, was credited its amount once (`CleanInv`). The
   call that remembers it wrote that record, since its number was free
   (`ProcessedNow`), and no later call of any key can credit the order without a
   record of its own (`ProcessedStays`).

   They assume of the interpreter `ComparesAsPython`: `==` on strings is equality, on
   whole numbers `==` and `<` are those of the integers however JSON writes the
   number, and a number equals nothing that is no number. Of the arguments they
   assume `PlainArguments`: an order is named by a string, and the amount, if there
   is one, is a whole number or something that is neither number nor string. Strings are
   excluded because there the first is false (below); booleans and fractions
   because `AmountOf` counts in whole units. `ShippedAssumption`, that the shipped
   assertions pass the safety check, is evaluated by TLC.

The lemmas on the ledger's two writes, in `LedgerProofs`, serve both the gateway
and the sessions. Together, 7 and 8 join the two levels: the sessions implement
the atomic ledger, and the gateway asks no more of it.

Every safety invariant and action property of a passing run is thereby a theorem.
Only model-checked: that canonical JSON determines the arguments' value and follows
from it (11), because `IntentEncoding` is recursive over texts and the prover cannot
expand such an operator. For the same reason, that `PyValues` meets what 13 and 15
assume of the interpreter is evaluated by TLC on samples (`SampleAssumption` in
`MCAssertions` and `MCDownstream`). Liveness (`EveryRequestAnswered`, `ActionsSettle`,
`EveryCallReturns`, `EveryRequestCloses`) stays with TLC too: the prover has no
support for reasoning with fairness and ENABLED.

## Abstractions and what is not modelled

* In `Gateway` an intent is a key with a tool, an order and an amount. Other
  arguments, `resource_key`, headers and bodies are left out; amounts are natural
  numbers (0 stands for any amount the endpoint refuses). `Verification` has JSON
  arguments and fractions, `IntentEncoding` the whole request.
* A 5xx, a connection error and a timeout have one outcome, `GiveUp`; the
  response of the `timeout_after_commit` profile (2.5 s) never arrives within the
  2 s timeout. The blank 2xx commits or not by choice: its seeded generator is
  not modelled.
* A database failure either leaves nothing or hits after the commit; `Gateway`
  leaves its cause open.
* Python values: a float is an exact fraction, so rounding is left out; the
  spelling of a float, a list or a dictionary in a path is left open; `is` is modelled
  for None and the booleans, the identity of other objects is not. Which attributes a
  string, a list or a number has is left open too: the theorems hold for any, and
  `PyValues` gives the runs a method and a number's `real`.
* The keys' hash (SHA-256) is taken as injective. `IntentEncoding` compares
  the tokens of the JSON. That loses nothing: a JSON text starts with a brace, and
  a `|` in it is inside a string, where the rest has an odd number of quotes left
  and is no JSON.
* A template is split at its braces and an assertion is the tree `ast.parse` makes
  of it: Python's parser and regular expressions are not modelled.
* `load_contracts` reads and checks a file in one step. `register` and `require` of
  the registry are called by tests only.
* PostgreSQL is modelled by the unique index, row locks and atomic commits.
* Not modelled: settings and HTTP client factories (no state), the migration (DDL
  run once; its unique index is a guard of `InsertAction`), the response models
  beyond their fields, `/health`, CORS, `GET /refunds/{id}` (changes nothing).
* Not in the code at this commit: reconciler, compensation worker, retries, SDK,
  completion guard, agent runner, benchmark. The `compensation` and `reconcile`
  sections of the contracts are read by nothing.
* Columns nothing writes after the insert (`attempts`, `downstream_ref`,
  `lease_until`, `deadline_at`), timestamps, and the trigger that keeps
  `action_events` append-only, which no statement of the program would fire.

### Where the code stops short of its properties

Properties that pass are stated as far as the code bears them out. What lies
beyond, seen while modelling:

* `<`, `<=`, `>`, `>=` and `in` raise `TypeError` on a missing amount, and no one
  catches it (`evaluator.py:288`): the action stays EXECUTED behind a 500.
  `EqualityContained` is therefore about equalities, which the shipped contracts
  keep to.
* A refund whose amount is the string "1" is applied as 1.0 and compared as a
  string: it ends in COMPENSATING. `CleanRefundVerifies` is about numbers.
* `derive_key` does not escape `|`: with contracts named `c` and `2|c`, two intents
  have one key. `DeduplicatedIsSame` holds for tools without a `|`, whatever a
  task has in it. An amount of 1 and one of 1.0 are two keys, so `OneRowPerIntent`
  takes them for two intents, although the docstring of `canonical_json` says that
  "Floats and ints have consistent representation" (`idempotency.py:14`).
* The state and the trail of one GET can be of two moments: `TrailReachesState`
  says that the trail passes through the state, not that it ends there.
* Without a lifespan, one broken file leaves an empty registry for the rest of the
  process (`dependencies.py:28`): `RefusedToolIsUnknown` excepts that registry, and
  `NoFileIgnored` says that there is no other with fewer contracts than files.
* `resource_key` is stored and never compared, so nothing fences a resource whose
  action is UNKNOWN or COMPENSATING (`attest-project-description.md:269`).

## Plan

Done: ledger, sessions, gateway and downstream service with their safety,
liveness and refinements; the endpoints as agents see them; evaluator, templates,
loading and verification on real contracts; the encoding behind a key; the
connection pool; the theorems above. What is left:

1. The two conditions on keys of 11 for the encoding itself, which needs canonical
   JSON without recursion.
2. Fractional amounts in `Downstream`, so that 15 holds for every number.
