--------------------------- MODULE GatewayProofs ---------------------------
(***************************************************************************)
(* Theorems about the gateway for every set of intents, orders and         *)
(* requests and every bound on the faults.                                 *)
(***************************************************************************)
EXTENDS GatewayProperties, DownstreamProofs, LedgerProofs, TLAPS

(***************************************************************************)
(* Types.  TypeOK is made inductive by four facts: a request that has      *)
(* arrived has a key, the result it is about to record is of the kind its  *)
(* place asks for, what is on the wire could be addressed, and the refund  *)
(* records stay finite, so that they can be counted.                       *)
(***************************************************************************)
KeyKnown == \A r \in Request : pc[r] # "new" => key[r] \in Key

ResultFits ==
  \A r \in Request :
    /\ pc[r] = "classified" => outcome[r] \in Classification
    /\ pc[r] = "judged" => outcome[r] \in Verdict

WireAddressed ==
  \A r \in Request :
    wire[r] = "sent" \/ pc[r] = "waiting" =>
      pc[r] # "new" /\ key[r] \in Key /\ ResolvesPath(key[r])

TypeInv ==
  /\ TypeOK
  /\ IsFiniteSet(refunds)
  /\ KeyKnown
  /\ ResultFits
  /\ WireAddressed

(* The router's tables on a result (router.py): the state is a state the   *)
(* lifecycle allows next, and the verdict spoken is one that state has.    *)
LEMMA ResultTables ==
  /\ \A result \in Classification :
       /\ Target(result) \in {"FAILED", "UNKNOWN", "EXECUTED"}
       /\ Target(result) = "EXECUTED" <=> result = "definite_success"
  /\ \A result \in Verdict :
       Target(result) \in {"FAILED", "UNKNOWN", "VERIFIED", "COMPENSATING"}
  /\ \A result \in Classification \cup Verdict :
       /\ Kind(result) \in OutboxKind \cup {NoKind}
       /\ Kind(result) = CASE Target(result) = "UNKNOWN" -> "reconcile"
                           [] Target(result) = "COMPENSATING" -> "compensate"
                           [] OTHER -> NoKind
       /\ result # "definite_success" =>
            /\ Spoken(result) \in {"VERIFIED", "FAILED", "UNKNOWN"}
            /\ Spoken(result) = StateToVerdict(Target(result))
BY DEF Classification, Verdict, Target, Kind, Spoken, StateToVerdict,
       OutboxKind, NoKind

LEMMA VerdictType ==
  \A state : state \in ActionState \cup {NoRow} =>
    StateToVerdict(state) \in {"VERIFIED", "FAILED", "UNKNOWN", "none"}
BY DEF StateToVerdict

LEMMA ClassifyType ==
  \A code, blank, definite : Classify(code, blank, definite) \in Classification
BY DEF Classify, Classification

LEMMA JudgeType == \A k, code, body : Judge(k, code, body) \in Verdict
BY DEF Judge, JudgeBody, Verdict

LEMMA InitTypeInv == Init => TypeInv
<1> SUFFICES ASSUME Init PROVE TypeInv
  OBVIOUS
<1>1. StoreTypeOK /\ IsFiniteSet(refunds)
  BY StoreInitLemma DEF Init, StoreInv
<1>2. LedgerTypeOK
  <2>1. <<>> \in Seq(Event) /\ <<>> \in Seq(OutboxKind)
    OBVIOUS
  <2> QED BY <2>1 DEF Init, LedgerInit, LedgerTypeOK
<1>3. /\ pc \in [Request -> Place] /\ key \in [Request -> Key \cup {NoKey}]
      /\ held \in [Request -> ActionState \cup {NoRow}]
      /\ outcome \in [Request -> Classification \cup Verdict \cup {"none"}]
      /\ wire \in [Request -> {"idle", "sent", "closed"} \cup Response]
      /\ sends \in [Key -> Nat] /\ faults \in [Fault -> Nat]
  BY DEF Init, Place
<1>4. reply \in [Request -> [code : {0, 200, 422, 500, 503},
                             verdict : {"VERIFIED", "FAILED", "UNKNOWN", "none"},
                             deduplicated : {"no", "yes"}]]
  BY DEF Init, NoReply
<1>5. KeyKnown /\ ResultFits /\ WireAddressed
  BY DEF Init, KeyKnown, ResultFits, WireAddressed
<1> QED BY <1>1, <1>2, <1>3, <1>4, <1>5 DEF TypeInv, TypeOK

-----------------------------------------------------------------------------
(* The variables that belong to the requests: their part of TypeInv.       *)
RequestTypeOK ==
  /\ pc \in [Request -> Place]
  /\ key \in [Request -> Key \cup {NoKey}]
  /\ held \in [Request -> ActionState \cup {NoRow}]
  /\ outcome \in [Request -> Classification \cup Verdict \cup {"none"}]
  /\ reply \in [Request -> [code : {0, 200, 422, 500, 503},
                            verdict : {"VERIFIED", "FAILED", "UNKNOWN", "none"},
                            deduplicated : {"no", "yes"}]]
  /\ wire \in [Request -> {"idle", "sent", "closed"} \cup Response]
  /\ sends \in [Key -> Nat]
  /\ faults \in [Fault -> Nat]
  /\ KeyKnown
  /\ ResultFits
  /\ WireAddressed

LEMMA TypeInvParts ==
  /\ TypeInv <=> LedgerTypeOK /\ StoreInv /\ RequestTypeOK
  /\ TypeInv' <=> LedgerTypeOK' /\ StoreInv' /\ RequestTypeOK'
BY DEF TypeInv, TypeOK, StoreInv, RequestTypeOK

LEMMA LedgerKept == LedgerTypeOK /\ UNCHANGED ledgerVars => LedgerTypeOK'
BY DEF LedgerTypeOK, ledgerVars

LEMMA StoreKept == StoreInv /\ UNCHANGED storeVars => StoreInv'
BY DEF StoreInv, StoreTypeOK, storeVars

LEMMA ReplyType ==
  ASSUME RequestTypeOK, NEW r \in Request, NEW code \in {200, 422, 500, 503},
         NEW verdict \in {"VERIFIED", "FAILED", "UNKNOWN", "none"},
         \/ Answer(r, code, verdict, "yes") \/ Answer(r, code, verdict, "no")
  PROVE  reply' \in [Request -> [code : {0, 200, 422, 500, 503},
                                verdict : {"VERIFIED", "FAILED", "UNKNOWN", "none"},
                                deduplicated : {"no", "yes"}]]
<1>1. PICK dedup \in {"no", "yes"} :
        reply' = [reply EXCEPT ![r] = [code |-> code, verdict |-> verdict,
                                       deduplicated |-> dedup]]
  BY DEF Answer
<1>2. [code |-> code, verdict |-> verdict, deduplicated |-> dedup] \in
        [code : {0, 200, 422, 500, 503},
         verdict : {"VERIFIED", "FAILED", "UNKNOWN", "none"},
         deduplicated : {"no", "yes"}]
  OBVIOUS
<1> QED BY <1>1, <1>2 DEF RequestTypeOK

(* Answering keeps the types, whichever variables of the request a handler *)
(* leaves alone.                                                           *)
LEMMA AnswerType ==
  ASSUME RequestTypeOK, NEW r \in Request, pc[r] # "new",
         NEW code \in {200, 500, 503},
         NEW verdict \in {"VERIFIED", "FAILED", "UNKNOWN", "none"},
         \/ Answer(r, code, verdict, "yes") \/ Answer(r, code, verdict, "no"),
         held' \in [Request -> ActionState \cup {NoRow}],
         faults' \in [Fault -> Nat],
         UNCHANGED <<key, outcome, wire, sends>>
  PROVE  RequestTypeOK'
<1>1. reply' \in [Request -> [code : {0, 200, 422, 500, 503},
                             verdict : {"VERIFIED", "FAILED", "UNKNOWN", "none"},
                             deduplicated : {"no", "yes"}]]
  BY ReplyType
<1>2. pc' \in [Request -> Place] /\ pc' = [pc EXCEPT ![r] = "done"]
  BY DEF RequestTypeOK, Answer, Goto, Place
<1>3. KeyKnown' /\ ResultFits' /\ WireAddressed'
  BY <1>2 DEF RequestTypeOK, KeyKnown, ResultFits, WireAddressed, ResolvesPath
<1> QED BY <1>1, <1>2, <1>3 DEF RequestTypeOK

LEMMA HeldFaultsType ==
  /\ RequestTypeOK /\ held' = held => held' \in [Request -> ActionState \cup {NoRow}]
  /\ RequestTypeOK /\ faults' = faults => faults' \in [Fault -> Nat]
BY DEF RequestTypeOK

LEMMA HappensType ==
  ASSUME RequestTypeOK, NEW fault \in Fault, NEW bound, Happens(fault, bound)
  PROVE  faults' \in [Fault -> Nat]
BY DEF RequestTypeOK, Happens

(* What transition_action writes for the result a request is recording.    *)
LEMMA RecordResultType ==
  ASSUME LedgerTypeOK, RequestTypeOK, NEW r \in Request,
         pc[r] \in {"classified", "judged"}, RecordResult(r)
  PROVE  /\ LedgerTypeOK'
         /\ held' \in [Request -> ActionState \cup {NoRow}]
         /\ held[r] \in ActionState
<1>1. outcome[r] \in Classification \cup Verdict /\ key[r] \in Key
  BY DEF RequestTypeOK, ResultFits, KeyKnown
<1>2. Target(outcome[r]) \in ActionState /\ Kind(outcome[r]) \in OutboxKind \cup {NoKind}
  BY <1>1, ResultTables DEF ActionState
<1>3. held[r] \in ActionState
  BY DEF RecordResult, Transition, TransitionAllowed, IsLegalTransition,
         LEGAL_TRANSITIONS, ActionState
<1>4. LedgerTypeOK'
  BY <1>1, <1>2, <1>3, WriteType DEF RecordResult, Transition
<1>5. held' \in [Request -> ActionState \cup {NoRow}]
  BY <1>2 DEF RecordResult, Transition, RequestTypeOK
<1> QED BY <1>3, <1>4, <1>5

LEMMA TypeStep == TypeInv /\ [Next]_vars => TypeInv'
<1> SUFFICES ASSUME LedgerTypeOK, StoreInv, RequestTypeOK, [Next]_vars
             PROVE  LedgerTypeOK' /\ StoreInv' /\ RequestTypeOK'
  BY TypeInvParts
<1>1. ASSUME NEW r \in Request, NEW k \in Key, Submit(r, k)
      PROVE  LedgerTypeOK' /\ StoreInv' /\ RequestTypeOK'
  <2>1. UNCHANGED ledgerVars /\ UNCHANGED storeVars
    BY <1>1 DEF Submit
  <2>2. PICK place \in {"lookup", "done"} : pc' = [pc EXCEPT ![r] = place]
    BY <1>1 DEF Submit, Answer, Goto
  <2>3. /\ key' = [key EXCEPT ![r] = k] /\ pc[r] = "new"
        /\ UNCHANGED <<held, outcome, wire, sends, faults>>
    BY <1>1 DEF Submit
  <2>4. key' \in [Request -> Key \cup {NoKey}] /\ pc' \in [Request -> Place]
    BY <2>2, <2>3 DEF RequestTypeOK, Place
  <2>5. reply' \in [Request -> [code : {0, 200, 422, 500, 503},
                               verdict : {"VERIFIED", "FAILED", "UNKNOWN", "none"},
                               deduplicated : {"no", "yes"}]]
    <3>1. UNCHANGED reply \/ Answer(r, 422, "none", "no")
      BY <1>1 DEF Submit
    <3> QED BY <3>1, ReplyType DEF RequestTypeOK
  <2>6. KeyKnown' /\ ResultFits' /\ WireAddressed'
    BY <2>2, <2>3 DEF RequestTypeOK, KeyKnown, ResultFits, WireAddressed, ResolvesPath
  <2>7. RequestTypeOK'
    BY <2>5, <2>6, <2>3, <2>4 DEF RequestTypeOK
  <2> QED BY <2>1, <2>7, LedgerKept, StoreKept
<1>2. ASSUME NEW r \in Request, pc[r] # "new", AnswerDeduplicated(r)
      PROVE  LedgerTypeOK' /\ StoreInv' /\ RequestTypeOK'
  <2>1. UNCHANGED ledgerVars /\ UNCHANGED storeVars
    BY <1>2 DEF AnswerDeduplicated
  <2>2. StateToVerdict(rows[key[r]]) \in {"VERIFIED", "FAILED", "UNKNOWN", "none"}
    BY <1>2, VerdictType DEF LedgerTypeOK, RequestTypeOK, KeyKnown
  <2>3. /\ Answer(r, 200, StateToVerdict(rows[key[r]]), "yes")
        /\ UNCHANGED <<key, outcome, wire, sends>>
        /\ held' = held /\ faults' = faults
    BY <1>2 DEF AnswerDeduplicated
  <2>4. RequestTypeOK'
    BY <1>2, <2>2, <2>3, HeldFaultsType, AnswerType
  <2> QED BY <2>1, <2>4, LedgerKept, StoreKept
<1>3. ASSUME NEW r \in Request, Lookup(r)
      PROVE  LedgerTypeOK' /\ StoreInv' /\ RequestTypeOK'
  <2>1. CASE AnswerDeduplicated(r)
    BY <1>2, <1>3, <2>1 DEF Lookup
  <2>2. CASE Goto(r, "insert") /\ UNCHANGED <<ledgerVars, storeVars, key, held,
                                    outcome, reply, wire, sends, faults>>
    <3>1. RequestTypeOK'
      BY <1>3, <2>2 DEF Lookup, RequestTypeOK, Goto, Place, KeyKnown, ResultFits,
                        WireAddressed, ResolvesPath
    <3> QED BY <2>2, <3>1, LedgerKept, StoreKept
  <2> QED BY <1>3, <2>1, <2>2 DEF Lookup
<1>4. ASSUME NEW r \in Request, Insert(r)
      PROVE  LedgerTypeOK' /\ StoreInv' /\ RequestTypeOK'
  <2>1. key[r] \in Key
    BY <1>4 DEF Insert, RequestTypeOK, KeyKnown
  <2>2. LedgerTypeOK'
    BY <1>4, <2>1, InsertType, LedgerKept DEF Insert
  <2>3. StoreInv'
    BY <1>4, StoreKept DEF Insert
  <2>4. PICK place \in {"recorded", "refetch"} : pc' = [pc EXCEPT ![r] = place]
    BY <1>4 DEF Insert, Goto
  <2>5. held' \in [Request -> ActionState \cup {NoRow}]
    BY <1>4 DEF Insert, RequestTypeOK, ActionState
  <2>6. pc[r] = "insert" /\ UNCHANGED <<key, outcome, reply, wire, sends, faults>>
    BY <1>4 DEF Insert
  <2>7. pc' \in [Request -> Place] /\ KeyKnown' /\ ResultFits' /\ WireAddressed'
    BY <2>4, <2>6 DEF RequestTypeOK, Place, KeyKnown, ResultFits, WireAddressed, ResolvesPath
  <2> QED BY <2>2, <2>3, <2>5, <2>6, <2>7 DEF RequestTypeOK
<1>5. ASSUME NEW r \in Request, Refetch(r)
      PROVE  LedgerTypeOK' /\ StoreInv' /\ RequestTypeOK'
  BY <1>2, <1>5 DEF Refetch
<1>6. ASSUME NEW r \in Request, RecordingFails(r)
      PROVE  LedgerTypeOK' /\ StoreInv' /\ RequestTypeOK'
  <2>1. pc[r] # "new" /\ key[r] \in Key
    BY <1>6 DEF RecordingFails, RequestTypeOK, KeyKnown
  <2>2. LedgerTypeOK'
    BY <1>6, <2>1, InsertType, LedgerKept DEF RecordingFails
  <2>3. StoreInv'
    BY <1>6, StoreKept DEF RecordingFails
  <2>4. faults' \in [Fault -> Nat]
    BY <1>6, HappensType DEF RecordingFails, Fault
  <2>5. RequestTypeOK'
    <3>1. /\ Answer(r, 503, "none", "no")
          /\ UNCHANGED <<key, outcome, wire, sends>> /\ held' = held
      BY <1>6 DEF RecordingFails
    <3> QED BY <2>1, <2>4, <3>1, HeldFaultsType, AnswerType
  <2> QED BY <2>2, <2>3, <2>5
<1>7. ASSUME NEW r \in Request, Execute(r)
      PROVE  LedgerTypeOK' /\ StoreInv' /\ RequestTypeOK'
  <2>1. LedgerTypeOK' /\ StoreInv'
    BY <1>7, LedgerKept, StoreKept DEF Execute
  <2>2. CASE ResolvesPath(key[r])
    <3>1. /\ wire' = [wire EXCEPT ![r] = "sent"]
          /\ sends' = [sends EXCEPT ![key[r]] = @ + 1]
          /\ pc' = [pc EXCEPT ![r] = "waiting"]
          /\ UNCHANGED <<key, held, outcome, reply, faults>>
      BY <1>7, <2>2 DEF Execute, Goto
    <3>2. key[r] \in Key
      BY <1>7 DEF Execute, RequestTypeOK, KeyKnown
    <3>3. sends' \in [Key -> Nat]
      BY <3>1, <3>2 DEF RequestTypeOK
    <3>4. pc' \in [Request -> Place] /\ wire' \in [Request -> {"idle", "sent", "closed"} \cup Response]
      BY <3>1 DEF RequestTypeOK, Place
    <3>5. KeyKnown' /\ ResultFits' /\ WireAddressed'
      BY <2>2, <3>1, <3>2 DEF RequestTypeOK, KeyKnown, ResultFits, WireAddressed, ResolvesPath
    <3> QED BY <2>1, <3>1, <3>3, <3>4, <3>5 DEF RequestTypeOK
  <2>3. CASE ~ ResolvesPath(key[r])
    <3>1. RequestTypeOK'
      <4>1. /\ Answer(r, 500, "none", "no") /\ pc[r] # "new"
            /\ UNCHANGED <<key, outcome, wire, sends>>
            /\ held' = held /\ faults' = faults
        BY <1>7, <2>3 DEF Execute
      <4> QED BY <4>1, HeldFaultsType, AnswerType
    <3> QED BY <2>1, <3>1
  <2> QED BY <2>2, <2>3
<1>8. ASSUME NEW r \in Request, Handle(r)
      PROVE  LedgerTypeOK' /\ StoreInv' /\ RequestTypeOK'
  <2>1. PICK profile \in Profiles, response \in Response :
          /\ Mutate(profile, key[r], response)
          /\ wire' = [wire EXCEPT ![r] = IF pc[r] = "waiting" THEN response ELSE "closed"]
    BY <1>8 DEF Handle
  <2>2. wire[r] = "sent" /\ key[r] \in Key /\ ResolvesPath(key[r])
    BY <1>8 DEF Handle, RequestTypeOK, WireAddressed
  <2>3. StoreInv'
    BY <2>1, <2>2, MutateLemma
  <2>4. UNCHANGED ledgerVars /\ UNCHANGED <<pc, key, held, outcome, reply, sends, faults>>
    BY <1>8 DEF Handle, requestVars
  <2>5. wire' \in [Request -> {"idle", "sent", "closed"} \cup Response]
    BY <2>1 DEF RequestTypeOK
  <2>6. KeyKnown' /\ ResultFits' /\ WireAddressed'
    BY <2>1, <2>4 DEF RequestTypeOK, KeyKnown, ResultFits, WireAddressed, ResolvesPath, Response
  <2> QED BY <2>3, <2>4, <2>5, <2>6, LedgerKept DEF RequestTypeOK
<1>9. ASSUME NEW r \in Request, Receive(r) \/ GiveUp(r)
      PROVE  LedgerTypeOK' /\ StoreInv' /\ RequestTypeOK'
  <2>1. LedgerTypeOK' /\ StoreInv'
    BY <1>9, LedgerKept, StoreKept DEF Receive, GiveUp
  <2>2. PICK result \in Classification : outcome' = [outcome EXCEPT ![r] = result]
    BY <1>9, ClassifyType DEF Receive, GiveUp
  <2>3. /\ pc[r] = "waiting"
        /\ pc' = [pc EXCEPT ![r] = "classified"]
        /\ wire' = [wire EXCEPT ![r] = "closed"] \/ wire' = [wire EXCEPT ![r] = "sent"]
        /\ wire' = [wire EXCEPT ![r] = "closed"] \/ wire[r] = "sent"
        /\ UNCHANGED <<key, held, reply, sends, faults>>
    BY <1>9 DEF Receive, GiveUp, Goto
  <2>4. /\ pc' \in [Request -> Place]
        /\ wire' \in [Request -> {"idle", "sent", "closed"} \cup Response]
        /\ outcome' \in [Request -> Classification \cup Verdict \cup {"none"}]
    BY <2>2, <2>3 DEF RequestTypeOK, Place
  <2>5. KeyKnown' /\ ResultFits' /\ WireAddressed'
    BY <2>2, <2>3 DEF RequestTypeOK, KeyKnown, ResultFits, WireAddressed, ResolvesPath
  <2> QED BY <2>1, <2>3, <2>4, <2>5 DEF RequestTypeOK
<1>10. ASSUME NEW r \in Request, RecordOutcome(r)
       PROVE  LedgerTypeOK' /\ StoreInv' /\ RequestTypeOK'
  <2>1. LedgerTypeOK' /\ held' \in [Request -> ActionState \cup {NoRow}]
    BY <1>10, RecordResultType DEF RecordOutcome
  <2>2. StoreInv' /\ UNCHANGED <<key, outcome, wire, sends, faults>> /\ pc[r] = "classified"
    BY <1>10, StoreKept DEF RecordOutcome
  <2>3. CASE outcome[r] = "definite_success"
    <3>1. pc' = [pc EXCEPT ![r] = "executed"] /\ UNCHANGED reply
      BY <1>10, <2>3 DEF RecordOutcome, Goto
    <3>2. pc' \in [Request -> Place] /\ KeyKnown' /\ ResultFits' /\ WireAddressed'
      BY <2>2, <3>1 DEF RequestTypeOK, Place, KeyKnown, ResultFits, WireAddressed, ResolvesPath
    <3> QED BY <2>1, <2>2, <3>1, <3>2 DEF RequestTypeOK
  <2>4. CASE outcome[r] # "definite_success"
    <3>1. Spoken(outcome[r]) \in {"VERIFIED", "FAILED", "UNKNOWN"}
      BY <2>2, <2>4, ResultTables DEF RequestTypeOK, ResultFits
    <3>2. Answer(r, 200, Spoken(outcome[r]), "no")
      BY <1>10, <2>4 DEF RecordOutcome
    <3>3. RequestTypeOK'
      BY <2>1, <2>2, <3>1, <3>2, HeldFaultsType, AnswerType
    <3> QED BY <2>1, <2>2, <3>3
  <2> QED BY <2>3, <2>4
<1>11. ASSUME NEW r \in Request, VerifyRead(r) \/ ReadUnavailable(r)
       PROVE  LedgerTypeOK' /\ StoreInv' /\ RequestTypeOK'
  <2>1. LedgerTypeOK' /\ StoreInv'
    BY <1>11, LedgerKept, StoreKept DEF VerifyRead, ReadUnavailable
  <2>2. PICK verdict \in Verdict : outcome' = [outcome EXCEPT ![r] = verdict]
    BY <1>11, JudgeType DEF VerifyRead, ReadUnavailable, Verdict
  <2>3. faults' \in [Fault -> Nat]
    BY <1>11, HappensType DEF VerifyRead, ReadUnavailable, RequestTypeOK, Fault
  <2>4. pc[r] = "executed" /\ pc' = [pc EXCEPT ![r] = "judged"]
        /\ UNCHANGED <<key, held, reply, wire, sends>>
    BY <1>11 DEF VerifyRead, ReadUnavailable, Goto
  <2>5. /\ pc' \in [Request -> Place]
        /\ outcome' \in [Request -> Classification \cup Verdict \cup {"none"}]
    BY <2>2, <2>4 DEF RequestTypeOK, Place
  <2>6. KeyKnown' /\ ResultFits' /\ WireAddressed'
    BY <2>2, <2>4 DEF RequestTypeOK, KeyKnown, ResultFits, WireAddressed, ResolvesPath
  <2> QED BY <2>1, <2>3, <2>4, <2>5, <2>6 DEF RequestTypeOK
<1>12. ASSUME NEW r \in Request, RecordVerdict(r)
       PROVE  LedgerTypeOK' /\ StoreInv' /\ RequestTypeOK'
  <2>1. LedgerTypeOK' /\ held' \in [Request -> ActionState \cup {NoRow}]
    BY <1>12, RecordResultType DEF RecordVerdict
  <2>2. Spoken(outcome[r]) \in {"VERIFIED", "FAILED", "UNKNOWN"}
    BY <1>12, ResultTables DEF RecordVerdict, RequestTypeOK, ResultFits, Verdict
  <2>3. RequestTypeOK'
    <3>1. /\ Answer(r, 200, Spoken(outcome[r]), "no") /\ pc[r] # "new"
          /\ UNCHANGED <<key, outcome, wire, sends>> /\ faults' = faults
      BY <1>12 DEF RecordVerdict
    <3> QED BY <2>1, <2>2, <3>1, HeldFaultsType, AnswerType
  <2> QED BY <1>12, <2>1, <2>3, StoreKept DEF RecordVerdict
<1>13. ASSUME NEW r \in Request, TransitionFails(r)
       PROVE  LedgerTypeOK' /\ StoreInv' /\ RequestTypeOK'
  <2>1. LedgerTypeOK' /\ held' \in [Request -> ActionState \cup {NoRow}]
    <3>1. CASE RecordResult(r)
      BY <1>13, <3>1, RecordResultType DEF TransitionFails
    <3>2. CASE UNCHANGED <<ledgerVars, held>>
      BY <3>2, LedgerKept DEF RequestTypeOK
    <3> QED BY <1>13, <3>1, <3>2 DEF TransitionFails
  <2>2. faults' \in [Fault -> Nat]
    BY <1>13, HappensType DEF TransitionFails, Fault
  <2>3. RequestTypeOK'
    <3>1. PICK code \in {500, 503} : Answer(r, code, "none", "no")
      BY <1>13 DEF TransitionFails
    <3>2. UNCHANGED <<key, outcome, wire, sends>> /\ pc[r] # "new"
      BY <1>13 DEF TransitionFails
    <3> QED BY <2>1, <2>2, <3>1, <3>2, AnswerType
  <2> QED BY <1>13, <2>1, <2>3, StoreKept DEF TransitionFails
<1>14. CASE Crash
  <2>1. LedgerTypeOK' /\ StoreInv'
    BY <1>14, LedgerKept, StoreKept DEF Crash
  <2>2. faults' \in [Fault -> Nat]
    BY <1>14, HappensType DEF Crash, Fault
  <2>3. pc' \in [Request -> Place]
    BY <1>14 DEF Crash, RequestTypeOK, Place
  <2>4. KeyKnown' /\ ResultFits' /\ WireAddressed'
    BY <1>14 DEF Crash, InFlight, RequestTypeOK, KeyKnown, ResultFits, WireAddressed, ResolvesPath
  <2> QED BY <1>14, <2>1, <2>2, <2>3, <2>4 DEF Crash, RequestTypeOK
<1>15. CASE StoreReset
  <2>1. LedgerTypeOK' /\ StoreInv'
    BY <1>15, LedgerKept, ResetLemma DEF StoreReset
  <2>2. faults' \in [Fault -> Nat]
    BY <1>15, HappensType DEF StoreReset, Fault
  <2> QED BY <1>15, <2>1, <2>2 DEF StoreReset, requestVars, RequestTypeOK, KeyKnown,
                                   ResultFits, WireAddressed, ResolvesPath
<1>16. CASE UNCHANGED vars
  BY <1>16, LedgerKept, StoreKept DEF vars, ledgerVars, storeVars, RequestTypeOK, KeyKnown,
                                   ResultFits, WireAddressed, ResolvesPath
<1> QED
  BY <1>1, <1>3, <1>4, <1>5, <1>6, <1>7, <1>8, <1>9, <1>10, <1>11, <1>12, <1>13,
     <1>14, <1>15, <1>16 DEF Next, Proceed

(* TypeCorrect: every reachable state of the gateway, the ledger and the   *)
(* downstream store is well-typed.                                         *)
THEOREM TypeCorrect == Spec => []TypeOK
<1>1. Spec => []TypeInv
  BY InitTypeInv, TypeStep, PTL DEF Spec
<1>2. TypeInv => TypeOK
  BY DEF TypeInv
<1> QED BY <1>1, <1>2, PTL

-----------------------------------------------------------------------------
(***************************************************************************)
(* Ownership.  The unique index makes the request that records an action   *)
(* its only owner, and only owners send and record results.  So the count  *)
(* of sends follows the places of the owner, and the state the owner holds *)
(* is the row's.  OwnerInv is inductive relative to TypeInv.               *)
(***************************************************************************)
OneOwner ==
  \A q, r \in Request : Owns(q) /\ Owns(r) /\ key[q] = key[r] => q = r

SendsFollowOwner ==
  \A r \in Request :
    /\ pc[r] = "recorded" => sends[key[r]] = 0
    /\ Owns(r) /\ pc[r] # "recorded" => sends[key[r]] > 0
    /\ wire[r] = "sent" => sends[key[r]] > 0

SendsCover ==
  \A k \in Key :
    /\ HasEffect(k) => sends[k] > 0
    /\ sends[k] > 0 => rows[k] # NoRow

OwnerInv ==
  /\ OneOwner
  /\ SendsFollowOwner
  /\ SendsCover
  /\ HeldStateIsCurrent
  /\ AtMostOneSend

(* Most steps neither record, nor send, nor write a result: the owners     *)
(* that remain stand where they stood as far as OwnerInv can tell.         *)
LEMMA QuietStep ==
  ASSUME TypeInv, OwnerInv, rows' = rows, sends' = sends,
         \A q \in Request : Owns(q)' =>
           /\ Owns(q) /\ key'[q] = key[q] /\ held'[q] = held[q]
           /\ pc'[q] = "recorded" <=> pc[q] = "recorded"
           /\ pc'[q] \in {"executed", "judged"} <=> pc[q] \in {"executed", "judged"},
         \A q \in Request : wire'[q] = "sent" => wire[q] = "sent" /\ key'[q] = key[q],
         \A k \in Key : HasEffect(k)' => HasEffect(k) \/ sends[k] > 0
  PROVE  OwnerInv'
<1>1. OneOwner'
  BY DEF OwnerInv, OneOwner
<1>2. SendsFollowOwner'
  BY DEF OwnerInv, SendsFollowOwner, Owns, Owner
<1>3. SendsCover'
  BY DEF OwnerInv, SendsCover
<1>4. HeldStateIsCurrent'
  BY DEF OwnerInv, HeldStateIsCurrent
<1>5. AtMostOneSend'
  BY DEF OwnerInv, AtMostOneSend
<1> QED BY <1>1, <1>2, <1>3, <1>4, <1>5 DEF OwnerInv

LEMMA EffectsKept ==
  UNCHANGED storeVars => \A k \in Key : HasEffect(k)' => HasEffect(k) \/ sends[k] > 0
BY DEF storeVars, HasEffect, RefundsOf

(* The insert finds no row, hence no owner of the key and no send.         *)
LEMMA InsertStep ==
  ASSUME TypeInv, OwnerInv, NEW r \in Request, pc[r] = "insert",
         InsertAction(key[r]), UNCHANGED storeVars, UNCHANGED <<key, wire, sends>>,
         \/ /\ pc' = [pc EXCEPT ![r] = "recorded"]
            /\ held' = [held EXCEPT ![r] = "RECEIVED"]
         \/ pc' = [pc EXCEPT ![r] = "done"] /\ held' = held
  PROVE  OwnerInv'
<1>1. /\ pc \in [Request -> Place] /\ held \in [Request -> ActionState \cup {NoRow}]
      /\ key[r] \in Key /\ rows \in [Key -> ActionState \cup {NoRow}]
      /\ sends \in [Key -> Nat]
  BY DEF TypeInv, TypeOK, KeyKnown, LedgerTypeOK
<1>2. rows[key[r]] = NoRow /\ rows' = [rows EXCEPT ![key[r]] = "RECEIVED"]
  BY DEF InsertAction
<1>3. \A q \in Request : Owns(q) => key[q] # key[r] /\ key[q] \in Key
  <2>1. SUFFICES ASSUME NEW q \in Request, Owns(q)
                 PROVE  rows[key[q]] # NoRow /\ key[q] \in Key
    BY <1>2
  <2>2. rows[key[q]] \in {"RECEIVED", "EXECUTED"}
    BY <2>1 DEF OwnerInv, HeldStateIsCurrent
  <2>3. key[q] \in Key
    BY <2>1 DEF TypeInv, KeyKnown, Owns, Owner
  <2> QED BY <2>2, <2>3 DEF NoRow
<1>4. sends[key[r]] = 0
  BY <1>1, <1>2 DEF OwnerInv, SendsCover
<1>5. ~ Owns(r) /\ \A q \in Request : q # r => pc'[q] = pc[q] /\ held'[q] = held[q]
  BY <1>1 DEF Owns, Owner
<1>6. pc'[r] = "recorded" => held'[r] = "RECEIVED" /\ rows'[key[r]] = "RECEIVED"
  BY <1>1, <1>2
<1>7. pc'[r] \in {"recorded", "done"}
  BY <1>1
<1>8. OneOwner'
  BY <1>3, <1>5 DEF OwnerInv, OneOwner, Owns
<1>9. SendsFollowOwner'
  BY <1>4, <1>5, <1>7 DEF OwnerInv, SendsFollowOwner, Owns, Owner
<1>10. SendsCover'
  <2>1. \A k \in Key : HasEffect(k)' => sends[k] > 0
    BY EffectsKept DEF OwnerInv, SendsCover
  <2>2. \A k \in Key : sends[k] > 0 => rows'[k] # NoRow
    BY <1>1, <1>2 DEF OwnerInv, SendsCover, NoRow
  <2> QED BY <2>1, <2>2 DEF SendsCover
<1>11. HeldStateIsCurrent'
  <2>1. SUFFICES ASSUME NEW q \in Request, Owns(q)'
                 PROVE  /\ held'[q] = rows'[key[q]]
                        /\ held'[q] = IF pc'[q] \in {"executed", "judged"}
                                      THEN "EXECUTED" ELSE "RECEIVED"
    BY DEF HeldStateIsCurrent
  <2>2. CASE q = r
    BY <1>6, <1>7, <2>1, <2>2 DEF Owns, Owner
  <2>3. CASE q # r
    BY <1>1, <1>2, <1>3, <1>5, <2>1, <2>3 DEF OwnerInv, HeldStateIsCurrent, Owns
  <2> QED BY <2>2, <2>3
<1>12. AtMostOneSend'
  BY DEF OwnerInv, AtMostOneSend
<1> QED BY <1>8, <1>9, <1>10, <1>11, <1>12 DEF OwnerInv

(* A send is the first one of its key, and its sender the only owner.      *)
LEMMA SendStep ==
  ASSUME TypeInv, OwnerInv, NEW r \in Request, pc[r] = "recorded",
         wire' = [wire EXCEPT ![r] = "sent"],
         sends' = [sends EXCEPT ![key[r]] = @ + 1],
         pc' = [pc EXCEPT ![r] = "waiting"],
         rows' = rows, UNCHANGED storeVars, UNCHANGED <<key, held>>
  PROVE  OwnerInv'
<1>1. /\ pc \in [Request -> Place] /\ key[r] \in Key /\ sends \in [Key -> Nat]
      /\ wire \in [Request -> {"idle", "sent", "closed"} \cup Response]
  BY DEF TypeInv, TypeOK, KeyKnown
<1>2. Owns(r) /\ sends[key[r]] = 0 /\ sends'[key[r]] = 1
  BY <1>1 DEF Owns, Owner, OwnerInv, SendsFollowOwner
<1>3. \A q \in Request : q # r => pc'[q] = pc[q] /\ wire'[q] = wire[q]
  BY <1>1
<1>4. pc'[r] = "waiting"
  BY <1>1
<1>5. OneOwner'
  BY <1>2, <1>3 DEF OwnerInv, OneOwner, Owns
<1>6. \A k \in Key : sends'[k] = IF k = key[r] THEN 1 ELSE sends[k]
  BY <1>1, <1>2
<1>7. SendsFollowOwner'
  <2>1. SUFFICES ASSUME NEW q \in Request
                 PROVE  /\ pc'[q] = "recorded" => sends'[key[q]] = 0
                        /\ Owns(q)' /\ pc'[q] # "recorded" => sends'[key[q]] > 0
                        /\ wire'[q] = "sent" => sends'[key[q]] > 0
    BY DEF SendsFollowOwner
  <2>2. CASE q = r
    BY <1>2, <1>4, <2>2
  <2>3. CASE q # r
    <3>1. pc'[q] = pc[q] /\ wire'[q] = wire[q] /\ Owns(q)' = Owns(q)
      BY <1>3, <2>3 DEF Owns
    <3>2. Owns(q) \/ wire[q] = "sent" => key[q] \in Key
      BY DEF TypeInv, KeyKnown, WireAddressed, Owns, Owner
    <3>3. Owns(q) => key[q] # key[r]
      BY <1>2, <2>3 DEF OwnerInv, OneOwner
    <3>4. pc[q] = "recorded" => Owns(q)
      BY DEF Owns, Owner
    <3> QED BY <1>6, <3>1, <3>2, <3>3, <3>4 DEF OwnerInv, SendsFollowOwner
  <2> QED BY <2>2, <2>3
<1>8. SendsCover'
  <2>1. rows[key[r]] # NoRow
    BY <1>2 DEF OwnerInv, HeldStateIsCurrent, NoRow
  <2>2. \A k \in Key : HasEffect(k)' => sends[k] > 0
    BY EffectsKept DEF OwnerInv, SendsCover
  <2> QED BY <1>6, <2>1, <2>2 DEF OwnerInv, SendsCover
<1>9. HeldStateIsCurrent'
  BY <1>2, <1>3, <1>4 DEF OwnerInv, HeldStateIsCurrent, Owns, Owner
<1>10. AtMostOneSend'
  BY <1>6 DEF OwnerInv, AtMostOneSend
<1> QED BY <1>5, <1>7, <1>8, <1>9, <1>10 DEF OwnerInv

(* An owner records its result in the row it alone owns.                   *)
LEMMA RecordStep ==
  ASSUME TypeInv, OwnerInv, NEW r \in Request, pc[r] \in {"classified", "judged"},
         RecordResult(r), UNCHANGED storeVars, UNCHANGED <<key, wire, sends>>,
         \/ pc' = [pc EXCEPT ![r] = "done"]
         \/ /\ outcome[r] = "definite_success" /\ pc[r] = "classified"
            /\ pc' = [pc EXCEPT ![r] = "executed"]
  PROVE  OwnerInv'
<1>1. /\ pc \in [Request -> Place] /\ held \in [Request -> ActionState \cup {NoRow}]
      /\ key[r] \in Key /\ rows \in [Key -> ActionState \cup {NoRow}]
      /\ sends \in [Key -> Nat]
  BY DEF TypeInv, TypeOK, KeyKnown, LedgerTypeOK
<1> DEFINE target == Target(outcome[r])
<1>2. /\ rows' = [rows EXCEPT ![key[r]] = target]
      /\ held' = [held EXCEPT ![r] = target]
  BY DEF RecordResult, Transition, WriteTransition
<1>3. target \in ActionState
  BY ResultTables DEF TypeInv, ResultFits, ActionState
<1>4. pc'[r] \in {"done", "executed"} /\ (pc'[r] = "executed" => target = "EXECUTED")
  BY <1>1 DEF Target
<1>5. \A q \in Request : q # r => pc'[q] = pc[q] /\ held'[q] = held[q]
  BY <1>1, <1>2
<1>6. Owns(r)
  BY DEF Owns, Owner
<1>7. \A q \in Request : q # r /\ Owns(q) => key[q] # key[r] /\ key[q] \in Key
  BY <1>6 DEF OwnerInv, OneOwner, TypeInv, KeyKnown, Owns, Owner
<1>8. OneOwner'
  BY <1>5, <1>6 DEF OwnerInv, OneOwner, Owns
<1>9. SendsFollowOwner'
  BY <1>4, <1>5, <1>6 DEF OwnerInv, SendsFollowOwner, Owns, Owner
<1>10. SendsCover'
  <2>1. \A k \in Key : HasEffect(k)' => sends[k] > 0
    BY EffectsKept DEF OwnerInv, SendsCover
  <2>2. \A k \in Key : sends[k] > 0 => rows'[k] # NoRow
    BY <1>1, <1>2, <1>3 DEF OwnerInv, SendsCover, NoRow, ActionState
  <2> QED BY <2>1, <2>2 DEF SendsCover
<1>11. HeldStateIsCurrent'
  <2>1. SUFFICES ASSUME NEW q \in Request, Owns(q)'
                 PROVE  /\ held'[q] = rows'[key[q]]
                        /\ held'[q] = IF pc'[q] \in {"executed", "judged"}
                                      THEN "EXECUTED" ELSE "RECEIVED"
    BY DEF HeldStateIsCurrent
  <2>2. CASE q = r
    BY <1>1, <1>2, <1>4, <2>1, <2>2 DEF Owns, Owner
  <2>3. CASE q # r
    BY <1>1, <1>2, <1>5, <1>7, <2>1, <2>3 DEF OwnerInv, HeldStateIsCurrent, Owns
  <2> QED BY <2>2, <2>3
<1>12. AtMostOneSend'
  BY DEF OwnerInv, AtMostOneSend
<1> QED BY <1>8, <1>9, <1>10, <1>11, <1>12 DEF OwnerInv

LEMMA OwnerInit == Init => OwnerInv
BY DEF Init, StoreInit, LedgerInit, OwnerInv, OneOwner, SendsFollowOwner, SendsCover,
       HasEffect, RefundsOf, HeldStateIsCurrent, AtMostOneSend, Owns, Owner

LEMMA OwnerStepLemma == TypeInv /\ OwnerInv /\ [Next]_vars => OwnerInv'
<1> SUFFICES ASSUME TypeInv, OwnerInv, [Next]_vars PROVE OwnerInv'
  OBVIOUS
<1> USE DEF Owns, Owner
<1>0. /\ pc \in [Request -> Place] /\ key \in [Request -> Key \cup {NoKey}]
      /\ wire \in [Request -> {"idle", "sent", "closed"} \cup Response]
      /\ KeyKnown /\ WireAddressed
  BY DEF TypeInv, TypeOK
<1>1. ASSUME NEW r \in Request, NEW k \in Key, Submit(r, k) PROVE OwnerInv'
  <2>1. /\ pc[r] = "new" /\ key' = [key EXCEPT ![r] = k]
        /\ UNCHANGED storeVars /\ rows' = rows
        /\ UNCHANGED <<held, wire, sends>>
    BY <1>1 DEF Submit, ledgerVars
  <2>2. PICK place \in {"lookup", "done"} : pc' = [pc EXCEPT ![r] = place]
    BY <1>1 DEF Submit, Answer, Goto
  <2>3. wire[r] # "sent"
    BY <1>0, <2>1 DEF WireAddressed
  <2> QED BY <1>0, <2>1, <2>2, <2>3, EffectsKept, QuietStep
<1>2. ASSUME NEW r \in Request, NEW place \in {"done", "insert", "refetch"}, ~ Owns(r),
             pc' = [pc EXCEPT ![r] = place], UNCHANGED <<ledgerVars, storeVars>>,
             UNCHANGED <<key, held, wire, sends>>
      PROVE  OwnerInv'
  BY <1>0, <1>2, EffectsKept, QuietStep DEF ledgerVars
<1>3. ASSUME NEW r \in Request, Lookup(r) \/ Refetch(r) PROVE OwnerInv'
  <2>1. PICK place \in {"done", "insert"} : pc' = [pc EXCEPT ![r] = place]
    BY <1>3 DEF Lookup, Refetch, AnswerDeduplicated, Answer, Goto
  <2>2. /\ ~ Owns(r) /\ UNCHANGED <<ledgerVars, storeVars>>
        /\ UNCHANGED <<key, held, wire, sends>>
    BY <1>3 DEF Lookup, Refetch, AnswerDeduplicated
  <2> QED BY <1>2, <2>1, <2>2
<1>4. ASSUME NEW r \in Request, Insert(r) PROVE OwnerInv'
  <2>1. CASE InsertAction(key[r]) /\ held' = [held EXCEPT ![r] = "RECEIVED"]
             /\ Goto(r, "recorded")
    BY <1>4, <2>1, InsertStep DEF Insert, Goto
  <2>2. CASE Goto(r, "refetch") /\ UNCHANGED <<ledgerVars, held>>
    BY <1>2, <1>4, <2>2 DEF Insert, Goto
  <2> QED BY <1>4, <2>1, <2>2 DEF Insert
<1>5. ASSUME NEW r \in Request, RecordingFails(r) PROVE OwnerInv'
  <2>1. /\ pc' = [pc EXCEPT ![r] = "done"] /\ ~ Owns(r)
        /\ UNCHANGED storeVars /\ UNCHANGED <<key, held, wire, sends>>
    BY <1>5 DEF RecordingFails, Answer, Goto
  <2>2. CASE UNCHANGED ledgerVars
    BY <1>2, <2>1, <2>2
  <2>3. CASE pc[r] = "insert" /\ InsertAction(key[r])
    BY <2>1, <2>3, InsertStep
  <2> QED BY <1>5, <2>2, <2>3 DEF RecordingFails
<1>6. ASSUME NEW r \in Request, Execute(r) PROVE OwnerInv'
  <2>1. CASE ResolvesPath(key[r])
    BY <1>6, <2>1, SendStep DEF Execute, Goto, ledgerVars
  <2>2. CASE ~ ResolvesPath(key[r])
    <3>1. /\ pc' = [pc EXCEPT ![r] = "done"]
          /\ UNCHANGED <<ledgerVars, storeVars>> /\ UNCHANGED <<key, held, wire, sends>>
      BY <1>6, <2>2 DEF Execute, Answer, Goto
    <3> QED BY <1>0, <3>1, EffectsKept, QuietStep DEF ledgerVars
  <2> QED BY <2>1, <2>2
<1>7. ASSUME NEW r \in Request, Handle(r) PROVE OwnerInv'
  <2>1. PICK profile \in Profiles, response \in Response :
          /\ Mutate(profile, key[r], response)
          /\ wire' = [wire EXCEPT ![r] = IF pc[r] = "waiting" THEN response ELSE "closed"]
    BY <1>7 DEF Handle
  <2>2. wire[r] = "sent" /\ key[r] \in Key /\ ResolvesPath(key[r])
    BY <1>0, <1>7 DEF Handle, WireAddressed
  <2>3. \A k \in Key : HasEffect(k)' => HasEffect(k) \/ sends[k] > 0
    <3>1. StoreInv
      BY TypeInvParts
    <3>2. \A k \in Key \ {key[r]} : HasEffect(k)' = HasEffect(k)
      BY <2>1, <2>2, <3>1, MutateLemma
    <3>3. sends[key[r]] > 0
      BY <2>2 DEF OwnerInv, SendsFollowOwner
    <3> QED BY <3>2, <3>3
  <2>4. rows' = rows /\ UNCHANGED <<pc, key, held, sends>>
    BY <1>7 DEF Handle, ledgerVars, requestVars
  <2>5. \A q \in Request : wire'[q] = "sent" => wire[q] = "sent"
    BY <1>0, <2>1, <2>2
  <2> QED BY <2>3, <2>4, <2>5, QuietStep
<1>8. ASSUME NEW r \in Request, Receive(r) \/ GiveUp(r) PROVE OwnerInv'
  <2>1. /\ pc[r] = "waiting" /\ pc' = [pc EXCEPT ![r] = "classified"]
        /\ wire' = [wire EXCEPT ![r] = "closed"] \/ wire' = wire
        /\ UNCHANGED <<ledgerVars, storeVars>> /\ UNCHANGED <<key, held, sends>>
    <3>1. wire' = [wire EXCEPT ![r] = "closed"] \/ wire' = [wire EXCEPT ![r] = wire[r]]
      BY <1>8 DEF Receive, GiveUp
    <3> QED BY <1>0, <1>8, <3>1 DEF Receive, GiveUp, Goto
  <2> QED BY <1>0, <2>1, EffectsKept, QuietStep DEF ledgerVars
<1>9. ASSUME NEW r \in Request, RecordOutcome(r) PROVE OwnerInv'
  <2>1. CASE outcome[r] = "definite_success"
    BY <1>9, <2>1, RecordStep DEF RecordOutcome, Goto
  <2>2. CASE outcome[r] # "definite_success"
    BY <1>9, <2>2, RecordStep DEF RecordOutcome, Answer, Goto
  <2> QED BY <2>1, <2>2
<1>10. ASSUME NEW r \in Request, VerifyRead(r) \/ ReadUnavailable(r) PROVE OwnerInv'
  <2>1. /\ pc[r] = "executed" /\ pc' = [pc EXCEPT ![r] = "judged"]
        /\ UNCHANGED <<ledgerVars, storeVars>> /\ UNCHANGED <<key, held, wire, sends>>
    BY <1>10 DEF VerifyRead, ReadUnavailable, Goto
  <2> QED BY <1>0, <2>1, EffectsKept, QuietStep DEF ledgerVars
<1>11. ASSUME NEW r \in Request, RecordVerdict(r) PROVE OwnerInv'
  BY <1>11, RecordStep DEF RecordVerdict, Answer, Goto
<1>12. ASSUME NEW r \in Request, TransitionFails(r) PROVE OwnerInv'
  <2>1. /\ pc' = [pc EXCEPT ![r] = "done"] /\ pc[r] \in {"classified", "judged"}
        /\ UNCHANGED storeVars /\ UNCHANGED <<key, wire, sends>>
    BY <1>12 DEF TransitionFails, Answer, Goto
  <2>2. CASE RecordResult(r)
    BY <2>1, <2>2, RecordStep
  <2>3. CASE UNCHANGED <<ledgerVars, held>>
    BY <1>0, <2>1, <2>3, EffectsKept, QuietStep DEF ledgerVars
  <2> QED BY <1>12, <2>2, <2>3 DEF TransitionFails
<1>13. CASE Crash
  <2>1. /\ \A q \in Request : pc'[q] = IF InFlight(q) THEN "crashed" ELSE pc[q]
        /\ UNCHANGED <<ledgerVars, storeVars>> /\ UNCHANGED <<key, held, wire, sends>>
    BY <1>13 DEF Crash
  <2> QED BY <2>1, EffectsKept, QuietStep DEF ledgerVars, InFlight
<1>14. CASE StoreReset
  <2>1. \A k \in Key : ~ HasEffect(k)'
    BY <1>14, ResetLemma DEF StoreReset
  <2> QED BY <1>14, <2>1, QuietStep DEF StoreReset, ledgerVars, requestVars
<1>15. CASE UNCHANGED vars
  <2>1. UNCHANGED storeVars /\ rows' = rows /\ UNCHANGED <<pc, key, held, wire, sends>>
    BY <1>15 DEF vars, storeVars
  <2> QED BY <2>1, EffectsKept, QuietStep
<1> QED
  BY <1>1, <1>3, <1>4, <1>5, <1>6, <1>7, <1>8, <1>9, <1>10, <1>11, <1>12, <1>13,
     <1>14, <1>15 DEF Next, Proceed

LEMMA Invariant == Spec => [](TypeInv /\ OwnerInv)
BY InitTypeInv, OwnerInit, TypeStep, OwnerStepLemma, PTL DEF Spec

(* SentAtMostOnce: for every number of requests, keys, crashes, database   *)
(* failures and resets, no intent is sent downstream twice.                *)
THEOREM SentAtMostOnce == Spec => []AtMostOneSend
<1>1. OwnerInv => AtMostOneSend
  BY DEF OwnerInv
<1> QED BY <1>1, Invariant, PTL

(* LedgerGuard: what was sent, and what has an effect, is in the ledger.   *)
THEOREM LedgerGuard == Spec => []NothingRunsUnlogged
<1>1. OwnerInv => NothingRunsUnlogged
  BY DEF OwnerInv, SendsCover, NothingRunsUnlogged
<1> QED BY <1>1, Invariant, PTL

(* HeldStateCurrent: the state in the session of the request that owns an  *)
(* action is the state in the database.                                    *)
THEOREM HeldStateCurrent == Spec => []HeldStateIsCurrent
<1>1. OwnerInv => HeldStateIsCurrent
  BY DEF OwnerInv
<1> QED BY <1>1, Invariant, PTL

-----------------------------------------------------------------------------
(***************************************************************************)
(* The ledger.  Whatever the step, it leaves the tables alone, inserts an  *)
(* action, or records a result the abstract lifecycle allows: from the     *)
(* state the row is in, which is RECEIVED or EXECUTED, along a legal arc,  *)
(* for an intent that was sent.                                            *)
(***************************************************************************)
Recorded(k, target) ==
  /\ rows[k] \in {"RECEIVED", "EXECUTED"}
  /\ IsLegalTransition(rows[k], target)
  /\ target \in {"FAILED", "UNKNOWN", "EXECUTED", "VERIFIED", "COMPENSATING"}
  /\ sends[k] > 0
  /\ WriteTransition(k, rows[k], target,
                     CASE target = "UNKNOWN" -> "reconcile"
                       [] target = "COMPENSATING" -> "compensate"
                       [] OTHER -> NoKind)

LEMMA RecordedLemma ==
  ASSUME TypeInv, OwnerInv, NEW r \in Request, pc[r] \in {"classified", "judged"},
         RecordResult(r)
  PROVE  key[r] \in Key /\ Recorded(key[r], Target(outcome[r]))
<1>1. key[r] \in Key
  BY DEF TypeInv, KeyKnown
<1>2. Owns(r) /\ pc[r] # "recorded"
  BY DEF Owns, Owner
<1>3. held[r] = rows[key[r]] /\ rows[key[r]] \in {"RECEIVED", "EXECUTED"}
  BY <1>2 DEF OwnerInv, HeldStateIsCurrent
<1>4. sends[key[r]] > 0
  BY <1>2 DEF OwnerInv, SendsFollowOwner
<1>5. outcome[r] \in Classification \cup Verdict
  BY DEF TypeInv, ResultFits
<1>6. Target(outcome[r]) \in {"FAILED", "UNKNOWN", "EXECUTED", "VERIFIED", "COMPENSATING"}
  BY <1>5, ResultTables
<1>7. Kind(outcome[r]) = CASE Target(outcome[r]) = "UNKNOWN" -> "reconcile"
                           [] Target(outcome[r]) = "COMPENSATING" -> "compensate"
                           [] OTHER -> NoKind
  BY <1>5, ResultTables
<1> QED BY <1>1, <1>3, <1>4, <1>6, <1>7 DEF Recorded, RecordResult, Transition,
                                          TransitionAllowed

LEMMA LedgerSteps ==
  ASSUME TypeInv, OwnerInv, [Next]_vars
  PROVE  \/ UNCHANGED ledgerVars
         \/ \E k \in Key : InsertAction(k) /\ sends' = sends
         \/ \E k \in Key, target \in ActionState : Recorded(k, target) /\ sends' = sends
<1>1. ASSUME NEW r \in Request, Insert(r) \/ RecordingFails(r)
      PROVE  UNCHANGED ledgerVars \/ (key[r] \in Key /\ InsertAction(key[r]) /\ sends' = sends)
  BY <1>1 DEF Insert, RecordingFails, TypeInv, KeyKnown
<1>2. ASSUME NEW r \in Request, RecordOutcome(r) \/ RecordVerdict(r) \/ TransitionFails(r)
      PROVE  \/ UNCHANGED ledgerVars
             \/ \E k \in Key, target \in ActionState : Recorded(k, target) /\ sends' = sends
  <2>1. /\ pc[r] \in {"classified", "judged"} /\ sends' = sends
        /\ RecordResult(r) \/ UNCHANGED ledgerVars
    BY <1>2 DEF RecordOutcome, RecordVerdict, TransitionFails
  <2>2. CASE RecordResult(r)
    <3>1. key[r] \in Key /\ Recorded(key[r], Target(outcome[r]))
      BY <2>1, <2>2, RecordedLemma
    <3>2. Target(outcome[r]) \in ActionState
      BY <3>1 DEF Recorded, ActionState
    <3> QED BY <2>1, <3>1, <3>2
  <2> QED BY <2>1, <2>2
<1>3. ASSUME NEW r \in Request, NEW k \in Key, Submit(r, k) PROVE UNCHANGED ledgerVars
  BY <1>3 DEF Submit
<1>4. ASSUME NEW r \in Request,
             \/ Lookup(r) \/ Refetch(r) \/ Execute(r) \/ Handle(r) \/ Receive(r)
             \/ GiveUp(r) \/ VerifyRead(r) \/ ReadUnavailable(r)
      PROVE  UNCHANGED ledgerVars
  BY <1>4 DEF Lookup, Refetch, AnswerDeduplicated, Execute, Handle, Receive, GiveUp,
              VerifyRead, ReadUnavailable
<1>5. CASE Crash \/ StoreReset
  BY <1>5 DEF Crash, StoreReset
<1>6. CASE UNCHANGED vars
  BY <1>6 DEF vars, ledgerVars
<1> QED BY <1>1, <1>2, <1>3, <1>4, <1>5, <1>6 DEF Next, Proceed

-----------------------------------------------------------------------------
LEMMA AuditChainStep ==
  TypeInv /\ OwnerInv /\ AuditChain /\ [Next]_vars => AuditChain'
<1> SUFFICES ASSUME TypeInv, OwnerInv, AuditChain, [Next]_vars PROVE AuditChain'
  OBVIOUS
<1>1. LedgerTypeOK
  BY DEF TypeInv, TypeOK
<1>2. CASE UNCHANGED ledgerVars
  BY <1>2 DEF ledgerVars, AuditChain
<1>3. ASSUME NEW k \in Key, InsertAction(k) PROVE AuditChain'
  BY <1>1, <1>3, InsertAudit
<1>4. ASSUME NEW k \in Key, NEW target \in ActionState, Recorded(k, target)
      PROVE  AuditChain'
  <2>1. rows[k] # NoRow /\ IsLegalTransition(rows[k], target)
    BY <1>4 DEF Recorded, NoRow
  <2>2. PICK kind : WriteTransition(k, rows[k], target, kind)
    BY <1>4 DEF Recorded
  <2> QED BY <1>1, <2>1, <2>2, WriteAudit
<1> QED BY <1>2, <1>3, <1>4, LedgerSteps

(* AuditChained: the audit trail of every action is one unbroken chain of  *)
(* legal transitions that ends in its state.                               *)
THEOREM AuditChained == Spec => []AuditChain
<1>1. Init => AuditChain
  BY DEF Init, LedgerInit, AuditChain
<1> QED BY <1>1, AuditChainStep, Invariant, PTL DEF Spec

LEMMA OutboxStep ==
  TypeInv /\ OwnerInv /\ OutboxInStep /\ [Next]_vars => OutboxInStep'
<1> SUFFICES ASSUME TypeInv, OwnerInv, OutboxInStep, [Next]_vars PROVE OutboxInStep'
  OBVIOUS
<1>1. /\ rows \in [Key -> ActionState \cup {NoRow}] /\ outbox \in [Key -> Seq(OutboxKind)]
  BY DEF TypeInv, TypeOK, LedgerTypeOK
<1>2. CASE UNCHANGED ledgerVars
  BY <1>2 DEF ledgerVars, OutboxInStep
<1>3. ASSUME NEW k \in Key, InsertAction(k) PROVE OutboxInStep'
  BY <1>1, <1>3 DEF InsertAction, OutboxInStep, NoRow
<1>4. ASSUME NEW k \in Key, NEW target \in ActionState, Recorded(k, target)
      PROVE  OutboxInStep'
  <2>1. outbox[k] = <<>> /\ rows' = [rows EXCEPT ![k] = target]
    BY <1>4 DEF Recorded, WriteTransition, OutboxInStep
  <2>2. outbox'[k] = CASE target = "UNKNOWN" -> <<"reconcile">>
                       [] target = "COMPENSATING" -> <<"compensate">>
                       [] OTHER -> <<>>
    <3>1. CASE target = "UNKNOWN"
      BY <1>1, <1>4, <2>1, <3>1 DEF Recorded, WriteTransition, NoKind
    <3>2. CASE target = "COMPENSATING"
      BY <1>1, <1>4, <2>1, <3>2 DEF Recorded, WriteTransition, NoKind
    <3>3. CASE target \notin {"UNKNOWN", "COMPENSATING"}
      BY <1>4, <2>1, <3>3 DEF Recorded, WriteTransition, NoKind
    <3> QED BY <3>1, <3>2, <3>3
  <2>3. \A j \in Key \ {k} : rows'[j] = rows[j] /\ outbox'[j] = outbox[j]
    BY <1>1, <1>4 DEF Recorded, WriteTransition
  <2> QED BY <1>1, <2>1, <2>2, <2>3 DEF OutboxInStep
<1> QED BY <1>2, <1>3, <1>4, LedgerSteps

(* OutboxFollows: the outbox of every action holds what its state asks     *)
(* for, once.                                                              *)
THEOREM OutboxFollows == Spec => []OutboxInStep
<1>1. Init => OutboxInStep
  <2>1. SUFFICES ASSUME Init, NEW k \in Key
                 PROVE  outbox[k] = CASE rows[k] = "UNKNOWN" -> <<"reconcile">>
                                      [] rows[k] = "COMPENSATING" -> <<"compensate">>
                                      [] OTHER -> <<>>
    BY DEF OutboxInStep
  <2>2. rows[k] = "no row"
    BY <2>1 DEF Init, LedgerInit, NoRow
  <2>3. outbox[k] = <<>>
    BY <2>1 DEF Init, LedgerInit
  <2> QED BY <2>2, <2>3
<1> QED BY <1>1, OutboxStep, Invariant, PTL DEF Spec

-----------------------------------------------------------------------------
(***************************************************************************)
(* Verdicts.  Before an action is resolved its state has no verdict, and   *)
(* only an answer that ends its request carries one.                       *)
(***************************************************************************)
VerdictOnlyWhenDone ==
  \A r \in Request : pc[r] # "done" => reply[r].verdict = "none"

VerdictInv == VerdictOnlyWhenDone /\ VerdictStands

(* A verdict already given outlives every step of the ledger.              *)
LEMMA VerdictKept ==
  ASSUME TypeInv, OwnerInv, [Next]_vars, VerdictStands, NEW r \in Request,
         key[r] \in Key, reply[r].verdict # "none"
  PROVE  reply[r].verdict = StateToVerdict(rows'[key[r]])
<1>1. reply[r].verdict = StateToVerdict(rows[key[r]])
  BY DEF VerdictStands
<1>2. rows[key[r]] \notin {NoRow, "RECEIVED", "EXECUTED"}
  BY <1>1 DEF StateToVerdict, NoRow
<1>3. rows \in [Key -> ActionState \cup {NoRow}]
  BY DEF TypeInv, TypeOK, LedgerTypeOK
<1>4. rows'[key[r]] = rows[key[r]]
  <2>1. CASE UNCHANGED ledgerVars
    BY <2>1 DEF ledgerVars
  <2>2. ASSUME NEW k \in Key, InsertAction(k) PROVE rows'[key[r]] = rows[key[r]]
    BY <1>2, <1>3, <2>2 DEF InsertAction
  <2>3. ASSUME NEW k \in Key, NEW target \in ActionState, Recorded(k, target)
        PROVE  rows'[key[r]] = rows[key[r]]
    BY <1>2, <1>3, <2>3 DEF Recorded, WriteTransition
  <2> QED BY <2>1, <2>2, <2>3, LedgerSteps
<1> QED BY <1>1, <1>4

(* An answer without a verdict, and the answers of the others, keep it.    *)
LEMMA SilentStep ==
  ASSUME TypeInv, OwnerInv, VerdictInv, [Next]_vars,
         \A q \in Request :
           \/ /\ reply'[q] = reply[q] /\ (pc'[q] = "done" <=> pc[q] = "done")
              /\ key'[q] = key[q] \/ pc[q] = "new"
           \/ reply'[q].verdict = "none"
  PROVE  VerdictInv'
<1>1. VerdictOnlyWhenDone'
  BY DEF VerdictInv, VerdictOnlyWhenDone
<1>2. VerdictStands'
  <2>1. SUFFICES ASSUME NEW q \in Request, reply'[q].verdict # "none"
                 PROVE  reply'[q].verdict = StateToVerdict(rows'[key'[q]])
    BY DEF VerdictStands
  <2>2. reply'[q] = reply[q] /\ reply[q].verdict # "none" /\ pc[q] = "done"
    BY <2>1 DEF VerdictInv, VerdictOnlyWhenDone
  <2>3. key'[q] = key[q] /\ key[q] \in Key
    BY <2>1, <2>2 DEF TypeInv, KeyKnown
  <2>4. reply[q].verdict = StateToVerdict(rows'[key[q]])
    BY <2>2, <2>3, VerdictKept DEF VerdictInv
  <2> QED BY <2>2, <2>3, <2>4
<1> QED BY <1>1, <1>2 DEF VerdictInv

(* An answer that tells the verdict of the row as it now is keeps it.      *)
LEMMA SpokenStep ==
  ASSUME TypeInv, OwnerInv, VerdictInv, [Next]_vars, NEW r \in Request,
         NEW code, NEW verdict, NEW deduplicated,
         Answer(r, code, verdict, deduplicated), key' = key,
         verdict = StateToVerdict(rows'[key[r]])
  PROVE  VerdictInv'
<1>1. /\ pc \in [Request -> Place]
      /\ reply \in [Request -> [code : {0, 200, 422, 500, 503},
                                verdict : {"VERIFIED", "FAILED", "UNKNOWN", "none"},
                                deduplicated : {"no", "yes"}]]
  BY DEF TypeInv, TypeOK
<1>2. /\ pc' = [pc EXCEPT ![r] = "done"]
      /\ reply' = [reply EXCEPT ![r] = [code |-> code, verdict |-> verdict,
                                        deduplicated |-> deduplicated]]
  BY DEF Answer, Goto
<1>3. pc'[r] = "done" /\ reply'[r].verdict = verdict
  BY <1>1, <1>2
<1>4. \A q \in Request : q # r => pc'[q] = pc[q] /\ reply'[q] = reply[q]
  BY <1>1, <1>2
<1>5. VerdictOnlyWhenDone'
  BY <1>3, <1>4 DEF VerdictInv, VerdictOnlyWhenDone
<1>6. VerdictStands'
  <2>1. SUFFICES ASSUME NEW q \in Request, reply'[q].verdict # "none"
                 PROVE  reply'[q].verdict = StateToVerdict(rows'[key[q]])
    BY DEF VerdictStands
  <2>2. CASE q = r
    BY <1>3, <2>2
  <2>3. CASE q # r
    <3>1. reply'[q] = reply[q] /\ pc[q] = "done"
      BY <1>4, <2>1, <2>3 DEF VerdictInv, VerdictOnlyWhenDone
    <3>2. key[q] \in Key
      BY <3>1 DEF TypeInv, KeyKnown
    <3> QED BY <2>1, <3>1, <3>2, VerdictKept DEF VerdictInv
  <2> QED BY <2>2, <2>3
<1> QED BY <1>5, <1>6 DEF VerdictInv

LEMMA VerdictStep == TypeInv /\ OwnerInv /\ VerdictInv /\ [Next]_vars => VerdictInv'
<1> SUFFICES ASSUME TypeInv, OwnerInv, VerdictInv, [Next]_vars PROVE VerdictInv'
  OBVIOUS
<1>0. /\ pc \in [Request -> Place] /\ key \in [Request -> Key \cup {NoKey}]
      /\ rows \in [Key -> ActionState \cup {NoRow}]
      /\ reply \in [Request -> [code : {0, 200, 422, 500, 503},
                                verdict : {"VERIFIED", "FAILED", "UNKNOWN", "none"},
                                deduplicated : {"no", "yes"}]]
      /\ KeyKnown /\ ResultFits
  BY DEF TypeInv, TypeOK, LedgerTypeOK
(* Going on without an answer. *)
<1>1. ASSUME NEW r \in Request, NEW place \in Place \ {"done"}, pc[r] # "done",
             pc' = [pc EXCEPT ![r] = place], UNCHANGED <<key, reply>>
      PROVE  VerdictInv'
  BY <1>0, <1>1, SilentStep
(* Answering without a verdict. *)
<1>2. ASSUME NEW r \in Request, NEW code, Answer(r, code, "none", "no"),
             key' = key \/ (pc[r] = "new" /\ \E k \in Key : key' = [key EXCEPT ![r] = k])
      PROVE  VerdictInv'
  <2>1. reply' = [reply EXCEPT ![r] = [code |-> code, verdict |-> "none",
                                       deduplicated |-> "no"]]
        /\ pc' = [pc EXCEPT ![r] = "done"]
    BY <1>2 DEF Answer, Goto
  <2>2. reply'[r].verdict = "none"
    BY <1>0, <2>1
  <2>3. \A q \in Request \ {r} : reply'[q] = reply[q] /\ pc'[q] = pc[q] /\ key'[q] = key[q]
    BY <1>0, <1>2, <2>1
  <2> QED BY <2>2, <2>3, SilentStep
<1>3. ASSUME NEW r \in Request, NEW k \in Key, Submit(r, k) PROVE VerdictInv'
  <2>1. pc[r] = "new" /\ key' = [key EXCEPT ![r] = k]
    BY <1>3 DEF Submit
  <2>2. CASE Goto(r, "lookup") /\ UNCHANGED reply
    <3>1. pc' = [pc EXCEPT ![r] = "lookup"]
      BY <2>2 DEF Goto
    <3> QED BY <1>0, <2>1, <2>2, <3>1, SilentStep
  <2>3. CASE Answer(r, 422, "none", "no")
    BY <1>2, <2>1, <2>3
  <2> QED BY <1>3, <2>2, <2>3 DEF Submit
<1>4. ASSUME NEW r \in Request, AnswerDeduplicated(r) PROVE VerdictInv'
  <2>1. /\ Answer(r, 200, StateToVerdict(rows[key[r]]), "yes")
        /\ rows' = rows /\ key' = key
    BY <1>4 DEF AnswerDeduplicated, ledgerVars
  <2> QED BY <2>1, SpokenStep
<1>5. ASSUME NEW r \in Request, Lookup(r) \/ Refetch(r) PROVE VerdictInv'
  <2>1. CASE pc[r] = "lookup" /\ Goto(r, "insert") /\ UNCHANGED <<key, reply>>
    BY <1>1, <2>1 DEF Goto, Place
  <2> QED BY <1>4, <1>5, <2>1 DEF Lookup, Refetch
<1>6. ASSUME NEW r \in Request, Insert(r) PROVE VerdictInv'
  <2>1. PICK place \in {"recorded", "refetch"} : pc' = [pc EXCEPT ![r] = place]
    BY <1>6 DEF Insert, Goto
  <2> QED BY <1>1, <1>6, <2>1 DEF Insert, Place
<1>7. ASSUME NEW r \in Request, RecordingFails(r) \/ TransitionFails(r) PROVE VerdictInv'
  <2>1. key' = key /\ \E code \in {500, 503} : Answer(r, code, "none", "no")
    BY <1>7 DEF RecordingFails, TransitionFails
  <2> QED BY <1>2, <2>1
<1>8. ASSUME NEW r \in Request, Execute(r) PROVE VerdictInv'
  <2>1. CASE ResolvesPath(key[r])
    BY <1>1, <1>8, <2>1 DEF Execute, Goto, Place
  <2>2. CASE ~ ResolvesPath(key[r])
    BY <1>2, <1>8, <2>2 DEF Execute
  <2> QED BY <2>1, <2>2
<1>9. ASSUME NEW r \in Request,
             Receive(r) \/ GiveUp(r) \/ VerifyRead(r) \/ ReadUnavailable(r)
      PROVE  VerdictInv'
  <2>1. PICK place \in {"classified", "judged"} : pc' = [pc EXCEPT ![r] = place]
    BY <1>9 DEF Receive, GiveUp, VerifyRead, ReadUnavailable, Goto
  <2>2. pc[r] # "done" /\ UNCHANGED <<key, reply>>
    BY <1>9 DEF Receive, GiveUp, VerifyRead, ReadUnavailable
  <2> QED BY <1>1, <2>1, <2>2 DEF Place
<1>10. ASSUME NEW r \in Request, RecordOutcome(r) \/ RecordVerdict(r) PROVE VerdictInv'
  <2>1. pc[r] \in {"classified", "judged"} /\ RecordResult(r) /\ key' = key
    BY <1>10 DEF RecordOutcome, RecordVerdict
  <2>2. CASE pc[r] = "classified" /\ outcome[r] = "definite_success"
    <3>1. Goto(r, "executed") /\ UNCHANGED reply
      BY <1>10, <2>2 DEF RecordOutcome, RecordVerdict
    <3> QED BY <1>1, <2>1, <2>2, <3>1 DEF Goto, Place
  <2>3. CASE ~ (pc[r] = "classified" /\ outcome[r] = "definite_success")
    <3>1. Answer(r, 200, Spoken(outcome[r]), "no")
      BY <1>10, <2>3 DEF RecordOutcome, RecordVerdict
    <3>2. outcome[r] \in Classification \cup Verdict /\ outcome[r] # "definite_success"
      BY <1>0, <2>1, <2>3 DEF ResultFits, Verdict
    <3>3. Spoken(outcome[r]) = StateToVerdict(Target(outcome[r]))
      BY <3>2, ResultTables
    <3>4. rows'[key[r]] = Target(outcome[r])
      BY <1>0, <2>1 DEF RecordResult, Transition, WriteTransition, KeyKnown
    <3> QED BY <2>1, <3>1, <3>3, <3>4, SpokenStep
  <2> QED BY <2>2, <2>3
<1>11. ASSUME UNCHANGED reply, key' = key,
              \A q \in Request : pc'[q] = "done" <=> pc[q] = "done"
       PROVE  VerdictInv'
  BY <1>11, SilentStep
<1>12. ASSUME NEW r \in Request, Handle(r) PROVE VerdictInv'
  BY <1>11, <1>12 DEF Handle, requestVars
<1>13. CASE Crash
  <2>1. /\ \A q \in Request : pc'[q] = IF InFlight(q) THEN "crashed" ELSE pc[q]
        /\ UNCHANGED <<key, reply>>
    BY <1>13 DEF Crash
  <2> QED BY <1>11, <2>1 DEF InFlight
<1>14. CASE StoreReset \/ UNCHANGED vars
  BY <1>11, <1>14 DEF StoreReset, requestVars, vars
<1> QED
  BY <1>3, <1>5, <1>6, <1>7, <1>8, <1>9, <1>10, <1>12, <1>13, <1>14 DEF Next, Proceed

(* VerdictsStand: no verdict an agent was given is ever contradicted by    *)
(* the ledger.                                                             *)
THEOREM VerdictsStand == Spec => []VerdictStands
<1>1. Init => VerdictInv
  BY DEF Init, VerdictInv, VerdictOnlyWhenDone, VerdictStands, NoReply
<1>2. VerdictInv => VerdictStands
  BY DEF VerdictInv
<1> QED BY <1>1, <1>2, VerdictStep, Invariant, PTL DEF Spec

-----------------------------------------------------------------------------
(***************************************************************************)
(* Refinement.  A recording is the lifecycle's Record, a send its Send, a  *)
(* recorded result its Resolve; every other step leaves its state alone.   *)
(***************************************************************************)
LEMMA SendsSteps ==
  ASSUME TypeInv, OwnerInv, [Next]_vars
  PROVE  \/ sends' = sends
         \/ /\ UNCHANGED ledgerVars
            /\ \E k \in Key : /\ rows[k] = "RECEIVED" /\ sends[k] = 0
                              /\ sends' = [sends EXCEPT ![k] = 1]
<1>1. ASSUME NEW r \in Request, Execute(r), sends' # sends
      PROVE  /\ UNCHANGED ledgerVars
             /\ \E k \in Key : /\ rows[k] = "RECEIVED" /\ sends[k] = 0
                               /\ sends' = [sends EXCEPT ![k] = 1]
  <2>1. /\ pc[r] = "recorded" /\ UNCHANGED ledgerVars
        /\ sends' = [sends EXCEPT ![key[r]] = sends[key[r]] + 1]
    BY <1>1 DEF Execute
  <2>2. key[r] \in Key
    BY <2>1 DEF TypeInv, KeyKnown
  <2>3. rows[key[r]] = "RECEIVED" /\ sends[key[r]] = 0
    BY <2>1 DEF OwnerInv, HeldStateIsCurrent, SendsFollowOwner, Owns, Owner
  <2>4. sends' = [sends EXCEPT ![key[r]] = 1]
    BY <2>1, <2>3
  <2> QED BY <2>1, <2>2, <2>3, <2>4
<1>2. ASSUME NEW r \in Request,
             \/ \E k \in Key : Submit(r, k)
             \/ Lookup(r) \/ Insert(r) \/ Refetch(r) \/ Receive(r) \/ GiveUp(r)
             \/ RecordOutcome(r) \/ VerifyRead(r) \/ RecordVerdict(r) \/ Handle(r)
             \/ RecordingFails(r) \/ ReadUnavailable(r) \/ TransitionFails(r)
      PROVE  sends' = sends
  BY <1>2 DEF Submit, Lookup, Insert, Refetch, AnswerDeduplicated, Receive, GiveUp,
              RecordOutcome, VerifyRead, RecordVerdict, Handle, RecordingFails,
              ReadUnavailable, TransitionFails
<1>3. CASE Crash \/ StoreReset \/ UNCHANGED vars
  BY <1>3 DEF Crash, StoreReset, vars
<1> QED BY <1>1, <1>2, <1>3 DEF Next, Proceed

LEMMA LifecycleStep ==
  TypeInv /\ OwnerInv /\ [Next]_vars => [Lifecycle!Next]_(Lifecycle!vars)
<1> SUFFICES ASSUME TypeInv, OwnerInv, [Next]_vars
             PROVE  [Lifecycle!Next]_(Lifecycle!vars)
  OBVIOUS
<1>1. /\ rows \in [Key -> ActionState \cup {NoRow}] /\ sends \in [Key -> Nat]
  BY DEF TypeInv, TypeOK, LedgerTypeOK
<1>2. ASSUME sends' = sends, NEW k \in Key, InsertAction(k)
      PROVE  Lifecycle!Record(k)
  BY <1>2 DEF InsertAction, Lifecycle!Record
<1>3. ASSUME sends' = sends, NEW k \in Key, NEW target \in ActionState, Recorded(k, target)
      PROVE  Lifecycle!Resolve(k, target)
  BY <1>3 DEF Recorded, WriteTransition, Lifecycle!Resolve, Lifecycle!IsLegalTransition,
              IsLegalTransition, Lifecycle!LEGAL_TRANSITIONS, LEGAL_TRANSITIONS
<1>4. ASSUME UNCHANGED ledgerVars, NEW k \in Key, rows[k] = "RECEIVED", sends[k] = 0,
             sends' = [sends EXCEPT ![k] = 1]
      PROVE  Lifecycle!Send(k)
  <2>1. \A j \in Key : sends'[j] > 0 <=> sends[j] > 0 \/ j = k
    BY <1>1, <1>4
  <2> QED BY <1>4, <2>1 DEF ledgerVars, Lifecycle!Send
<1>5. CASE sends' = sends /\ UNCHANGED ledgerVars
  BY <1>5 DEF ledgerVars, Lifecycle!vars
<1>6. sends' = sends \/ UNCHANGED ledgerVars
  BY SendsSteps
<1> QED BY <1>2, <1>3, <1>4, <1>5, LedgerSteps, SendsSteps
           DEF Lifecycle!Next, Lifecycle!ActionState, ActionState

(* Implements: the gateway, over the ledger and with every fault,          *)
(* implements the abstract lifecycle of an action.                         *)
THEOREM Implements == Spec => ImplementsLifecycle
<1>1. Init => Lifecycle!Init
  BY DEF Init, LedgerInit, Lifecycle!Init
<1> QED BY <1>1, LifecycleStep, Invariant, PTL DEF Spec, ImplementsLifecycle, Lifecycle!Spec

-----------------------------------------------------------------------------
(* AtomicSteps: an insertion is one the repository offers, and a recorded  *)
(* result is a transition from the state the row is in.                    *)
LEMMA AtomicSteps ==
  TypeInv /\ OwnerInv /\ [Next]_vars =>
    [AtomicLedgerOf!LedgerStep]_(AtomicLedgerOf!ledgerVars)
<1> SUFFICES ASSUME TypeInv, OwnerInv, [Next]_vars
             PROVE  [AtomicLedgerOf!LedgerStep]_(AtomicLedgerOf!ledgerVars)
  OBVIOUS
<1>1. ASSUME NEW k \in Key, InsertAction(k)
      PROVE  AtomicLedgerOf!InsertAction(k)
  BY <1>1 DEF InsertAction, AtomicLedgerOf!InsertAction, AtomicLedgerOf!NoRow, NoRow,
              AtomicLedgerOf!NoState, NoState
<1>2. ASSUME NEW k \in Key, NEW target \in ActionState, Recorded(k, target)
      PROVE  \E kind \in AtomicLedgerOf!OutboxKind \cup {AtomicLedgerOf!NoKind} :
               AtomicLedgerOf!TransitionNow(k, target, kind)
  <2> DEFINE kind == CASE target = "UNKNOWN" -> "reconcile"
                       [] target = "COMPENSATING" -> "compensate"
                       [] OTHER -> NoKind
  <2>1. kind \in AtomicLedgerOf!OutboxKind \cup {AtomicLedgerOf!NoKind}
    BY DEF AtomicLedgerOf!OutboxKind, AtomicLedgerOf!NoKind, NoKind
  <2>2. AtomicLedgerOf!TransitionAllowed(rows[k], rows[k], target)
    BY <1>2 DEF Recorded, AtomicLedgerOf!TransitionAllowed,
                AtomicLedgerOf!IsLegalTransition, IsLegalTransition,
                AtomicLedgerOf!LEGAL_TRANSITIONS, LEGAL_TRANSITIONS
  <2>3. AtomicLedgerOf!WriteTransition(k, rows[k], target, kind)
    BY <1>2 DEF Recorded, WriteTransition, AtomicLedgerOf!WriteTransition,
                AtomicLedgerOf!NoKind, NoKind
  <2> QED BY <2>1, <2>2, <2>3 DEF AtomicLedgerOf!TransitionNow
<1>3. CASE UNCHANGED ledgerVars
  BY <1>3 DEF ledgerVars, AtomicLedgerOf!ledgerVars
<1>4. ActionState = AtomicLedgerOf!ActionState
  BY DEF ActionState, AtomicLedgerOf!ActionState
<1> QED BY <1>1, <1>2, <1>3, <1>4, LedgerSteps DEF AtomicLedgerOf!LedgerStep

(* UsesLedgerAtomically: the gateway takes the ledger only through the     *)
(* atomic steps the repository promises it.                                *)
THEOREM UsesLedgerAtomically == Spec => LedgerIsAtomic
<1>1. Init => AtomicLedgerOf!LedgerInit
  BY DEF Init, LedgerInit, AtomicLedgerOf!LedgerInit, AtomicLedgerOf!NoRow, NoRow
<1> QED BY <1>1, AtomicSteps, Invariant, PTL
        DEF Spec, LedgerIsAtomic, AtomicLedgerOf!LedgerSpec

-----------------------------------------------------------------------------
(***************************************************************************)
(* The effects behind a verdict: what FAILED and VERIFIED in the ledger    *)
(* say of the downstream store.                                            *)
(***************************************************************************)

(***************************************************************************)
(* A call stays with the one request that owned its key.  As long as it is *)
(* on the way it has had no effect, and the row is not FAILED; a request   *)
(* that knows the failure or the success of its call, or has a verdict, is *)
(* no longer waited for by a call of its key.                              *)
(***************************************************************************)
FailureKnown(r) ==
  \/ pc[r] = "waiting" /\ wire[r] \in {"unprocessable", "not_found"}
  \/ pc[r] = "classified" /\ outcome[r] = "definite_failure"
  \/ pc[r] = "judged" /\ outcome[r] = "FAILED"

SuccessKnown(r) ==
  \/ pc[r] = "waiting" /\ wire[r] = "confirmed"
  \/ pc[r] = "classified" /\ outcome[r] = "definite_success"
  \/ pc[r] = "executed"

OneCall ==
  \A q, r \in Request :
    wire[q] # "idle" /\ wire[r] # "idle" /\ key[q] = key[r] => q = r

CallFits(r) ==
  /\ wire[r] # "idle" => pc[r] # "new" /\ sends[key[r]] > 0
  /\ wire[r] = "sent" => RefundsOf(key[r]) = {} /\ rows[key[r]] # "FAILED"
  /\ pc[r] \in {"waiting", "classified", "executed", "judged"} => wire[r] # "idle"
  /\ pc[r] = "waiting" => wire[r] # "closed"
  /\ pc[r] \in {"executed", "judged"} \/ FailureKnown(r) \/ SuccessKnown(r)
       => wire[r] # "sent"

FailureIsTrue(r) ==
  FailureKnown(r) /\ IsRefund(key[r]) => RefundsOf(key[r]) = {}

CallInv ==
  /\ StoreAccount
  /\ OneCall
  /\ \A r \in Request : CallFits(r) /\ FailureIsTrue(r)
  /\ FailedRefundHasNoEffect

(* What the classification and the verdict say of the response and of the  *)
(* body they were made from (executor.py, verifier.py).                    *)
LEMMA ReceiveOutcome ==
  ASSUME NEW w \in Response \ {"late"}, NEW k
  PROVE  LET c == Classify(StatusCode(w), w = "blank", DefiniteFailureStatuses(k)) IN
         /\ c = "definite_failure" => w \in {"unprocessable", "not_found"}
         /\ c = "definite_success" => w = "confirmed"
BY DEF Response, Classify, StatusCode, NoAnswer

LEMMA GiveUpOutcome ==
  ASSUME NEW k
  PROVE  Classify(NoAnswer, TRUE, DefiniteFailureStatuses(k)) = "ambiguous"
BY DEF Classify

LEMMA JudgeOutcome ==
  ASSUME NEW k, NEW o
  PROVE  LET verdict == Judge(k, OrderStatusCode(o), OrderBody(o)) IN
         /\ verdict = "FAILED" /\ IsRefund(k) /\ o \in Order =>
              ~ (Cardinality(OrderRefunds(o)) > 0)
         /\ verdict = "VERIFIED" =>
              /\ o \in Order
              /\ IsRefund(k) => refunded[o] > 0 /\ Cardinality(OrderRefunds(o)) = 1
              /\ IsCancel(k) => status[o] = "CANCELLED"
<1> DEFINE body == OrderBody(o)
<1>1. /\ body.count = Cardinality(OrderRefunds(o))
      /\ body.refunded = refunded[o] /\ body.status = status[o]
  BY DEF OrderBody
<1>2. CASE o \in Order
  <2>1. Judge(k, OrderStatusCode(o), OrderBody(o)) = JudgeBody(k, body)
    BY <1>2 DEF Judge, OrderStatusCode
  <2> QED BY <1>1, <1>2, <2>1
          DEF JudgeBody, Postcondition, DetectPartialEffect, IsRefund, IsCancel
<1>3. CASE o \notin Order
  BY <1>3 DEF Judge, OrderStatusCode
<1> QED BY <1>2, <1>3

LEMMA StoreFixed ==
  ASSUME UNCHANGED storeVars
  PROVE  /\ \A k : RefundsOf(k)' = RefundsOf(k)
         /\ StoreAccount => StoreAccount'
         /\ \A k : Applied(k) => Applied(k)'
         /\ \A k : Doubled(k) => Doubled(k)'
         /\ \A k : Uncredited(k) => Uncredited(k)'
         /\ \A k : CancelWritten(k) => CancelWritten(k)'
<1>1. \A k : RefundsOf(k)' = RefundsOf(k) /\ OrderRefunds(k)' = OrderRefunds(k)
  BY DEF storeVars, RefundsOf, OrderRefunds
<1> QED BY <1>1 DEF storeVars, StoreAccount, Applied, Doubled, Uncredited, CancelWritten

(* A step of one request that leaves the store alone and records no        *)
(* failure.                                                                *)
LEMMA OneMoves ==
  ASSUME TypeInv, CallInv, NEW r \in Request, UNCHANGED storeVars,
         \A q \in Request \ {r} : /\ pc'[q] = pc[q] /\ wire'[q] = wire[q]
                                  /\ outcome'[q] = outcome[q] /\ key'[q] = key[q],
         wire'[r] # "idle" => wire[r] # "idle" /\ key'[r] = key[r],
         \A k \in Key : sends[k] > 0 => sends'[k] > 0,
         \A k \in Key : rows'[k] = "FAILED" => rows[k] = "FAILED",
         CallFits(r)', FailureIsTrue(r)'
  PROVE  CallInv'
<1>1. /\ \A k : RefundsOf(k)' = RefundsOf(k)
      /\ StoreAccount'
  BY StoreFixed DEF CallInv
<1>2. OneCall'
  BY DEF CallInv, OneCall
<1>3. ASSUME NEW q \in Request \ {r} PROVE CallFits(q)' /\ FailureIsTrue(q)'
  <2>1. wire[q] # "idle" => key[q] \in Key
    BY DEF CallInv, CallFits, TypeInv, KeyKnown
  <2>2. CallFits(q) /\ FailureIsTrue(q)
    BY DEF CallInv
  <2>3. FailureKnown(q)' = FailureKnown(q) /\ SuccessKnown(q)' = SuccessKnown(q)
    BY <1>3 DEF FailureKnown, SuccessKnown
  <2>4. CallFits(q)'
    BY <1>1, <1>3, <2>1, <2>2, <2>3 DEF CallFits
  <2>5. FailureIsTrue(q)'
    BY <1>1, <1>3, <2>2, <2>3 DEF FailureIsTrue
  <2> QED BY <2>4, <2>5
<1>4. FailedRefundHasNoEffect'
  BY <1>1 DEF CallInv, FailedRefundHasNoEffect
<1> QED BY <1>1, <1>2, <1>3, <1>4 DEF CallInv

(* Recording a result: FAILED is written only when the failure is known.   *)
LEMMA ResultFailed ==
  ASSUME TypeInv, OwnerInv, NEW r \in Request, pc[r] \in {"classified", "judged"},
         RecordResult(r)
  PROVE  /\ key[r] \in Key
         /\ rows' = [rows EXCEPT ![key[r]] = Target(outcome[r])]
         /\ Target(outcome[r]) = "FAILED" => FailureKnown(r)
         /\ Target(outcome[r]) = "VERIFIED" => pc[r] = "judged" /\ outcome[r] = "VERIFIED"
<1>1. key[r] \in Key
  BY DEF TypeInv, KeyKnown
<1>2. rows' = [rows EXCEPT ![key[r]] = Target(outcome[r])]
  BY DEF RecordResult, Transition, WriteTransition
<1>3. /\ pc[r] = "classified" => outcome[r] \in Classification
      /\ pc[r] = "judged" => outcome[r] \in Verdict
  BY DEF TypeInv, ResultFits
<1> QED
  BY <1>1, <1>2, <1>3 DEF Target, FailureKnown, Classification, Verdict

LEMMA CallsRecord ==
  ASSUME TypeInv, OwnerInv, CallInv, NEW r \in Request,
         pc[r] \in {"classified", "judged"},
         RecordResult(r), UNCHANGED storeVars, UNCHANGED <<key, outcome, wire, sends>>,
         \/ pc' = [pc EXCEPT ![r] = "done"]
         \/ /\ outcome[r] = "definite_success" /\ pc[r] = "classified"
            /\ pc' = [pc EXCEPT ![r] = "executed"]
  PROVE  CallInv'
<1>1. /\ key[r] \in Key
      /\ rows' = [rows EXCEPT ![key[r]] = Target(outcome[r])]
      /\ Target(outcome[r]) = "FAILED" => FailureKnown(r)
  BY ResultFailed
<1>2. pc \in [Request -> Place] /\ rows \in [Key -> ActionState \cup {NoRow}]
  BY DEF TypeInv, TypeOK, LedgerTypeOK
<1>3. /\ \A k : RefundsOf(k)' = RefundsOf(k)
      /\ StoreAccount'
  BY StoreFixed DEF CallInv
<1>4. OneCall'
  BY DEF CallInv, OneCall
<1>5. wire[r] # "idle" /\ CallFits(r)
  BY DEF CallInv, CallFits
<1>6. pc'[r] \in {"done", "executed"} /\ \A q \in Request \ {r} : pc'[q] = pc[q]
  BY <1>2
<1>7. ASSUME NEW q \in Request, wire[q] = "sent"
      PROVE  rows'[key[q]] # "FAILED"
  <2>1. rows[key[q]] # "FAILED"
    BY <1>7 DEF CallInv, CallFits
  <2>2. CASE key[q] = key[r]
    <3>1. q = r
      BY <1>5, <1>7, <2>2 DEF CallInv, OneCall
    <3>2. ~ FailureKnown(r)
      BY <1>5, <1>7, <3>1 DEF CallFits
    <3> QED BY <1>1, <1>2, <2>2, <3>2
  <2>3. CASE key[q] # key[r]
    <3>1. rows'[key[q]] = rows[key[q]]
      <4>1. key[q] \in Key
        BY <1>7 DEF TypeInv, WireAddressed
      <4> QED BY <1>1, <1>2, <2>3, <4>1
    <3> QED BY <2>1, <3>1
  <2> QED BY <2>2, <2>3
<1>8. CallFits(r)' /\ FailureIsTrue(r)'
  <2>1. ~ FailureKnown(r)'
    BY <1>6 DEF FailureKnown
  <2>2. pc'[r] = "executed" \/ SuccessKnown(r)' => wire[r] # "sent"
    BY <1>2, <1>5, <1>6 DEF CallFits, SuccessKnown
  <2> QED BY <1>3, <1>5, <1>6, <1>7, <2>1, <2>2 DEF CallFits, FailureIsTrue
<1>9. ASSUME NEW q \in Request \ {r} PROVE CallFits(q)' /\ FailureIsTrue(q)'
  <2>1. CallFits(q) /\ FailureIsTrue(q)
    BY DEF CallInv
  <2>2. FailureKnown(q)' = FailureKnown(q) /\ SuccessKnown(q)' = SuccessKnown(q)
    BY <1>6 DEF FailureKnown, SuccessKnown
  <2> QED BY <1>3, <1>6, <1>7, <2>1, <2>2 DEF CallFits, FailureIsTrue
<1>10. FailedRefundHasNoEffect'
  <2>1. SUFFICES ASSUME NEW k \in Key, IsRefund(k), rows'[k] = "FAILED"
                 PROVE  RefundsOf(k) = {}
    BY <1>3 DEF FailedRefundHasNoEffect
  <2>2. CASE k = key[r]
    BY <1>1, <1>2, <2>1, <2>2 DEF CallInv, FailureIsTrue
  <2>3. CASE k # key[r]
    BY <1>1, <1>2, <2>1, <2>3 DEF CallInv, FailedRefundHasNoEffect
  <2> QED BY <2>2, <2>3
<1> QED BY <1>3, <1>4, <1>8, <1>9, <1>10 DEF CallInv

(* The handler of a call runs: it is the first of its key, and the owners  *)
(* of other keys see their effects unchanged.                              *)
LEMMA CallsHandle ==
  ASSUME TypeInv, OwnerInv, CallInv, NEW r \in Request, Handle(r)
  PROVE  CallInv'
<1>1. PICK profile \in Profiles, response \in Response :
        /\ Mutate(profile, key[r], response)
        /\ wire' = [wire EXCEPT ![r] = IF pc[r] = "waiting" THEN response ELSE "closed"]
  BY DEF Handle
<1>2. /\ wire[r] = "sent" /\ UNCHANGED ledgerVars
      /\ UNCHANGED <<pc, key, held, outcome, reply, sends, faults>>
  BY DEF Handle, requestVars
<1>3. key[r] \in Key /\ StoreInv
  BY <1>2 DEF TypeInv, TypeOK, WireAddressed, StoreInv
<1>4. wire \in [Request -> {"idle", "sent", "closed"} \cup Response]
  BY DEF TypeInv, TypeOK
<1>5. StoreAccount' /\ OnlyAdds(key[r])
  BY <1>1, <1>3, AccountStep, MutateOnlyAdds DEF CallInv
<1>6. \A j : j # key[r] => RefundsOf(j)' = RefundsOf(j)
  BY <1>3, <1>5, RecordsKept
<1>7. /\ wire'[r] = IF pc[r] = "waiting" THEN response ELSE "closed"
      /\ \A q \in Request \ {r} : wire'[q] = wire[q]
  BY <1>1, <1>4
<1>8. OneCall'
  BY <1>2, <1>7 DEF CallInv, OneCall
<1>9. ASSUME NEW q \in Request \ {r} PROVE CallFits(q)' /\ FailureIsTrue(q)'
  <2>1. CallFits(q) /\ FailureIsTrue(q)
    BY DEF CallInv
  <2>2. FailureKnown(q)' = FailureKnown(q) /\ SuccessKnown(q)' = SuccessKnown(q)
    BY <1>2, <1>7 DEF FailureKnown, SuccessKnown
  <2>3. wire[q] # "idle" => RefundsOf(key[q])' = RefundsOf(key[q])
    BY <1>2, <1>6 DEF CallInv, OneCall
  <2>4. FailureKnown(q) => wire[q] # "idle"
    BY <2>1 DEF CallFits, FailureKnown
  <2> QED BY <1>2, <1>7, <2>1, <2>2, <2>3, <2>4
          DEF CallFits, FailureIsTrue, ledgerVars
<1>10. CallFits(r)' /\ FailureIsTrue(r)'
  <2>1. CallFits(r)
    BY DEF CallInv
  <2>2. ~ (pc[r] \in {"executed", "judged"}) /\ ~ FailureKnown(r)
    BY <1>2, <2>1 DEF CallFits
  <2>3. wire'[r] \in Response \cup {"closed"} /\ (pc[r] = "waiting" <=> wire'[r] # "closed")
    BY <1>7 DEF Response
  <2>4. wire'[r] # "sent" /\ wire'[r] # "idle"
    BY <2>3 DEF Response
  <2>5. CallFits(r)'
    BY <1>2, <2>1, <2>3, <2>4 DEF CallFits
  <2>6. FailureIsTrue(r)'
    <3>1. SUFFICES ASSUME FailureKnown(r)', IsRefund(key[r]) PROVE RefundsOf(key[r])' = {}
      BY <1>2 DEF FailureIsTrue
    <3>2. pc[r] = "waiting" /\ response \in {"unprocessable", "not_found"}
      BY <1>2, <1>7, <2>2, <3>1 DEF FailureKnown
    <3>3. RefundsOf(key[r]) = {}
      BY <1>2, <2>1 DEF CallFits
    <3>4. PICK k \in Key : k = key[r]
      BY <1>3
    <3>5. RefundsOf(k)' = {}
      BY <1>1, <1>3, <3>1, <3>2, <3>3, <3>4, FirstCallOutcome DEF CallInv
    <3> QED BY <1>2, <3>4, <3>5
  <2> QED BY <2>5, <2>6
<1>11. FailedRefundHasNoEffect'
  <2>1. rows[key[r]] # "FAILED" /\ rows' = rows
    BY <1>2 DEF CallInv, CallFits, ledgerVars
  <2> QED BY <1>6, <2>1 DEF CallInv, FailedRefundHasNoEffect
<1> QED BY <1>5, <1>8, <1>9, <1>10, <1>11 DEF CallInv

LEMMA CallsInit == Init => CallInv
<1> SUFFICES ASSUME Init PROVE CallInv
  OBVIOUS
<1>1. \A k : RefundsOf(k) = {}
  BY DEF Init, StoreInit, RefundsOf
<1> QED
  BY <1>1 DEF Init, StoreInit, CallInv, StoreAccount, OneCall, CallFits, FailureKnown,
              SuccessKnown, FailureIsTrue, FailedRefundHasNoEffect

LEMMA CallsStep == TypeInv /\ OwnerInv /\ CallInv /\ [Next]_vars => CallInv'
<1> SUFFICES ASSUME TypeInv, OwnerInv, CallInv, [Next]_vars PROVE CallInv'
  OBVIOUS
<1>0. /\ pc \in [Request -> Place] /\ key \in [Request -> Key \cup {NoKey}]
      /\ outcome \in [Request -> Classification \cup Verdict \cup {"none"}]
      /\ wire \in [Request -> {"idle", "sent", "closed"} \cup Response]
      /\ rows \in [Key -> ActionState \cup {NoRow}] /\ sends \in [Key -> Nat]
      /\ KeyKnown /\ \A r \in Request : CallFits(r) /\ FailureIsTrue(r)
  BY DEF TypeInv, TypeOK, LedgerTypeOK, CallInv
(* Going to a place where no call is waited for and no result is held. *)
<1>1. ASSUME NEW r \in Request, UNCHANGED storeVars,
             NEW place \in {"lookup", "insert", "refetch", "recorded", "done", "crashed"},
             pc' = [pc EXCEPT ![r] = place], UNCHANGED <<outcome, wire, sends>>,
             key' = key \/ (pc[r] = "new" /\ \E k \in Key : key' = [key EXCEPT ![r] = k]),
             \A k \in Key : rows'[k] = "FAILED" => rows[k] = "FAILED"
      PROVE  CallInv'
  <2>1. pc'[r] = place /\ \A q \in Request \ {r} : pc'[q] = pc[q] /\ key'[q] = key[q]
    BY <1>0, <1>1
  <2>2. wire[r] # "idle" => key' = key /\ key[r] \in Key
    BY <1>0, <1>1 DEF CallFits, KeyKnown
  <2>3. ~ FailureKnown(r)' /\ ~ SuccessKnown(r)'
    BY <2>1 DEF FailureKnown, SuccessKnown
  <2>4. CallFits(r)' /\ FailureIsTrue(r)'
    BY <1>0, <1>1, <2>1, <2>2, <2>3, StoreFixed DEF CallFits, FailureIsTrue
  <2> QED BY <1>1, <2>1, <2>2, <2>4, OneMoves
<1>2. ASSUME NEW r \in Request, NEW k \in Key, Submit(r, k) PROVE CallInv'
  <2>1. PICK place \in {"lookup", "done"} : pc' = [pc EXCEPT ![r] = place]
    BY <1>2 DEF Submit, Answer, Goto
  <2>2. /\ pc[r] = "new" /\ key' = [key EXCEPT ![r] = k] /\ UNCHANGED storeVars
        /\ UNCHANGED <<outcome, wire, sends>> /\ rows' = rows
    BY <1>2 DEF Submit, ledgerVars
  <2> QED BY <1>1, <2>1, <2>2
<1>3. ASSUME NEW r \in Request, Lookup(r) \/ Refetch(r) PROVE CallInv'
  <2>1. PICK place \in {"insert", "done"} : pc' = [pc EXCEPT ![r] = place]
    BY <1>3 DEF Lookup, Refetch, AnswerDeduplicated, Answer, Goto
  <2>2. /\ key' = key /\ UNCHANGED storeVars
        /\ UNCHANGED <<outcome, wire, sends>> /\ rows' = rows
    BY <1>3 DEF Lookup, Refetch, AnswerDeduplicated, ledgerVars
  <2> QED BY <1>1, <2>1, <2>2
<1>4. ASSUME NEW r \in Request, Insert(r) \/ RecordingFails(r) PROVE CallInv'
  <2>1. PICK place \in {"recorded", "refetch", "done"} : pc' = [pc EXCEPT ![r] = place]
    BY <1>4 DEF Insert, RecordingFails, Answer, Goto
  <2>2. /\ key' = key /\ UNCHANGED storeVars /\ UNCHANGED <<outcome, wire, sends>>
    BY <1>4 DEF Insert, RecordingFails
  <2>3. UNCHANGED ledgerVars \/ InsertAction(key[r])
    BY <1>4 DEF Insert, RecordingFails
  <2>4. \A k \in Key : rows'[k] = "FAILED" => rows[k] = "FAILED"
    BY <1>0, <2>3 DEF ledgerVars, InsertAction
  <2> QED BY <1>1, <2>1, <2>2, <2>4
<1>5. ASSUME NEW r \in Request, Execute(r) PROVE CallInv'
  <2>1. CASE ResolvesPath(key[r])
    <3>1. /\ wire' = [wire EXCEPT ![r] = "sent"]
          /\ sends' = [sends EXCEPT ![key[r]] = @ + 1]
          /\ pc' = [pc EXCEPT ![r] = "waiting"]
          /\ UNCHANGED storeVars /\ UNCHANGED <<key, outcome>> /\ rows' = rows
      BY <1>5, <2>1 DEF Execute, Goto, ledgerVars
    <3>2. pc[r] = "recorded" /\ key[r] \in Key
      BY <1>0, <1>5 DEF Execute, KeyKnown
    <3>3. sends[key[r]] = 0 /\ rows[key[r]] = "RECEIVED"
      BY <3>2 DEF OwnerInv, SendsFollowOwner, HeldStateIsCurrent, Owns, Owner
    <3>4. \A q \in Request : wire[q] # "idle" => key[q] # key[r]
      BY <1>0, <3>3 DEF CallFits
    <3>5. /\ pc'[r] = "waiting" /\ wire'[r] = "sent"
          /\ \A q \in Request \ {r} : pc'[q] = pc[q] /\ wire'[q] = wire[q]
      BY <1>0, <3>1
    <3>6. RefundsOf(key[r]) = {}
      BY <3>2, <3>3 DEF OwnerInv, SendsCover, HasEffect
    <3>7. /\ StoreAccount' /\ \A k : RefundsOf(k)' = RefundsOf(k)
      BY <3>1, StoreFixed DEF CallInv
    <3>8. sends'[key[r]] > 0 /\ \A k \in Key : sends[k] > 0 => sends'[k] > 0
      BY <1>0, <3>1, <3>2, <3>3
    <3>9. OneCall'
      BY <3>1, <3>4, <3>5 DEF CallInv, OneCall
    <3>10. CallFits(r)' /\ FailureIsTrue(r)'
      <4>1. ~ FailureKnown(r)' /\ ~ SuccessKnown(r)'
        BY <3>5 DEF FailureKnown, SuccessKnown
      <4>2. RefundsOf(key[r])' = {}
        BY <3>1, <3>6, <3>7
      <4> QED BY <3>1, <3>3, <3>5, <3>8, <4>1, <4>2 DEF CallFits, FailureIsTrue
    <3>11. ASSUME NEW q \in Request \ {r} PROVE CallFits(q)' /\ FailureIsTrue(q)'
      <4>1. FailureKnown(q)' = FailureKnown(q) /\ SuccessKnown(q)' = SuccessKnown(q)
        BY <3>1, <3>5 DEF FailureKnown, SuccessKnown
      <4>2. wire[q] # "idle" => key[q] \in Key
        BY <1>0 DEF CallFits, KeyKnown
      <4>3. CallFits(q)'
        BY <1>0, <3>1, <3>5, <3>7, <3>8, <4>1, <4>2 DEF CallFits
      <4> QED BY <1>0, <3>1, <3>7, <4>1, <4>3 DEF FailureIsTrue
    <3>12. FailedRefundHasNoEffect'
      BY <3>1, <3>7 DEF CallInv, FailedRefundHasNoEffect
    <3> QED BY <3>7, <3>9, <3>10, <3>11, <3>12 DEF CallInv
  <2>2. CASE ~ ResolvesPath(key[r])
    <3>1. /\ pc' = [pc EXCEPT ![r] = "done"] /\ key' = key /\ UNCHANGED storeVars
          /\ UNCHANGED <<outcome, wire, sends>> /\ rows' = rows
      BY <1>5, <2>2 DEF Execute, Answer, Goto, ledgerVars
    <3> QED BY <1>1, <3>1
  <2> QED BY <2>1, <2>2
<1>6. ASSUME NEW r \in Request, Handle(r) PROVE CallInv'
  BY <1>6, CallsHandle
(* A result is obtained. *)
<1>7. ASSUME NEW r \in Request, UNCHANGED <<ledgerVars, storeVars>>, UNCHANGED <<key, sends>>,
             NEW place \in {"classified", "judged"}, pc' = [pc EXCEPT ![r] = place],
             NEW result, outcome' = [outcome EXCEPT ![r] = result],
             wire' = wire \/ (wire[r] # "idle" /\ wire' = [wire EXCEPT ![r] = "closed"]),
             wire[r] # "idle" /\ pc[r] # "new",
             place = "judged" \/ result \in {"definite_failure", "definite_success"}
               => wire'[r] # "sent",
             result = (IF place = "judged" THEN "FAILED" ELSE "definite_failure")
               => (IsRefund(key[r]) => RefundsOf(key[r]) = {})
      PROVE  CallInv'
  <2>1. /\ pc'[r] = place /\ outcome'[r] = result
        /\ \A q \in Request \ {r} : /\ pc'[q] = pc[q] /\ outcome'[q] = outcome[q]
                                    /\ wire'[q] = wire[q] /\ key'[q] = key[q]
    BY <1>0, <1>7
  <2>2. wire'[r] \in {wire[r], "closed"} /\ wire'[r] # "idle"
    BY <1>0, <1>7
  <2>3. rows' = rows /\ \A k : RefundsOf(k)' = RefundsOf(k)
    BY <1>7, StoreFixed DEF ledgerVars
  <2>4. CallFits(r)'
    BY <1>0, <1>7, <2>1, <2>2, <2>3 DEF CallFits, FailureKnown, SuccessKnown
  <2>5. FailureIsTrue(r)'
    <3>1. RefundsOf(key[r])' = RefundsOf(key[r]) /\ key' = key
      BY <1>7, <2>3
    <3>2. FailureKnown(r)' => (IsRefund(key[r]) => RefundsOf(key[r]) = {})
      BY <1>7, <2>1 DEF FailureKnown
    <3> QED BY <3>1, <3>2 DEF FailureIsTrue, IsRefund
  <2>6. UNCHANGED storeVars
    BY <1>7
  <2> QED BY <1>7, <2>1, <2>2, <2>3, <2>4, <2>5, <2>6, OneMoves
<1>8. ASSUME NEW r \in Request, Receive(r) PROVE CallInv'
  <2> DEFINE result == Classify(StatusCode(wire[r]), wire[r] = "blank",
                                DefiniteFailureStatuses(key[r]))
  <2>1. /\ pc[r] = "waiting" /\ wire[r] \in Response \ {"late"}
        /\ UNCHANGED <<ledgerVars, storeVars>> /\ UNCHANGED <<key, sends>>
        /\ outcome' = [outcome EXCEPT ![r] = result]
        /\ wire' = [wire EXCEPT ![r] = "closed"]
        /\ pc' = [pc EXCEPT ![r] = "classified"]
    BY <1>8 DEF Receive, Goto
  <2>2. result = "definite_failure" => wire[r] \in {"unprocessable", "not_found"}
    BY <2>1, ReceiveOutcome
  <2>3. result = "definite_failure" => (IsRefund(key[r]) => RefundsOf(key[r]) = {})
    BY <1>0, <2>1, <2>2 DEF FailureIsTrue, FailureKnown
  <2>4. wire'[r] = "closed" /\ wire[r] # "idle"
    BY <1>0, <2>1 DEF Response
  <2> HIDE DEF result
  <2> QED BY <1>7, <2>1, <2>3, <2>4
<1>9. ASSUME NEW r \in Request, GiveUp(r) PROVE CallInv'
  <2>1. /\ pc[r] = "waiting" /\ UNCHANGED <<ledgerVars, storeVars>>
        /\ UNCHANGED <<key, sends>>
        /\ outcome' = [outcome EXCEPT ![r] = "ambiguous"]
        /\ wire' = [wire EXCEPT ![r] = IF @ = "sent" THEN @ ELSE "closed"]
        /\ pc' = [pc EXCEPT ![r] = "classified"]
    BY <1>9, GiveUpOutcome DEF GiveUp, Goto
  <2>2. wire[r] # "idle"
    BY <1>0, <2>1 DEF CallFits
  <2>3. wire' = wire \/ wire' = [wire EXCEPT ![r] = "closed"]
    BY <1>0, <2>1
  <2> QED BY <1>7, <2>1, <2>2, <2>3
<1>10. ASSUME NEW r \in Request, RecordOutcome(r) \/ RecordVerdict(r) \/ TransitionFails(r)
       PROVE  CallInv'
  <2>1. /\ pc[r] \in {"classified", "judged"} /\ UNCHANGED storeVars
        /\ UNCHANGED <<key, outcome, wire, sends>>
        /\ \/ pc' = [pc EXCEPT ![r] = "done"]
           \/ /\ outcome[r] = "definite_success" /\ pc[r] = "classified"
              /\ pc' = [pc EXCEPT ![r] = "executed"] /\ RecordResult(r)
        /\ RecordResult(r) \/ UNCHANGED ledgerVars
    BY <1>10 DEF RecordOutcome, RecordVerdict, TransitionFails, Answer, Goto
  <2>2. CASE RecordResult(r)
    BY <2>1, <2>2, CallsRecord
  <2>3. CASE UNCHANGED ledgerVars /\ pc' = [pc EXCEPT ![r] = "done"]
    BY <1>1, <2>1, <2>3 DEF ledgerVars
  <2> QED BY <2>1, <2>2, <2>3
<1>11. ASSUME NEW r \in Request, VerifyRead(r) PROVE CallInv'
  <2> DEFINE result == Judge(key[r], OrderStatusCode(OrderOf[key[r]]),
                             OrderBody(OrderOf[key[r]]))
  <2>1. /\ pc[r] = "executed" /\ UNCHANGED <<ledgerVars, storeVars>>
        /\ UNCHANGED <<key, wire, sends>>
        /\ outcome' = [outcome EXCEPT ![r] = result]
        /\ pc' = [pc EXCEPT ![r] = "judged"]
    BY <1>11 DEF VerifyRead, Goto
  <2>2. result = "FAILED" => (IsRefund(key[r]) => RefundsOf(key[r]) = {})
    <3>1. SUFFICES ASSUME result = "FAILED", IsRefund(key[r]), RefundsOf(key[r]) # {}
                   PROVE  FALSE
      OBVIOUS
    <3>2. key[r] \in Key /\ OrderOf[key[r]] \in Order
      BY <1>0, <2>1, <3>1 DEF KeyKnown, CallInv, StoreAccount
    <3>3. ~ (Cardinality(OrderRefunds(OrderOf[key[r]])) > 0)
      BY <3>1, <3>2, JudgeOutcome
    <3>4. IsFiniteSet(OrderRefunds(OrderOf[key[r]]))
      BY FS_Subset DEF OrderRefunds, TypeInv
    <3>5. OrderRefunds(OrderOf[key[r]]) = {}
      BY <3>3, <3>4, FS_CardinalityType, FS_EmptySet
    <3>6. RefundsOf(key[r]) \subseteq OrderRefunds(OrderOf[key[r]])
      BY DEF RefundsOf, OrderRefunds
    <3> QED BY <3>1, <3>5, <3>6
  <2>3. wire[r] # "idle" /\ wire[r] # "sent"
    BY <1>0, <2>1 DEF CallFits
  <2> HIDE DEF result
  <2> QED BY <1>7, <2>1, <2>2, <2>3
<1>12. ASSUME NEW r \in Request, ReadUnavailable(r) PROVE CallInv'
  <2>1. /\ pc[r] = "executed" /\ UNCHANGED <<ledgerVars, storeVars>>
        /\ UNCHANGED <<key, wire, sends>>
        /\ outcome' = [outcome EXCEPT ![r] = "UNKNOWN"]
        /\ pc' = [pc EXCEPT ![r] = "judged"]
    BY <1>12 DEF ReadUnavailable, Goto
  <2>2. wire[r] # "idle" /\ wire[r] # "sent"
    BY <1>0, <2>1 DEF CallFits
  <2> QED BY <1>7, <2>1, <2>2
<1>13. CASE Crash
  <2>1. /\ \A q \in Request : pc'[q] = IF InFlight(q) THEN "crashed" ELSE pc[q]
        /\ UNCHANGED ledgerVars /\ UNCHANGED storeVars
        /\ UNCHANGED <<key, outcome, wire, sends>>
    BY <1>13 DEF Crash
  <2>2. StoreAccount' /\ \A k : RefundsOf(k)' = RefundsOf(k)
    BY <2>1, StoreFixed DEF CallInv
  <2>3. \A q \in Request : pc'[q] \in {"new", "done", "crashed"} /\ (pc'[q] = "new" <=> pc[q] = "new")
    BY <1>0, <2>1 DEF InFlight
  <2>4. \A q \in Request : CallFits(q)' /\ FailureIsTrue(q)'
    BY <1>0, <2>1, <2>2, <2>3 DEF CallFits, FailureIsTrue, FailureKnown, SuccessKnown, ledgerVars
  <2>5. OneCall' /\ FailedRefundHasNoEffect'
    BY <2>1, <2>2 DEF CallInv, OneCall, FailedRefundHasNoEffect, ledgerVars
  <2> QED BY <2>2, <2>4, <2>5 DEF CallInv
<1>14. CASE StoreReset
  <2>1. Reset /\ UNCHANGED ledgerVars /\ UNCHANGED <<pc, key, outcome, wire, sends>>
    BY <1>14 DEF StoreReset, requestVars
  <2>2. \A k : RefundsOf(k)' = {}
    BY <2>1 DEF Reset, RefundsOf
  <2>3. StoreAccount'
    BY <2>1, <2>2 DEF Reset, StoreAccount
  <2>4. \A q \in Request : CallFits(q)' /\ FailureIsTrue(q)'
    BY <1>0, <2>1, <2>2 DEF CallFits, FailureIsTrue, FailureKnown, SuccessKnown, ledgerVars
  <2>5. OneCall' /\ FailedRefundHasNoEffect'
    BY <2>1, <2>2 DEF CallInv, OneCall, FailedRefundHasNoEffect
  <2> QED BY <2>3, <2>4, <2>5 DEF CallInv
<1>15. CASE UNCHANGED vars
  <2>1. /\ UNCHANGED storeVars /\ rows' = rows
        /\ UNCHANGED <<pc, key, outcome, wire, sends>>
    BY <1>15 DEF vars, storeVars
  <2>2. StoreAccount' /\ \A k : RefundsOf(k)' = RefundsOf(k)
    BY <2>1, StoreFixed DEF CallInv
  <2>3. \A q \in Request : CallFits(q)' /\ FailureIsTrue(q)'
    BY <1>0, <2>1, <2>2 DEF CallFits, FailureIsTrue, FailureKnown, SuccessKnown
  <2>4. OneCall' /\ FailedRefundHasNoEffect'
    BY <2>1, <2>2 DEF CallInv, OneCall, FailedRefundHasNoEffect
  <2> QED BY <2>2, <2>3, <2>4 DEF CallInv
<1> QED
  BY <1>2, <1>3, <1>4, <1>5, <1>6, <1>8, <1>9, <1>10, <1>11, <1>12, <1>13, <1>14, <1>15
     DEF Next, Proceed

(* FailedHasNoEffect: a refund recorded as FAILED, whatever answer or read *)
(* it was taken from, has no record downstream and never will: no call of  *)
(* it is on the way any more, also through crashes and resets.             *)
THEOREM FailedHasNoEffect == Spec => []FailedRefundHasNoEffect
<1>1. CallInv => FailedRefundHasNoEffect
  BY DEF CallInv
<1> QED BY <1>1, CallsInit, CallsStep, Invariant, PTL DEF Spec

-----------------------------------------------------------------------------
(***************************************************************************)
(* Success.  Until the downstream store is first reset, a refund whose     *)
(* call succeeded has been applied, was recorded twice, or was recorded    *)
(* without a credit; the read tells the first from the others, because the *)
(* records of an intent are among those of its order.                      *)
(***************************************************************************)
SuccessIsWritten(r) ==
  SuccessKnown(r) /\ IsRefund(key[r]) =>
    /\ OrderOf[key[r]] \in Order
    /\ Applied(key[r]) \/ Doubled(key[r]) \/ Uncredited(key[r])

VerdictIsTrue(r) ==
  pc[r] = "judged" /\ outcome[r] = "VERIFIED" =>
    /\ IsRefund(key[r]) => Applied(key[r])
    /\ IsCancel(key[r]) => CancelWritten(key[r])

SuccessInv ==
  /\ \A r \in Request : SuccessIsWritten(r) /\ VerdictIsTrue(r)
  /\ VerifiedRefundIsExact
  /\ VerifiedCancelHappened

NeverReset == faults["reset"] = 0

(* A refund that was confirmed and that the read finds credited, with one  *)
(* record of its order, was applied.                                       *)
LEMMA ReadTellsApplied ==
  ASSUME NEW k \in Key, IsFiniteSet(refunds),
         Applied(k) \/ Doubled(k) \/ Uncredited(k),
         Cardinality(OrderRefunds(OrderOf[k])) = 1, refunded[OrderOf[k]] # 0
  PROVE  Applied(k)
<1>1. IsFiniteSet(OrderRefunds(OrderOf[k])) /\ RefundsOf(k) \subseteq OrderRefunds(OrderOf[k])
  BY FS_Subset DEF RefundsOf, OrderRefunds
<1>2. /\ Cardinality(RefundsOf(k)) <= Cardinality(OrderRefunds(OrderOf[k]))
      /\ Cardinality(RefundsOf(k)) = Cardinality(OrderRefunds(OrderOf[k])) =>
           RefundsOf(k) = OrderRefunds(OrderOf[k])
  BY <1>1, FS_Subset
<1>3. ~ Doubled(k)
  BY <1>2 DEF Doubled
<1>4. ~ Uncredited(k)
  BY <1>2 DEF Uncredited
<1> QED BY <1>3, <1>4

(* Rows that are VERIFIED keep what is behind them as long as the store    *)
(* only adds effects.                                                      *)
LEMMA SuccessMoves ==
  ASSUME SuccessInv, NEW r \in Request, UNCHANGED storeVars,
         \A q \in Request \ {r} :
           pc'[q] = pc[q] /\ wire'[q] = wire[q] /\ outcome'[q] = outcome[q] /\ key'[q] = key[q],
         \A k \in Key : rows'[k] = "VERIFIED" =>
           \/ rows[k] = "VERIFIED"
           \/ (IsRefund(k) => Applied(k)) /\ (IsCancel(k) => CancelWritten(k)),
         SuccessIsWritten(r)', VerdictIsTrue(r)'
  PROVE  SuccessInv'
<1>1. /\ \A k : Applied(k) => Applied(k)'
      /\ \A k : Doubled(k) => Doubled(k)'
      /\ \A k : Uncredited(k) => Uncredited(k)'
      /\ \A k : CancelWritten(k) => CancelWritten(k)'
  BY StoreFixed
<1>2. ASSUME NEW q \in Request \ {r} PROVE SuccessIsWritten(q)' /\ VerdictIsTrue(q)'
  <2>1. PICK k : k = key[q]
    OBVIOUS
  <2>2. k = key'[q] /\ SuccessKnown(q)' = SuccessKnown(q)
    BY <1>2, <2>1 DEF SuccessKnown
  <2>3. SuccessIsWritten(q) /\ VerdictIsTrue(q)
    BY DEF SuccessInv
  <2>4. SuccessIsWritten(q)'
    <3>1. SuccessKnown(q) /\ IsRefund(k) =>
            OrderOf[k] \in Order /\ (Applied(k)' \/ Doubled(k)' \/ Uncredited(k)')
      BY <1>1, <2>1, <2>3 DEF SuccessIsWritten
    <3>2. /\ Applied(k)' => Applied(key[q])'
          /\ Doubled(k)' => Doubled(key[q])'
          /\ Uncredited(k)' => Uncredited(key[q])'
      BY <2>2 DEF Applied, Doubled, Uncredited, RefundsOf, OrderRefunds
    <3> QED BY <2>2, <3>1, <3>2 DEF SuccessIsWritten, IsRefund
  <2>5. VerdictIsTrue(q)'
    <3>1. pc[q] = "judged" /\ outcome[q] = "VERIFIED" =>
            (IsRefund(k) => Applied(k)') /\ (IsCancel(k) => CancelWritten(k)')
      BY <1>1, <2>1, <2>3 DEF VerdictIsTrue
    <3>2. (Applied(k)' => Applied(key[q])') /\ (CancelWritten(k)' => CancelWritten(key[q])')
      BY <2>2 DEF Applied, CancelWritten, RefundsOf
    <3> QED BY <1>2, <2>2, <3>1, <3>2 DEF VerdictIsTrue, IsRefund, IsCancel
  <2> QED BY <2>4, <2>5
<1>3. VerifiedRefundIsExact'
  <2>1. SUFFICES ASSUME NEW k \in Key, IsRefund(k), rows'[k] = "VERIFIED"
                 PROVE  Applied(k)'
    BY DEF VerifiedRefundIsExact, Applied
  <2>2. Applied(k)
    BY <2>1 DEF SuccessInv, VerifiedRefundIsExact, Applied
  <2> QED BY <1>1, <2>2
<1>4. VerifiedCancelHappened'
  <2>1. SUFFICES ASSUME NEW k \in Key, IsCancel(k), rows'[k] = "VERIFIED"
                 PROVE  CancelWritten(k)'
    BY DEF VerifiedCancelHappened, CancelWritten
  <2>2. CancelWritten(k)
    BY <2>1 DEF SuccessInv, VerifiedCancelHappened, CancelWritten
  <2> QED BY <1>1, <2>2
<1> QED BY <1>2, <1>3, <1>4 DEF SuccessInv

LEMMA SuccessHandle ==
  ASSUME TypeInv, CallInv, SuccessInv, NEW r \in Request, Handle(r)
  PROVE  SuccessInv'
<1>1. PICK profile \in Profiles, response \in Response :
        /\ Mutate(profile, key[r], response)
        /\ wire' = [wire EXCEPT ![r] = IF pc[r] = "waiting" THEN response ELSE "closed"]
  BY DEF Handle
<1>2. /\ wire[r] = "sent" /\ rows' = rows
      /\ UNCHANGED <<pc, key, outcome>>
  BY DEF Handle, requestVars, ledgerVars
<1>3. key[r] \in Key /\ StoreInv /\ KeyKnown
  BY <1>2 DEF TypeInv, TypeOK, WireAddressed, StoreInv
<1>4. /\ wire'[r] = IF pc[r] = "waiting" THEN response ELSE "closed"
      /\ \A q \in Request \ {r} : wire'[q] = wire[q]
  BY <1>1 DEF TypeInv, TypeOK
<1>5. PICK j \in Key : j = key[r]
  BY <1>3
<1>6. OnlyAdds(j)
  BY <1>1, <1>3, <1>5, MutateOnlyAdds DEF CallInv
<1>7. \A k \in Key :
        /\ Applied(k) => Applied(k)'
        /\ CancelWritten(k) => CancelWritten(k)'
        /\ j # k /\ Doubled(k) => Doubled(k)'
        /\ j # k /\ OrderOf[k] \in Order /\ Uncredited(k) => Uncredited(k)'
  BY <1>3, <1>6, WrittenStays
<1>8. \A q \in Request : CallFits(q)
  BY DEF CallInv
<1>9. \A q \in Request : VerdictIsTrue(q)'
  <2>1. SUFFICES ASSUME NEW q \in Request, pc[q] = "judged", outcome[q] = "VERIFIED"
                 PROVE  /\ IsRefund(key[q]) => Applied(key[q])'
                        /\ IsCancel(key[q]) => CancelWritten(key[q])'
    BY <1>2 DEF VerdictIsTrue, IsRefund, IsCancel
  <2>2. PICK k \in Key : k = key[q]
    BY <1>3, <2>1 DEF KeyKnown
  <2>3. (IsRefund(k) => Applied(k)') /\ (IsCancel(k) => CancelWritten(k)')
    BY <1>7, <2>1, <2>2 DEF SuccessInv, VerdictIsTrue
  <2>4. k = key'[q]
    BY <1>2, <2>2
  <2>5. (Applied(k)' => Applied(key[q])') /\ (CancelWritten(k)' => CancelWritten(key[q])')
    BY <2>4 DEF Applied, CancelWritten, RefundsOf
  <2> QED BY <2>2, <2>3, <2>5
<1>10. \A q \in Request : SuccessIsWritten(q)'
  <2>1. SUFFICES ASSUME NEW q \in Request, SuccessKnown(q)', IsRefund(key[q])
                 PROVE  /\ OrderOf[key[q]] \in Order
                        /\ Applied(key[q])' \/ Doubled(key[q])' \/ Uncredited(key[q])'
    BY <1>2 DEF SuccessIsWritten, IsRefund
  <2>2. PICK k \in Key : k = key[q]
    BY <1>2, <1>3, <2>1 DEF KeyKnown, SuccessKnown
  <2>3. OrderOf[k] \in Order /\ (Applied(k)' \/ Doubled(k)' \/ Uncredited(k)')
    <3>1. CASE q = r
      <4>1. pc[r] = "waiting" /\ response = "confirmed" /\ RefundsOf(j) = {} /\ k = j
        BY <1>2, <1>4, <1>5, <1>8, <2>1, <2>2, <3>1 DEF SuccessKnown, CallFits
      <4> QED BY <1>1, <1>3, <1>5, <2>1, <2>2, <4>1, FirstCallOutcome DEF CallInv
    <3>2. CASE q # r
      <4>1. SuccessKnown(q) /\ wire[q] # "idle"
        BY <1>2, <1>4, <1>8, <2>1, <3>2 DEF SuccessKnown, CallFits
      <4>2. k # j
        BY <1>2, <1>5, <2>2, <3>2, <4>1 DEF CallInv, OneCall
      <4>3. OrderOf[k] \in Order /\ (Applied(k) \/ Doubled(k) \/ Uncredited(k))
        BY <2>1, <2>2, <4>1 DEF SuccessInv, SuccessIsWritten
      <4> QED BY <1>7, <4>2, <4>3
    <3> QED BY <3>1, <3>2
  <2>4. k = key'[q]
    BY <1>2, <2>2
  <2>5. /\ Applied(k)' => Applied(key[q])'
        /\ Doubled(k)' => Doubled(key[q])'
        /\ Uncredited(k)' => Uncredited(key[q])'
    BY <2>4 DEF Applied, Doubled, Uncredited, RefundsOf, OrderRefunds
  <2> QED BY <2>2, <2>3, <2>5
<1>11. VerifiedRefundIsExact' /\ VerifiedCancelHappened'
  <2>1. \A k \in Key : rows[k] = "VERIFIED" =>
          (IsRefund(k) => Applied(k)') /\ (IsCancel(k) => CancelWritten(k)')
    BY <1>7 DEF SuccessInv, VerifiedRefundIsExact, VerifiedCancelHappened, Applied, CancelWritten
  <2> QED BY <1>2, <2>1 DEF VerifiedRefundIsExact, VerifiedCancelHappened, Applied, CancelWritten
<1> QED BY <1>9, <1>10, <1>11 DEF SuccessInv

LEMMA SuccessStep ==
  TypeInv /\ OwnerInv /\ CallInv /\ SuccessInv /\ [Next]_vars /\ ~ StoreReset => SuccessInv'
<1> SUFFICES ASSUME TypeInv, OwnerInv, CallInv, SuccessInv, [Next]_vars, ~ StoreReset
             PROVE  SuccessInv'
  OBVIOUS
<1>0. /\ pc \in [Request -> Place] /\ key \in [Request -> Key \cup {NoKey}]
      /\ outcome \in [Request -> Classification \cup Verdict \cup {"none"}]
      /\ wire \in [Request -> {"idle", "sent", "closed"} \cup Response]
      /\ rows \in [Key -> ActionState \cup {NoRow}]
      /\ KeyKnown /\ IsFiniteSet(refunds)
      /\ \A r \in Request : CallFits(r) /\ SuccessIsWritten(r) /\ VerdictIsTrue(r)
  BY DEF TypeInv, TypeOK, LedgerTypeOK, CallInv, SuccessInv
(* Going to a place where no success and no verdict is known. *)
<1>1. ASSUME NEW r \in Request, UNCHANGED storeVars,
             ~ SuccessKnown(r)', pc'[r] # "judged",
             \A q \in Request \ {r} : /\ pc'[q] = pc[q] /\ wire'[q] = wire[q]
                                      /\ outcome'[q] = outcome[q] /\ key'[q] = key[q],
             \A k \in Key : rows'[k] = "VERIFIED" =>
               \/ rows[k] = "VERIFIED"
               \/ (IsRefund(k) => Applied(k)) /\ (IsCancel(k) => CancelWritten(k))
      PROVE  SuccessInv'
  <2>1. SuccessIsWritten(r)' /\ VerdictIsTrue(r)'
    BY <1>1 DEF SuccessIsWritten, VerdictIsTrue
  <2> QED BY <1>1, <2>1, SuccessMoves
(* An answer, or a place before the call is sent. *)
<1>2. ASSUME NEW r \in Request, UNCHANGED storeVars,
             NEW place \in {"lookup", "insert", "refetch", "recorded", "done"},
             pc' = [pc EXCEPT ![r] = place], UNCHANGED <<outcome, wire>>,
             key' = key \/ \E k \in Key : key' = [key EXCEPT ![r] = k],
             \A k \in Key : rows'[k] = "VERIFIED" =>
               \/ rows[k] = "VERIFIED"
               \/ (IsRefund(k) => Applied(k)) /\ (IsCancel(k) => CancelWritten(k))
      PROVE  SuccessInv'
  <2>1. pc'[r] = place /\ \A q \in Request \ {r} : pc'[q] = pc[q] /\ key'[q] = key[q]
    BY <1>0, <1>2
  <2>2. ~ SuccessKnown(r)' /\ pc'[r] # "judged"
    BY <2>1 DEF SuccessKnown
  <2> QED BY <1>1, <1>2, <2>1, <2>2
<1>3. ASSUME NEW r \in Request, NEW k \in Key, Submit(r, k) PROVE SuccessInv'
  <2>1. PICK place \in {"lookup", "done"} : pc' = [pc EXCEPT ![r] = place]
    BY <1>3 DEF Submit, Answer, Goto
  <2>2. /\ key' = [key EXCEPT ![r] = k] /\ UNCHANGED storeVars
        /\ UNCHANGED <<outcome, wire>> /\ rows' = rows
    BY <1>3 DEF Submit, ledgerVars
  <2> QED BY <1>2, <2>1, <2>2
<1>4. ASSUME NEW r \in Request, Lookup(r) \/ Refetch(r) PROVE SuccessInv'
  <2>1. PICK place \in {"insert", "done"} : pc' = [pc EXCEPT ![r] = place]
    BY <1>4 DEF Lookup, Refetch, AnswerDeduplicated, Answer, Goto
  <2>2. key' = key /\ UNCHANGED storeVars /\ UNCHANGED <<outcome, wire>> /\ rows' = rows
    BY <1>4 DEF Lookup, Refetch, AnswerDeduplicated, ledgerVars
  <2> QED BY <1>2, <2>1, <2>2
<1>5. ASSUME NEW r \in Request, Insert(r) \/ RecordingFails(r) PROVE SuccessInv'
  <2>1. PICK place \in {"recorded", "refetch", "done"} : pc' = [pc EXCEPT ![r] = place]
    BY <1>5 DEF Insert, RecordingFails, Answer, Goto
  <2>2. key' = key /\ UNCHANGED storeVars /\ UNCHANGED <<outcome, wire>>
    BY <1>5 DEF Insert, RecordingFails
  <2>3. UNCHANGED ledgerVars \/ InsertAction(key[r])
    BY <1>5 DEF Insert, RecordingFails
  <2>4. \A k \in Key : rows'[k] = "VERIFIED" => rows[k] = "VERIFIED"
    BY <1>0, <2>3 DEF ledgerVars, InsertAction
  <2> QED BY <1>2, <2>1, <2>2, <2>4
<1>6. ASSUME NEW r \in Request, Execute(r) PROVE SuccessInv'
  <2>1. CASE ResolvesPath(key[r])
    <3>1. /\ wire' = [wire EXCEPT ![r] = "sent"] /\ pc' = [pc EXCEPT ![r] = "waiting"]
          /\ UNCHANGED storeVars /\ UNCHANGED <<key, outcome>> /\ rows' = rows
      BY <1>6, <2>1 DEF Execute, Goto, ledgerVars
    <3>2. /\ pc'[r] = "waiting" /\ wire'[r] = "sent"
          /\ \A q \in Request \ {r} : pc'[q] = pc[q] /\ wire'[q] = wire[q]
      BY <1>0, <3>1
    <3>3. ~ SuccessKnown(r)' /\ pc'[r] # "judged"
      BY <3>2 DEF SuccessKnown
    <3> QED BY <1>1, <3>1, <3>2, <3>3
  <2>2. CASE ~ ResolvesPath(key[r])
    <3>1. /\ pc' = [pc EXCEPT ![r] = "done"] /\ key' = key /\ UNCHANGED storeVars
          /\ UNCHANGED <<outcome, wire>> /\ rows' = rows
      BY <1>6, <2>2 DEF Execute, Answer, Goto, ledgerVars
    <3> QED BY <1>2, <3>1
  <2> QED BY <2>1, <2>2
<1>7. ASSUME NEW r \in Request, Handle(r) PROVE SuccessInv'
  BY <1>7, SuccessHandle
<1>8. ASSUME NEW r \in Request, Receive(r) \/ GiveUp(r) PROVE SuccessInv'
  <2>1. /\ UNCHANGED storeVars /\ key' = key /\ rows' = rows
        /\ pc' = [pc EXCEPT ![r] = "classified"]
        /\ \A q \in Request \ {r} : wire'[q] = wire[q] /\ outcome'[q] = outcome[q]
    BY <1>0, <1>8 DEF Receive, GiveUp, Goto, ledgerVars
  <2>2. pc'[r] = "classified" /\ \A q \in Request \ {r} : pc'[q] = pc[q]
    BY <1>0, <2>1
  <2>3. CASE SuccessKnown(r)
    <3>1. SuccessIsWritten(r)
      BY <1>0
    <3>2. PICK k : k = key[r]
      OBVIOUS
    <3>3. IsRefund(k) => OrderOf[k] \in Order /\ (Applied(k)' \/ Doubled(k)' \/ Uncredited(k)')
      BY <2>1, <2>3, <3>1, <3>2, StoreFixed DEF SuccessIsWritten
    <3>4. /\ Applied(k)' => Applied(key[r])'
          /\ Doubled(k)' => Doubled(key[r])'
          /\ Uncredited(k)' => Uncredited(key[r])'
      BY <2>1, <3>2 DEF Applied, Doubled, Uncredited, RefundsOf, OrderRefunds
    <3>5. SuccessIsWritten(r)'
      BY <2>1, <3>2, <3>3, <3>4 DEF SuccessIsWritten, IsRefund
    <3>6. VerdictIsTrue(r)'
      BY <2>2 DEF VerdictIsTrue
    <3> QED BY <2>1, <2>2, <3>5, <3>6, SuccessMoves
  <2>4. CASE ~ SuccessKnown(r)
    <3>1. outcome'[r] # "definite_success"
      <4>1. CASE Receive(r)
        <5>1. /\ pc[r] = "waiting" /\ wire[r] \in Response \ {"late"}
              /\ outcome'[r] = Classify(StatusCode(wire[r]), wire[r] = "blank",
                                        DefiniteFailureStatuses(key[r]))
          BY <1>0, <4>1 DEF Receive
        <5> QED BY <2>4, <5>1, ReceiveOutcome DEF SuccessKnown
      <4>2. CASE GiveUp(r)
        BY <1>0, <4>2, GiveUpOutcome DEF GiveUp
      <4> QED BY <1>8, <4>1, <4>2
    <3>2. ~ SuccessKnown(r)' /\ pc'[r] # "judged"
      BY <2>2, <3>1 DEF SuccessKnown
    <3> QED BY <1>1, <2>1, <2>2, <3>2
  <2> QED BY <2>3, <2>4
<1>9. ASSUME NEW r \in Request, RecordOutcome(r) \/ RecordVerdict(r) \/ TransitionFails(r)
      PROVE  SuccessInv'
  <2>1. /\ pc[r] \in {"classified", "judged"} /\ UNCHANGED storeVars
        /\ UNCHANGED <<key, outcome, wire>>
        /\ \/ pc' = [pc EXCEPT ![r] = "done"]
           \/ /\ outcome[r] = "definite_success" /\ pc[r] = "classified"
              /\ pc' = [pc EXCEPT ![r] = "executed"]
        /\ RecordResult(r) \/ UNCHANGED ledgerVars
    BY <1>9 DEF RecordOutcome, RecordVerdict, TransitionFails, Answer, Goto
  <2>2. \A k \in Key : rows'[k] = "VERIFIED" =>
          \/ rows[k] = "VERIFIED"
          \/ (IsRefund(k) => Applied(k)) /\ (IsCancel(k) => CancelWritten(k))
    <3>1. CASE RecordResult(r)
      BY <1>0, <2>1, <3>1, ResultFailed DEF VerdictIsTrue
    <3>2. CASE UNCHANGED ledgerVars
      BY <3>2 DEF ledgerVars
    <3> QED BY <2>1, <3>1, <3>2
  <2>3. CASE pc' = [pc EXCEPT ![r] = "done"]
    BY <1>2, <2>1, <2>2, <2>3
  <2>4. CASE /\ outcome[r] = "definite_success" /\ pc[r] = "classified"
             /\ pc' = [pc EXCEPT ![r] = "executed"]
    <3>1. SuccessKnown(r) /\ SuccessIsWritten(r)
      BY <1>0, <2>4 DEF SuccessKnown
    <3>2. PICK k : k = key[r]
      OBVIOUS
    <3>3. IsRefund(k) => OrderOf[k] \in Order /\ (Applied(k)' \/ Doubled(k)' \/ Uncredited(k)')
      BY <2>1, <3>1, <3>2, StoreFixed DEF SuccessIsWritten
    <3>4. /\ Applied(k)' => Applied(key[r])'
          /\ Doubled(k)' => Doubled(key[r])'
          /\ Uncredited(k)' => Uncredited(key[r])'
      BY <2>1, <3>2 DEF Applied, Doubled, Uncredited, RefundsOf, OrderRefunds
    <3>5. SuccessIsWritten(r)'
      BY <2>1, <3>2, <3>3, <3>4 DEF SuccessIsWritten, IsRefund
    <3>6. pc'[r] = "executed" /\ \A q \in Request \ {r} : pc'[q] = pc[q]
      BY <1>0, <2>4
    <3>7. VerdictIsTrue(r)'
      BY <3>6 DEF VerdictIsTrue
    <3> QED BY <2>1, <2>2, <3>5, <3>6, <3>7, SuccessMoves
  <2> QED BY <2>1, <2>3, <2>4
<1>10. ASSUME NEW r \in Request, VerifyRead(r) PROVE SuccessInv'
  <2>1. PICK k : k = key[r]
    OBVIOUS
  <2>2. /\ pc[r] = "executed" /\ UNCHANGED storeVars /\ rows' = rows
        /\ UNCHANGED <<key, wire>>
        /\ outcome' = [outcome EXCEPT ![r] =
                         Judge(k, OrderStatusCode(OrderOf[k]), OrderBody(OrderOf[k]))]
        /\ pc' = [pc EXCEPT ![r] = "judged"]
    BY <1>10, <2>1 DEF VerifyRead, Goto, ledgerVars
  <2>3. /\ pc'[r] = "judged"
        /\ outcome'[r] = Judge(k, OrderStatusCode(OrderOf[k]), OrderBody(OrderOf[k]))
        /\ \A q \in Request \ {r} : pc'[q] = pc[q] /\ outcome'[q] = outcome[q]
    BY <1>0, <2>2
  <2>4. k \in Key
    BY <1>0, <2>1, <2>2 DEF KeyKnown
  <2>5. outcome'[r] = "VERIFIED" =>
          (IsRefund(k) => Applied(k)) /\ (IsCancel(k) => CancelWritten(k))
    <3>1. SUFFICES ASSUME outcome'[r] = "VERIFIED"
                   PROVE  (IsRefund(k) => Applied(k)) /\ (IsCancel(k) => CancelWritten(k))
      OBVIOUS
    <3>2. /\ OrderOf[k] \in Order
          /\ IsRefund(k) => /\ refunded[OrderOf[k]] > 0
                            /\ Cardinality(OrderRefunds(OrderOf[k])) = 1
          /\ IsCancel(k) => status[OrderOf[k]] = "CANCELLED"
      <4>1. Judge(k, OrderStatusCode(OrderOf[k]), OrderBody(OrderOf[k])) = "VERIFIED"
        BY <2>3, <3>1
      <4> QED BY <4>1, JudgeOutcome, Zenon
    <3>3. IsRefund(k) => Applied(k)
      <4>1. SUFFICES ASSUME IsRefund(k) PROVE Applied(k)
        OBVIOUS
      <4>2. Applied(k) \/ Doubled(k) \/ Uncredited(k)
        BY <1>0, <2>1, <2>2, <4>1 DEF SuccessIsWritten, SuccessKnown
      <4>3. refunded[OrderOf[k]] # 0
        BY <3>2, <4>1
      <4> QED BY <1>0, <2>4, <3>2, <4>1, <4>2, <4>3, ReadTellsApplied
    <3>4. IsCancel(k) => CancelWritten(k)
      BY <3>2 DEF CallInv, StoreAccount, CancelWritten
    <3> QED BY <3>3, <3>4
  <2>6. VerdictIsTrue(r)'
    <3>1. (Applied(k) => Applied(k)') /\ (CancelWritten(k) => CancelWritten(k)')
      BY <2>2, StoreFixed
    <3>2. (Applied(k)' => Applied(key[r])') /\ (CancelWritten(k)' => CancelWritten(key[r])')
      BY <2>1, <2>2 DEF Applied, CancelWritten, RefundsOf
    <3> QED BY <2>1, <2>2, <2>5, <3>1, <3>2 DEF VerdictIsTrue, IsRefund, IsCancel
  <2>7. SuccessIsWritten(r)'
    BY <2>3 DEF SuccessIsWritten, SuccessKnown
  <2> QED BY <2>2, <2>3, <2>6, <2>7, SuccessMoves
<1>11. ASSUME NEW r \in Request, ReadUnavailable(r) PROVE SuccessInv'
  <2>1. /\ pc'[r] = "judged" /\ outcome'[r] = "UNKNOWN"
        /\ UNCHANGED storeVars /\ UNCHANGED <<key, wire>> /\ rows' = rows
        /\ \A q \in Request \ {r} : pc'[q] = pc[q] /\ outcome'[q] = outcome[q]
    BY <1>0, <1>11 DEF ReadUnavailable, Goto, ledgerVars
  <2>2. SuccessIsWritten(r)' /\ VerdictIsTrue(r)'
    BY <2>1 DEF SuccessIsWritten, SuccessKnown, VerdictIsTrue
  <2> QED BY <2>1, <2>2, SuccessMoves
<1>12. CASE Crash \/ UNCHANGED vars
  <2>1. /\ \A q \in Request : pc'[q] \in {pc[q], "crashed"}
        /\ UNCHANGED storeVars /\ UNCHANGED <<key, outcome, wire>> /\ rows' = rows
    BY <1>0, <1>12 DEF Crash, vars, storeVars, ledgerVars
  <2>2. \A k : /\ Applied(k) => Applied(k)'
               /\ Doubled(k) => Doubled(k)'
               /\ Uncredited(k) => Uncredited(k)'
               /\ CancelWritten(k) => CancelWritten(k)'
    BY <2>1, StoreFixed
  <2>3. ASSUME NEW q \in Request PROVE SuccessIsWritten(q)' /\ VerdictIsTrue(q)'
    <3>1. PICK k : k = key[q]
      OBVIOUS
    <3>2. /\ SuccessKnown(q)' => SuccessKnown(q)
          /\ pc'[q] = "judged" => pc[q] = "judged"
      BY <2>1 DEF SuccessKnown
    <3>3. /\ Applied(k)' => Applied(key[q])'
          /\ Doubled(k)' => Doubled(key[q])'
          /\ Uncredited(k)' => Uncredited(key[q])'
          /\ CancelWritten(k)' => CancelWritten(key[q])'
      BY <2>1, <3>1 DEF Applied, Doubled, Uncredited, CancelWritten, RefundsOf, OrderRefunds
    <3>4. SuccessIsWritten(q)'
      <4>1. SuccessKnown(q) /\ IsRefund(k) =>
              OrderOf[k] \in Order /\ (Applied(k)' \/ Doubled(k)' \/ Uncredited(k)')
        BY <1>0, <2>2, <3>1 DEF SuccessIsWritten
      <4> QED BY <2>1, <3>1, <3>2, <3>3, <4>1 DEF SuccessIsWritten, IsRefund
    <3>5. VerdictIsTrue(q)'
      <4>1. pc[q] = "judged" /\ outcome[q] = "VERIFIED" =>
              (IsRefund(k) => Applied(k)') /\ (IsCancel(k) => CancelWritten(k)')
        BY <1>0, <2>2, <3>1 DEF VerdictIsTrue
      <4> QED BY <2>1, <3>1, <3>2, <3>3, <4>1 DEF VerdictIsTrue, IsRefund, IsCancel
    <3> QED BY <3>4, <3>5
  <2>4. VerifiedRefundIsExact' /\ VerifiedCancelHappened'
    <3>1. \A k \in Key : rows[k] = "VERIFIED" =>
            (IsRefund(k) => Applied(k)') /\ (IsCancel(k) => CancelWritten(k)')
      BY <2>2 DEF SuccessInv, VerifiedRefundIsExact, VerifiedCancelHappened, Applied, CancelWritten
    <3> QED BY <2>1, <3>1
            DEF VerifiedRefundIsExact, VerifiedCancelHappened, Applied, CancelWritten
  <2> QED BY <2>3, <2>4 DEF SuccessInv
<1> QED
  BY <1>3, <1>4, <1>5, <1>6, <1>7, <1>8, <1>9, <1>10, <1>11, <1>12 DEF Next, Proceed

(* A store that has not been reset has never been.                         *)
LEMMA ResetCounted ==
  TypeInv /\ [Next]_vars => (NeverReset' => NeverReset /\ ~ StoreReset)
<1> SUFFICES ASSUME TypeInv, [Next]_vars, NeverReset' PROVE NeverReset /\ ~ StoreReset
  OBVIOUS
<1>1. faults \in [Fault -> Nat]
  BY DEF TypeInv, TypeOK
<1>2. ASSUME NEW fault \in Fault, NEW bound, Happens(fault, bound)
      PROVE  NeverReset /\ fault # "reset"
  BY <1>1, <1>2 DEF Happens, NeverReset, Fault
<1>3. ~ StoreReset
  BY <1>2 DEF StoreReset, Fault
<1>4. CASE faults' = faults
  BY <1>3, <1>4 DEF NeverReset
<1>5. ASSUME NEW r \in Request, RecordingFails(r) \/ ReadUnavailable(r) \/ TransitionFails(r)
      PROVE  NeverReset
  BY <1>2, <1>5 DEF RecordingFails, ReadUnavailable, TransitionFails, Fault
<1>6. CASE Crash
  BY <1>2, <1>3, <1>6 DEF Crash, Fault
<1>7. ASSUME NEW r \in Request, Proceed(r) PROVE faults' = faults
  BY <1>7 DEF Proceed, Lookup, Insert, Refetch, AnswerDeduplicated, Execute, Receive,
              GiveUp, RecordOutcome, VerifyRead, RecordVerdict
<1>8. ASSUME NEW r \in Request, Handle(r) \/ \E k \in Key : Submit(r, k)
      PROVE  faults' = faults
  BY <1>8 DEF Handle, Submit
<1>9. UNCHANGED vars => faults' = faults
  BY DEF vars
<1> QED BY <1>3, <1>4, <1>5, <1>6, <1>7, <1>8, <1>9 DEF Next

LEMMA EffectsInvariant == Spec => [](CallInv /\ (NeverReset => SuccessInv))
<1>1. Init => SuccessInv
  BY DEF Init, LedgerInit, SuccessInv, SuccessIsWritten, SuccessKnown, VerdictIsTrue,
         VerifiedRefundIsExact, VerifiedCancelHappened, NoRow
<1> QED BY <1>1, CallsInit, CallsStep, SuccessStep, ResetCounted, Invariant, PTL DEF Spec

(* VerifiedRefundExact: until the downstream store is first reset, a       *)
(* VERIFIED refund was applied completely and exactly once, whichever      *)
(* fault profile its call met and whichever calls came before the read.    *)
THEOREM VerifiedRefundExact == Spec => [](NeverReset => VerifiedRefundIsExact)
<1>1. SuccessInv => VerifiedRefundIsExact
  BY DEF SuccessInv
<1> QED BY <1>1, EffectsInvariant, PTL

(* VerifiedCancelWritten: until the downstream store is first reset, there *)
(* is a written cancellation of the order behind a VERIFIED one.           *)
THEOREM VerifiedCancelWritten == Spec => [](NeverReset => VerifiedCancelHappened)
<1>1. SuccessInv => VerifiedCancelHappened
  BY DEF SuccessInv
<1> QED BY <1>1, EffectsInvariant, PTL

=============================================================================
