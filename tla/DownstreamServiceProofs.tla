------------------------ MODULE DownstreamServiceProofs ------------------------
(***************************************************************************)
(* Theorems about the downstream service with any number of orders, keys   *)
(* and clients, and about the verification that reads from it: whatever    *)
(* was written to the store, the verdict that verify_postcondition reaches *)
(* from the shipped contract's text and the JSON of the order is the one   *)
(* that the gateway model takes.                                           *)
(***************************************************************************)
EXTENDS Verification, DownstreamProofs, EvaluatorProofs

(* CreditFollows: a credit leaves every order's status as its money says.  *)
LEMMA CreditFollows ==
  ASSUME StoreInv, StatusFollowsMoney, NEW k \in Key, NEW n \in {1, 2},
         OrderOf[k] \in Order, AmountOf[k] > 0, Credit(k, n)
  PROVE  StatusFollowsMoney'
<1>1. /\ status \in [Order -> OrderStatus] /\ refunded \in [Order -> Nat]
      /\ AmountOf[k] \in Nat /\ Total[OrderOf[k]] \in Nat
  BY AmountAssumption, TotalAssumption DEF StoreInv, StoreTypeOK
<1> DEFINE sum == refunded[OrderOf[k]] + n * AmountOf[k]
<1>2. /\ refunded'[OrderOf[k]] = sum
      /\ status'[OrderOf[k]] = IF sum >= Total[OrderOf[k]] THEN "REFUNDED"
                               ELSE "PARTIALLY_REFUNDED"
      /\ \A o \in Order \ {OrderOf[k]} : refunded'[o] = refunded[o] /\ status'[o] = status[o]
  BY <1>1 DEF Credit
<1>3. sum \in Nat /\ sum > 0
  BY <1>1
<1> QED BY <1>1, <1>2, <1>3 DEF StatusFollowsMoney

(* MutateFollows: so does every handler that writes.                       *)
LEMMA MutateFollows ==
  ASSUME StoreInv, StatusFollowsMoney, NEW k \in Key, NEW profile \in FaultProfile,
         NEW response \in Response, Mutate(profile, k, response)
  PROVE  StatusFollowsMoney'
<1>1. CASE UNCHANGED <<status, refunded>>
  BY <1>1 DEF StatusFollowsMoney
<1>2. ASSUME NEW n \in {1, 2}, OrderOf[k] \in Order, AmountOf[k] > 0, Credit(k, n)
      PROVE  StatusFollowsMoney'
  BY <1>2, CreditFollows
<1>3. CASE OrderOf[k] \in Order /\ SetCancelled(k) /\ UNCHANGED refunded
  <2>1. /\ refunded' = refunded /\ status'[OrderOf[k]] = "CANCELLED"
        /\ \A o \in Order \ {OrderOf[k]} : status'[o] = status[o]
    BY <1>3 DEF SetCancelled, StoreInv, StoreTypeOK
  <2> QED BY <2>1 DEF StatusFollowsMoney
<1>4. CASE CreateRefund(profile, k, response)
  BY <1>1, <1>2, <1>4 DEF CreateRefund, RefundUnder, Refund, storeVars
<1>5. CASE CancelOrder(profile, k, response)
  BY <1>1, <1>3, <1>5 DEF CancelOrder
<1> QED BY <1>4, <1>5 DEF Mutate

(* ServiceStep: and every step of the service.                             *)
LEMMA ServiceStep ==
  StoreInv /\ StatusFollowsMoney /\ [Next]_storeVars => StoreInv' /\ StatusFollowsMoney'
<1> SUFFICES ASSUME StoreInv, StatusFollowsMoney, [Next]_storeVars
             PROVE  StoreInv' /\ StatusFollowsMoney'
  OBVIOUS
<1>1. CASE \E k \in Key : Call(k)
  BY <1>1, MutateLemma, MutateFollows DEF Call
<1>2. CASE Reset
  BY <1>2, ResetLemma DEF Reset, StatusFollowsMoney
<1>3. CASE UNCHANGED storeVars
  BY <1>3 DEF storeVars, StoreInv, StoreTypeOK, StatusFollowsMoney
<1> QED BY <1>1, <1>2, <1>3 DEF Next

(* ServiceInvariant: the types and the status hold together.               *)
LEMMA ServiceInvariant == Spec => [](StoreInv /\ StatusFollowsMoney)
<1>1. Init => StoreInv /\ StatusFollowsMoney
  BY StoreInitLemma DEF Init, StoreInit, StatusFollowsMoney
<1> QED BY <1>1, ServiceStep, PTL DEF Spec

(* StoreTyped: whatever is called, in whatever order, the store is well    *)
(* typed.                                                                  *)
THEOREM StoreTyped == Spec => []StoreTypeOK
<1>1. StoreInv => StoreTypeOK
  BY DEF StoreInv
<1> QED BY <1>1, ServiceInvariant, PTL

(* StatusTellsMoney: the status of an order that is not cancelled says how *)
(* much of it was refunded, through every fault profile and reset.         *)
THEOREM StatusTellsMoney == Spec => []StatusFollowsMoney
BY ServiceInvariant, PTL

-----------------------------------------------------------------------------
(***************************************************************************)
(* Sums.  AmountIn adds amounts up in the order of a CHOOSE.  A weighing   *)
(* of the subsets of S is a function that grows by the amount of whichever *)
(* record is added; there is one for every finite set, it agrees with      *)
(* AmountIn, and so AmountIn grows by the amount of a record too.  The     *)
(* inductions are on the size of the set.                                  *)
(***************************************************************************)
Record == [key : Key, id : Nat]

IsWeighing(w, S) ==
  /\ w \in [SUBSET S -> Nat]
  /\ w[{}] = 0
  /\ \A T \in SUBSET S, r \in S :
       r \in T => w[T] = w[T \ {r}] + AmountOf[r.key]

(* WeighingGrows: a weighing extends to one more record.                   *)
LEMMA WeighingGrows ==
  ASSUME NEW S \in SUBSET Record, NEW w, IsWeighing(w, S),
         NEW y \in Record, y \notin S
  PROVE  \E v : IsWeighing(v, S \cup {y})
<1> DEFINE U == S \cup {y}
           v == [T \in SUBSET U |-> IF y \in T THEN w[T \ {y}] + AmountOf[y.key] ELSE w[T]]
<1>1. \A r \in U : AmountOf[r.key] \in Nat
  BY AmountAssumption DEF Record
<1>2. \A T \in SUBSET S : w[T] \in Nat
  BY DEF IsWeighing
<1>3. v \in [SUBSET U -> Nat]
  <2>1. ASSUME NEW T \in SUBSET U PROVE v[T] \in Nat
    <3>1. CASE y \in T
      <4>1. w[T \ {y}] \in Nat /\ AmountOf[y.key] \in Nat
        <5>1. T \ {y} \in SUBSET S /\ y \in U OBVIOUS
        <5> HIDE DEF U, v
        <5> QED BY <5>1, <1>1, <1>2
      <4>2. v[T] = w[T \ {y}] + AmountOf[y.key] BY <3>1
      <4> HIDE DEF v
      <4> QED BY <4>1, <4>2
    <3>2. CASE y \notin T
      BY <1>2, <3>2
    <3> QED BY <3>1, <3>2
  <2> QED BY <2>1
<1>4. v[{}] = 0
  BY DEF IsWeighing
<1>5. ASSUME NEW T \in SUBSET U, NEW r \in U, r \in T
      PROVE  v[T] = v[T \ {r}] + AmountOf[r.key]
  <2>1. CASE r = y
    <3>1. v[T] = w[T \ {y}] + AmountOf[y.key] BY <1>5, <2>1
    <3>2. v[T \ {y}] = w[T \ {y}] OBVIOUS
    <3> QED BY <2>1, <3>1, <3>2
  <2>2. CASE r # y /\ y \in T
    <3>1. v[T] = w[T \ {y}] + AmountOf[y.key] BY <2>2
    <3>2. v[T \ {r}] = w[(T \ {r}) \ {y}] + AmountOf[y.key] BY <2>2
    <3>3. (T \ {r}) \ {y} = (T \ {y}) \ {r} OBVIOUS
    <3>4. T \ {y} \in SUBSET S /\ r \in S /\ r \in T \ {y} BY <1>5, <2>2
    <3>5. w[T \ {y}] = w[(T \ {y}) \ {r}] + AmountOf[r.key]
      BY <3>4 DEF IsWeighing
    <3>6. w[(T \ {y}) \ {r}] \in Nat BY <1>2, <3>4
    <3>7. AmountOf[r.key] \in Nat /\ AmountOf[y.key] \in Nat BY <1>1
    <3>8. PICK p : p = w[(T \ {y}) \ {r}] OBVIOUS
    <3>9. v[T \ {r}] = p + AmountOf[y.key] BY <3>2, <3>3, <3>8
    <3>10. v[T] = (p + AmountOf[r.key]) + AmountOf[y.key] BY <3>1, <3>5, <3>8
    <3> HIDE DEF v
    <3> QED BY <3>6, <3>7, <3>8, <3>9, <3>10
  <2>3. CASE r # y /\ y \notin T
    <3>1. T \in SUBSET S /\ r \in S BY <1>5, <2>3
    <3>2. v[T] = w[T] /\ v[T \ {r}] = w[T \ {r}] BY <2>3
    <3> HIDE DEF v
    <3> QED BY <1>5, <3>1, <3>2 DEF IsWeighing
  <2> QED BY <2>1, <2>2, <2>3
<1>6. IsWeighing(v, U)
  <2> HIDE DEF v
  <2> QED BY <1>3, <1>4, <1>5 DEF IsWeighing
<1> QED BY <1>6

(* WeighingExists: every finite set of records has a weighing.             *)
LEMMA WeighingExists ==
  ASSUME NEW S \in SUBSET Record, IsFiniteSet(S)
  PROVE  \E w : IsWeighing(w, S)
<1> DEFINE P == {n \in Nat : \A T \in SUBSET Record :
                   IsFiniteSet(T) /\ Cardinality(T) = n => \E w : IsWeighing(w, T)}
<1>1. 0 \in P
  <2> SUFFICES ASSUME NEW T \in SUBSET Record, IsFiniteSet(T), Cardinality(T) = 0
               PROVE  \E w : IsWeighing(w, T)
    OBVIOUS
  <2>1. T = {} BY FS_EmptySet
  <2> DEFINE w == [U \in SUBSET T |-> 0]
  <2>2. w \in [SUBSET T -> Nat] /\ w[{}] = 0 OBVIOUS
  <2>3. ~ \E r : r \in T BY <2>1
  <2> HIDE DEF w
  <2>4. IsWeighing(w, T) BY <2>2, <2>3 DEF IsWeighing
  <2> QED BY <2>4
<1>2. ASSUME NEW n \in P PROVE n + 1 \in P
  <2> SUFFICES ASSUME NEW T \in SUBSET Record, IsFiniteSet(T), Cardinality(T) = n + 1
               PROVE  \E w : IsWeighing(w, T)
    OBVIOUS
  <2>1. T # {} BY FS_EmptySet
  <2>2. PICK y \in T : TRUE BY <2>1
  <2>3. IsFiniteSet(T \ {y}) /\ Cardinality(T \ {y}) = n
    <3>1. n \in Nat OBVIOUS
    <3> HIDE DEF P
    <3>2. IsFiniteSet(T \ {y}) /\ Cardinality(T \ {y}) = Cardinality(T) - 1
      BY <2>2, FS_RemoveElement
    <3> QED BY <3>1, <3>2
  <2>4. PICK w : IsWeighing(w, T \ {y})
    BY <2>3
  <2>5. T \ {y} \in SUBSET Record /\ y \in Record /\ y \notin T \ {y}
    OBVIOUS
  <2>6. \E v : IsWeighing(v, (T \ {y}) \cup {y})
    <3> HIDE DEF P
    <3> QED BY <2>4, <2>5, WeighingGrows
  <2>7. (T \ {y}) \cup {y} = T OBVIOUS
  <2> QED BY <2>6, <2>7
<1>3. \A n \in Nat : n \in P
  <2>1. P \in SUBSET Nat OBVIOUS
  <2> HIDE DEF P
  <2> QED BY <1>1, <1>2, <2>1, EveryNatural
<1>4. Cardinality(S) \in Nat BY FS_CardinalityType
<1> QED BY <1>3, <1>4

(* AmountIn unrolled: it takes one record after another from the set.      *)
Chosen(T) == CHOOSE r \in T : TRUE

IsFold(f, S) ==
  f = [T \in SUBSET S |->
         IF T = {} THEN 0 ELSE AmountOf[Chosen(T).key] + f[T \ {Chosen(T)}]]

(* AmountIsFold: the operator of the library is such a function.           *)
LEMMA AmountIsFold ==
  ASSUME NEW S
  PROVE  AmountIn(S) = (CHOOSE f : IsFold(f, S))[S]
BY DEF AmountIn, MapThenSumSet, MapThenFoldSet, IsFold, Chosen

(* FoldIsWeighing: whichever record is taken first, the sum is the weight. *)
LEMMA FoldIsWeighing ==
  ASSUME NEW S \in SUBSET Record, IsFiniteSet(S), NEW w, IsWeighing(w, S),
         NEW f, IsFold(f, S)
  PROVE  f[S] = w[S]
<1> DEFINE P == {n \in Nat : \A T \in SUBSET S : Cardinality(T) = n => f[T] = w[T]}
<1>1. \A T \in SUBSET S : IsFiniteSet(T) /\ Cardinality(T) \in Nat
  BY FS_Subset, FS_CardinalityType
<1>2. 0 \in P
  <2>1. ASSUME NEW T \in SUBSET S, Cardinality(T) = 0 PROVE f[T] = w[T]
    <3>1. T = {} BY <1>1, <2>1, FS_EmptySet
    <3>2. f[{}] = 0 BY DEF IsFold
    <3> QED BY <3>1, <3>2 DEF IsWeighing
  <2> QED BY <2>1
<1>3. ASSUME NEW n \in P PROVE n + 1 \in P
  <2>1. ASSUME NEW T \in SUBSET S, Cardinality(T) = n + 1 PROVE f[T] = w[T]
    <3>1. T # {} BY <2>1, FS_EmptySet
    <3>2. Chosen(T) \in T BY <3>1 DEF Chosen
    <3>3. Cardinality(T \ {Chosen(T)}) = n
      <4>1. n \in Nat OBVIOUS
      <4> HIDE DEF P
      <4> QED BY <1>1, <2>1, <3>2, <4>1, FS_RemoveElement
    <3>4. f[T \ {Chosen(T)}] = w[T \ {Chosen(T)}]
      BY <3>3
    <3> HIDE DEF P
    <3>5. f[T] = AmountOf[Chosen(T).key] + f[T \ {Chosen(T)}]
      BY <3>1 DEF IsFold
    <3>6. w[T] = w[T \ {Chosen(T)}] + AmountOf[Chosen(T).key]
      BY <3>2 DEF IsWeighing
    <3>7. AmountOf[Chosen(T).key] \in Nat /\ w[T \ {Chosen(T)}] \in Nat
      BY <3>2, AmountAssumption DEF IsWeighing, Record
    <3> QED BY <3>4, <3>5, <3>6, <3>7
  <2> QED BY <2>1
<1>4. \A n \in Nat : n \in P
  <2>1. P \in SUBSET Nat OBVIOUS
  <2> HIDE DEF P
  <2> QED BY <1>2, <1>3, <2>1, EveryNatural
<1> QED BY <1>1, <1>4

(* WeighingIsFold: so a function of that kind exists.                      *)
LEMMA WeighingIsFold ==
  ASSUME NEW S \in SUBSET Record, NEW w, IsWeighing(w, S)
  PROVE  IsFold(w, S)
<1>1. ASSUME NEW T \in SUBSET S
      PROVE  w[T] = IF T = {} THEN 0 ELSE AmountOf[Chosen(T).key] + w[T \ {Chosen(T)}]
  <2>1. CASE T # {}
    <3>1. Chosen(T) \in T BY <2>1 DEF Chosen
    <3>2. w[T] = w[T \ {Chosen(T)}] + AmountOf[Chosen(T).key]
      BY <3>1 DEF IsWeighing
    <3>3. AmountOf[Chosen(T).key] \in Nat /\ w[T \ {Chosen(T)}] \in Nat
      BY <3>1, AmountAssumption DEF IsWeighing, Record
    <3> QED BY <2>1, <3>2, <3>3
  <2>2. CASE T = {}
    BY <2>2 DEF IsWeighing
  <2> QED BY <2>1, <2>2
<1>2. w = [T \in SUBSET S |-> w[T]]
  BY DEF IsWeighing
<1> QED BY <1>1, <1>2 DEF IsFold

(* AmountIsWeight: AmountIn is what any weighing says.                     *)
LEMMA AmountIsWeight ==
  ASSUME NEW S \in SUBSET Record, IsFiniteSet(S), NEW w, IsWeighing(w, S)
  PROVE  AmountIn(S) = w[S]
<1>1. IsFold(w, S) BY WeighingIsFold
<1> DEFINE f == CHOOSE f : IsFold(f, S)
<1>2. IsFold(f, S) BY <1>1
<1>3. AmountIn(S) = f[S] BY AmountIsFold
<1> HIDE DEF f
<1> QED BY <1>2, <1>3, FoldIsWeighing

(* AmountGrows: one record more adds its amount, no record is nothing.     *)
LEMMA AmountGrows ==
  ASSUME NEW S \in SUBSET Record, IsFiniteSet(S)
  PROVE  /\ AmountIn(S) \in Nat
         /\ \A r \in Record \ S : AmountIn(S \cup {r}) = AmountIn(S) + AmountOf[r.key]
<1>1. PICK w : IsWeighing(w, S) BY WeighingExists
<1>2. AmountIn(S) \in Nat
  <2>1. w[S] \in Nat BY <1>1 DEF IsWeighing
  <2> QED BY <1>1, <2>1, AmountIsWeight
<1>3. ASSUME NEW r \in Record \ S
      PROVE  AmountIn(S \cup {r}) = AmountIn(S) + AmountOf[r.key]
  <2> DEFINE U == S \cup {r}
  <2>1. IsFiniteSet(U) /\ U \in SUBSET Record BY FS_AddElement
  <2>2. PICK v : IsWeighing(v, U) BY <2>1, WeighingExists
  <2>3. AmountIn(U) = v[U] BY <2>1, <2>2, AmountIsWeight
  <2>4. PICK u : u = [T \in SUBSET S |-> v[T]] OBVIOUS
  <2>5. IsWeighing(u, S)
    BY <2>2, <2>4 DEF IsWeighing
  <2>6. AmountIn(S) = v[S] BY <2>4, <2>5, AmountIsWeight
  <2>7. U \ {r} = S OBVIOUS
  <2>8. v[U] = v[U \ {r}] + AmountOf[r.key] BY <2>2 DEF IsWeighing
  <2> QED BY <2>3, <2>6, <2>7, <2>8
<1> QED BY <1>2, <1>3

-----------------------------------------------------------------------------
(***************************************************************************)
(* Money.  An amount that is credited is that of records which are new: a  *)
(* record carries no number above the count of its key's records, so those *)
(* that AddRefunds writes are not there yet.                               *)
(***************************************************************************)
Numbered == \A r \in refunds : r.id <= Cardinality(RefundsOf(r.key))

MoneyInv == StoreInv /\ Numbered /\ NoMoneyWithoutRecord

(* RecordsAreNew: AddRefunds writes one or two records nobody has seen.    *)
LEMMA RecordsAreNew ==
  ASSUME StoreInv, Numbered, NEW k \in Key, NEW n \in {1, 2}, AddRefunds(k, n)
  PROVE  \E r \in Record \ refunds :
           /\ r.key = k
           /\ n = 1 => refunds' = refunds \cup {r}
           /\ n = 2 => \E q \in Record \ (refunds \cup {r}) :
                          q.key = k /\ refunds' = (refunds \cup {r}) \cup {q}
<1> DEFINE c == Cardinality(RefundsOf(k))
           r == [key |-> k, id |-> c + 1]
           q == [key |-> k, id |-> c + 2]
<1>1. c \in Nat
  <2>1. RefundsOf(k) \in SUBSET refunds /\ IsFiniteSet(refunds)
    BY DEF RefundsOf, StoreInv
  <2> QED BY <2>1, FS_Subset, FS_CardinalityType
<1>2. refunds' = refunds \cup {[key |-> k, id |-> c + i] : i \in 1 .. n}
  BY DEF AddRefunds
<1>3. \A x \in refunds : x.key = k => x.id <= c
  BY DEF Numbered
<1> HIDE DEF c
<1>4. r \in Record /\ q \in Record /\ r.key = k /\ q.key = k
  BY <1>1 DEF Record
<1>5. ~ (c + 1 <= c) /\ ~ (c + 2 <= c) /\ c + 1 # c + 2
  BY <1>1
<1>6. r \notin refunds /\ q \notin refunds /\ r # q
  BY <1>3, <1>5
<1>7. n = 1 => refunds' = refunds \cup {r}
  <2>1. n = 1 => 1 .. n = {1} OBVIOUS
  <2> QED BY <1>2, <2>1
<1>8. n = 2 => refunds' = (refunds \cup {r}) \cup {q}
  <2>1. n = 2 => 1 .. n = {1, 2} OBVIOUS
  <2> QED BY <1>2, <2>1
<1> HIDE DEF r, q
<1> QED BY <1>4, <1>6, <1>7, <1>8

(* RecordsCount: those of k become n more, those of other keys stay.       *)
LEMMA RecordsCount ==
  ASSUME StoreInv, Numbered, NEW k \in Key, NEW n \in {1, 2}, AddRefunds(k, n)
  PROVE  Numbered'
<1> DEFINE c == Cardinality(RefundsOf(k))
<1>1. refunds' \subseteq Record /\ IsFiniteSet(refunds') /\ refunds \subseteq Record
  BY AddRefundsLemma DEF Record, StoreInv, StoreTypeOK
<1>2. RefundsOf(k) \in SUBSET RefundsOf(k)' /\ IsFiniteSet(RefundsOf(k)')
      /\ IsFiniteSet(RefundsOf(k))
  <2>1. RefundsOf(k) \in SUBSET RefundsOf(k)'
    BY DEF RefundsOf, AddRefunds
  <2>2. RefundsOf(k)' \in SUBSET refunds' BY DEF RefundsOf
  <2>3. IsFiniteSet(RefundsOf(k)') BY <1>1, <2>2, FS_Subset
  <2> QED BY <2>1, <2>3, FS_Subset
<1>3. c \in Nat /\ Cardinality(RefundsOf(k)') = c + n
  <2>1. c \in Nat BY <1>2, FS_CardinalityType
  <2>2. PICK r \in Record \ refunds :
           /\ r.key = k
           /\ n = 1 => refunds' = refunds \cup {r}
           /\ n = 2 => \E q \in Record \ (refunds \cup {r}) :
                          q.key = k /\ refunds' = (refunds \cup {r}) \cup {q}
    BY RecordsAreNew
  <2>3. /\ IsFiniteSet(RefundsOf(k) \cup {r})
        /\ Cardinality(RefundsOf(k) \cup {r}) = c + 1
    <3>1. r \notin RefundsOf(k) BY <2>2 DEF RefundsOf
    <3> QED BY <1>2, <3>1, FS_AddElement
  <2>4. CASE n = 1
    <3>1. RefundsOf(k)' = RefundsOf(k) \cup {r} BY <2>2, <2>4 DEF RefundsOf
    <3> QED BY <2>1, <2>3, <2>4, <3>1
  <2>5. CASE n = 2
    <3>1. PICK q \in Record \ (refunds \cup {r}) :
            q.key = k /\ refunds' = (refunds \cup {r}) \cup {q}
      BY <2>2, <2>5
    <3>2. RefundsOf(k)' = (RefundsOf(k) \cup {r}) \cup {q}
      BY <2>2, <3>1 DEF RefundsOf
    <3>3. q \notin RefundsOf(k) \cup {r} BY <3>1 DEF RefundsOf
    <3>4. Cardinality(RefundsOf(k)') = (c + 1) + 1
      <4>1. PICK s : s = RefundsOf(k) \cup {r} OBVIOUS
      <4>2. IsFiniteSet(s) /\ Cardinality(s) = c + 1 /\ q \notin s
        BY <2>3, <3>3, <4>1
      <4>3. Cardinality(s \cup {q}) = Cardinality(s) + 1 BY <4>2, FS_AddElement
      <4> QED BY <3>2, <4>1, <4>2, <4>3
    <3> HIDE DEF c
    <3> QED BY <2>1, <2>5, <3>4
  <2> QED BY <2>4, <2>5, <2>1
<1>4. ASSUME NEW x \in refunds' PROVE x.id <= Cardinality(RefundsOf(x.key)')
  <2>1. CASE x \in refunds /\ x.key # k
    <3>1. x.key \in Key \ {k} BY <1>1, <2>1 DEF Record
    <3>2. RefundsOf(x.key)' = RefundsOf(x.key) BY <3>1, AddRefundsLemma
    <3> QED BY <2>1, <3>2 DEF Numbered
  <2>2. CASE x \in refunds /\ x.key = k
    <3>1. x.id <= c /\ x.id \in Nat BY <1>1, <2>2 DEF Numbered, Record
    <3> HIDE DEF c
    <3>2. x.id <= c + n BY <1>3, <3>1
    <3> QED BY <1>3, <2>2, <3>2
  <2>3. CASE x \notin refunds
    <3>1. PICK i \in 1 .. n : x = [key |-> k, id |-> c + i]
      BY <2>3 DEF AddRefunds
    <3> HIDE DEF c
    <3>2. x.key = k /\ x.id = c + i /\ c + i <= c + n BY <1>3, <3>1
    <3> QED BY <1>3, <3>2
  <2> QED BY <2>1, <2>2, <2>3
<1>5. ASSUME NEW x \in refunds' PROVE x.id <= Cardinality(RefundsOf(x.key))'
  BY <1>4, <1>5 DEF RefundsOf
<1> QED BY <1>5 DEF Numbered

AmountFor(o, S) == AmountIn({x \in S : OrderOf[x.key] = o})

(* RecordsAdd: a record of k adds its amount to its order and to no other. *)
LEMMA RecordsAdd ==
  ASSUME NEW S \in SUBSET Record, IsFiniteSet(S), NEW r \in Record \ S, NEW o
  PROVE  /\ AmountFor(o, S) \in Nat
         /\ AmountFor(o, S \cup {r})
              = AmountFor(o, S) + (IF OrderOf[r.key] = o THEN AmountOf[r.key] ELSE 0)
<1> DEFINE T == {x \in S : OrderOf[x.key] = o}
           U == {x \in S \cup {r} : OrderOf[x.key] = o}
<1>1. T \in SUBSET Record /\ IsFiniteSet(T) /\ r \in Record \ T
  <2>1. T \in SUBSET S OBVIOUS
  <2> QED BY <2>1, FS_Subset
<1>2. AmountIn(T) \in Nat BY <1>1, AmountGrows
<1>3. AmountFor(o, S) = AmountIn(T) /\ AmountFor(o, S \cup {r}) = AmountIn(U)
  BY DEF AmountFor
<1>4. CASE OrderOf[r.key] = o
  <2>1. U = T \cup {r} BY <1>4
  <2> HIDE DEF T, U
  <2>2. AmountIn(U) = AmountIn(T) + AmountOf[r.key] BY <1>1, <2>1, AmountGrows
  <2> QED BY <1>2, <1>3, <1>4, <2>2
<1>5. CASE OrderOf[r.key] # o
  <2>1. U = T BY <1>5
  <2> HIDE DEF T, U
  <2> QED BY <1>2, <1>3, <1>5, <2>1
<1> QED BY <1>4, <1>5

(* RecordedGrows: n records of k add n times its amount to its order.      *)
LEMMA RecordedGrows ==
  ASSUME StoreInv, Numbered, NEW k \in Key, NEW n \in {1, 2}, AddRefunds(k, n),
         NEW o \in Order
  PROVE  /\ RecordedAmount(o) \in Nat
         /\ RecordedAmount(o)' =
              RecordedAmount(o) + (IF OrderOf[k] = o THEN n * AmountOf[k] ELSE 0)
<1> DEFINE a == IF OrderOf[k] = o THEN AmountOf[k] ELSE 0
<1>1. RecordedAmount(o) = AmountFor(o, refunds) /\ RecordedAmount(o)' = AmountFor(o, refunds')
  BY DEF RecordedAmount, OrderRefunds, AmountFor
<1>2. refunds \in SUBSET Record /\ IsFiniteSet(refunds)
  BY DEF StoreInv, StoreTypeOK, Record
<1>3. a \in Nat /\ AmountOf[k] \in Nat BY AmountAssumption
<1>4. PICK r \in Record \ refunds :
        /\ r.key = k
        /\ n = 1 => refunds' = refunds \cup {r}
        /\ n = 2 => \E q \in Record \ (refunds \cup {r}) :
                       q.key = k /\ refunds' = (refunds \cup {r}) \cup {q}
  BY RecordsAreNew
<1>5. /\ AmountFor(o, refunds) \in Nat
      /\ AmountFor(o, refunds \cup {r}) = AmountFor(o, refunds) + a
  <2>1. /\ AmountFor(o, refunds) \in Nat
        /\ AmountFor(o, refunds \cup {r})
             = AmountFor(o, refunds) + (IF OrderOf[r.key] = o THEN AmountOf[r.key] ELSE 0)
    BY <1>2, RecordsAdd
  <2> QED BY <1>4, <2>1
<1>6. n = 1 => AmountFor(o, refunds') = AmountFor(o, refunds) + a
  BY <1>4, <1>5
<1>7. n = 2 => AmountFor(o, refunds') = (AmountFor(o, refunds) + a) + a
  <2> SUFFICES ASSUME n = 2
               PROVE  AmountFor(o, refunds') = (AmountFor(o, refunds) + a) + a
    OBVIOUS
  <2>1. PICK q \in Record \ (refunds \cup {r}) :
          q.key = k /\ refunds' = (refunds \cup {r}) \cup {q}
    BY <1>4
  <2>2. IsFiniteSet(refunds \cup {r}) /\ refunds \cup {r} \in SUBSET Record
    BY <1>2, FS_AddElement
  <2>3. AmountFor(o, (refunds \cup {r}) \cup {q})
          = AmountFor(o, refunds \cup {r}) + (IF OrderOf[q.key] = o THEN AmountOf[q.key] ELSE 0)
    BY <2>1, <2>2, RecordsAdd
  <2> QED BY <1>5, <2>1, <2>3
<1>8. PICK m : m = AmountFor(o, refunds) OBVIOUS
<1>9. (n = 1 => (m + a) = m + (IF OrderOf[k] = o THEN n * AmountOf[k] ELSE 0))
       /\ (n = 2 => (m + a) + a = m + (IF OrderOf[k] = o THEN n * AmountOf[k] ELSE 0))
  BY <1>5, <1>3, <1>8
<1> HIDE DEF a
<1> QED BY <1>1, <1>5, <1>6, <1>7, <1>8, <1>9

(* CallKeepsMoney: a call credits what its new records say, less, or       *)
(* nothing.                                                                *)
LEMMA CallKeepsMoney ==
  ASSUME MoneyInv, NEW k \in Key, NEW profile \in FaultProfile,
         NEW response \in Response, Mutate(profile, k, response)
  PROVE  Numbered' /\ NoMoneyWithoutRecord'
<1> USE DEF MoneyInv
<1>1. CASE UNCHANGED <<refunded, refunds>>
  BY <1>1 DEF Numbered, NoMoneyWithoutRecord, RecordedAmount, OrderRefunds, RefundsOf
<1>2. ASSUME NEW n \in {1, 2}, AddRefunds(k, n), Credit(k, n), OrderOf[k] \in Order
      PROVE  Numbered' /\ NoMoneyWithoutRecord'
  <2>1. Numbered' BY <1>2, RecordsCount
  <2>2. ASSUME NEW o \in Order PROVE refunded'[o] <= RecordedAmount(o)'
    <3> DEFINE more == IF OrderOf[k] = o THEN n * AmountOf[k] ELSE 0
    <3>1. /\ RecordedAmount(o) \in Nat
          /\ RecordedAmount(o)' = RecordedAmount(o) + more
      BY <1>2, RecordedGrows
    <3>2. refunded[o] \in Nat /\ more \in Nat
      BY AmountAssumption DEF StoreInv, StoreTypeOK
    <3>3. refunded'[o] = refunded[o] + more
      <4>1. refunded' = [refunded EXCEPT ![OrderOf[k]] =
                           refunded[OrderOf[k]] + n * AmountOf[k]]
        BY <1>2 DEF Credit
      <4>2. o \in DOMAIN refunded BY DEF StoreInv, StoreTypeOK
      <4>3. CASE OrderOf[k] = o BY <4>1, <4>2, <4>3
      <4>4. CASE OrderOf[k] # o BY <3>2, <4>1, <4>2, <4>4
      <4> QED BY <4>3, <4>4
    <3>4. refunded[o] <= RecordedAmount(o) BY DEF NoMoneyWithoutRecord
    <3> HIDE DEF more
    <3> QED BY <3>1, <3>2, <3>3, <3>4
  <2> QED BY <2>1, <2>2 DEF NoMoneyWithoutRecord
<1>3. CASE AddRefunds(k, 1) /\ UNCHANGED refunded
  <2>1. Numbered' BY <1>3, RecordsCount
  <2>2. ASSUME NEW o \in Order PROVE refunded'[o] <= RecordedAmount(o)'
    <3> DEFINE more == IF OrderOf[k] = o THEN 1 * AmountOf[k] ELSE 0
    <3>1. /\ RecordedAmount(o) \in Nat
          /\ RecordedAmount(o)' = RecordedAmount(o) + more
      BY <1>3, RecordedGrows
    <3>2. refunded[o] \in Nat /\ more \in Nat
      BY AmountAssumption DEF StoreInv, StoreTypeOK
    <3>3. refunded[o] <= RecordedAmount(o) BY DEF NoMoneyWithoutRecord
    <3> HIDE DEF more
    <3> QED BY <1>3, <3>1, <3>2, <3>3
  <2> QED BY <2>1, <2>2 DEF NoMoneyWithoutRecord
<1>4. CASE CreateRefund(profile, k, response)
  BY <1>1, <1>2, <1>3, <1>4 DEF CreateRefund, RefundUnder, Refund, storeVars
<1>5. CASE CancelOrder(profile, k, response)
  BY <1>1, <1>5 DEF CancelOrder
<1> QED BY <1>4, <1>5 DEF Mutate

(* MoneyStep: every step of the service keeps the invariant.               *)
LEMMA MoneyStep == MoneyInv /\ [Next]_storeVars => MoneyInv'
<1> SUFFICES ASSUME MoneyInv, [Next]_storeVars PROVE MoneyInv' OBVIOUS
<1>1. CASE \E k \in Key : Call(k)
  BY <1>1, MutateLemma, CallKeepsMoney DEF Call, MoneyInv
<1>2. CASE Reset
  <2>1. StoreInv' BY <1>2, ResetLemma
  <2>2. Numbered' BY <1>2 DEF Reset, Numbered
  <2>3. ASSUME NEW o \in Order PROVE refunded'[o] <= RecordedAmount(o)'
    <3>1. refunded'[o] = 0 /\ OrderRefunds(o)' = {} BY <1>2 DEF Reset, OrderRefunds
    <3>2. RecordedAmount(o)' = AmountIn({}) BY <3>1 DEF RecordedAmount
    <3>3. AmountIn({}) \in Nat BY AmountGrows, FS_EmptySet
    <3> QED BY <3>1, <3>2, <3>3
  <2> QED BY <2>1, <2>2, <2>3 DEF MoneyInv, NoMoneyWithoutRecord
<1>3. CASE UNCHANGED storeVars
  BY <1>3 DEF storeVars, MoneyInv, StoreInv, StoreTypeOK, Numbered, RefundsOf,
              NoMoneyWithoutRecord, RecordedAmount, OrderRefunds
<1> QED BY <1>1, <1>2, <1>3 DEF Next

(* MoneyHolds: nothing is recorded or credited in a store just seeded.     *)
LEMMA MoneyHolds == Init => MoneyInv
<1> SUFFICES ASSUME Init PROVE MoneyInv OBVIOUS
<1>1. StoreInv BY StoreInitLemma DEF Init
<1>2. Numbered BY DEF Init, StoreInit, Numbered
<1>3. ASSUME NEW o \in Order PROVE refunded[o] <= RecordedAmount(o)
  <2>1. refunded[o] = 0 /\ OrderRefunds(o) = {} BY DEF Init, StoreInit, OrderRefunds
  <2>2. RecordedAmount(o) \in Nat BY <2>1, AmountGrows, FS_EmptySet DEF RecordedAmount
  <2> QED BY <2>1, <2>2
<1> QED BY <1>1, <1>2, <1>3 DEF MoneyInv, NoMoneyWithoutRecord

(* MoneyIsRecorded: through partial writes, duplicate deliveries, repeated *)
(* calls and resets an order is never credited more than its refund        *)
(* records add up to.                                                      *)
THEOREM MoneyIsRecorded == Spec => []NoMoneyWithoutRecord
<1>1. MoneyInv => NoMoneyWithoutRecord BY DEF MoneyInv
<1> QED BY <1>1, MoneyHolds, MoneyStep, PTL DEF Spec

(* CallIsNew: a call that refunds an order leaves a record of a key that   *)
(* was not remembered.                                                     *)
LEMMA CallIsNew ==
  ASSUME StoreInv, Numbered, NEW j \in Key, Call(j), NEW o \in Order, MoneyMoves(o)
  PROVE  j \notin processed /\ OrderOf[j] = o /\ RefundsOf(j)' # RefundsOf(j)
<1>1. status \in [Order -> OrderStatus] /\ refunded \in [Order -> Nat]
  BY DEF StoreInv, StoreTypeOK
<1>2. ~ UNCHANGED <<status, refunded>> BY DEF MoneyMoves
<1>3. ~ SetCancelled(j) \/ ~ UNCHANGED refunded
  BY <1>1 DEF SetCancelled, MoneyMoves
<1>4. PICK n \in {1, 2} : Refund(j, n) /\ ~ Remembered(j)
  BY <1>2, <1>3 DEF Call, Mutate, CreateRefund, RefundUnder, CancelOrder, storeVars
<1>5. OrderOf[j] = o
  BY <1>1, <1>4 DEF Refund, Credit, MoneyMoves
<1>6. PICK r \in Record \ refunds : r.key = j /\ r \in refunds'
  BY <1>4, RecordsAreNew DEF Refund
<1>7. r \notin RefundsOf(j) /\ r \in RefundsOf(j)'
  BY <1>6 DEF RefundsOf
<1> QED BY <1>4, <1>5, <1>7 DEF Remembered

(* RememberedStep: the calls of remembered keys record and credit nothing. *)
LEMMA RememberedStep ==
  MoneyInv /\ [Next]_storeVars =>
    [\A k \in processed :
       k \in processed' =>
         /\ RefundsOf(k)' = RefundsOf(k)
         /\ \A o \in Order :
              MoneyMoves(o) => \E j \in Key \ processed :
                                OrderOf[j] = o /\ RefundsOf(j)' # RefundsOf(j)]_storeVars
<1> SUFFICES ASSUME MoneyInv, Next, NEW k \in processed, k \in processed'
             PROVE  /\ RefundsOf(k)' = RefundsOf(k)
                    /\ \A o \in Order :
                         MoneyMoves(o) => \E j \in Key \ processed :
                                           OrderOf[j] = o /\ RefundsOf(j)' # RefundsOf(j)
  OBVIOUS
<1> USE DEF MoneyInv
<1>1. PICK j \in Key : Call(j)
  BY DEF Next, Reset
<1>2. ASSUME UNCHANGED refunds PROVE RefundsOf(k)' = RefundsOf(k)
  BY <1>2 DEF RefundsOf
<1>3. ASSUME NEW n \in {1, 2}, ~ Remembered(j), AddRefunds(j, n)
      PROVE  RefundsOf(k)' = RefundsOf(k)
  <2>1. k \in Key \ {j}
    BY <1>3 DEF Remembered, StoreInv, StoreTypeOK
  <2> QED BY <1>3, <2>1, AddRefundsLemma
<1>4. RefundsOf(k)' = RefundsOf(k)
  BY <1>1, <1>2, <1>3
     DEF Call, Mutate, CreateRefund, RefundUnder, Refund, CancelOrder, storeVars
<1>5. \A o \in Order : MoneyMoves(o) =>
        j \in Key \ processed /\ OrderOf[j] = o /\ RefundsOf(j)' # RefundsOf(j)
  BY <1>1, CallIsNew
<1> QED BY <1>4, <1>5

(* RememberedSpent: a call with a key whose response is cached changes no  *)
(* record of that key and refunds no order, whatever its profile.          *)
THEOREM RememberedSpent == Spec => RememberedKeyIsSpent
BY RememberedStep, MoneyHolds, MoneyStep, PTL DEF Spec, RememberedKeyIsSpent

-----------------------------------------------------------------------------
(***************************************************************************)
(* The verdict on an order, from the evaluation of the shipped assertions  *)
(* in the body and the arguments.                                          *)
(***************************************************************************)
(* OutcomeOf: assertions that hold, do not hold or raise EvaluationError    *)
(* pass together or fail at one of them; none escapes.                      *)
LEMMA OutcomeOf ==
  ASSUME NEW asserts, NEW c, DOMAIN asserts \in SUBSET Nat,
         \A i \in DOMAIN asserts : Evaluate(asserts[i], c) \in
           {Bool(TRUE), Bool(FALSE), Raise("EvaluationError")}
  PROVE  IF \A i \in DOMAIN asserts : Evaluate(asserts[i], c) = Bool(TRUE)
         THEN EvaluatePostcondition(asserts, c) = Passed
         ELSE \E i \in DOMAIN asserts : EvaluatePostcondition(asserts, c) = FailedAt(i)
<1> DEFINE result == [i \in DOMAIN asserts |-> Evaluate(asserts[i], c)]
           violated == {i \in DOMAIN asserts : ~ Holds(result[i])}
<1>1. Holds(Bool(TRUE)) /\ ~ Holds(Bool(FALSE)) /\ ~ IsRaise(Bool(FALSE))
  BY BooleanValues DEF Holds
<1>2. /\ IsRaise(Raise("EvaluationError")) /\ ~ Holds(Raise("EvaluationError"))
      /\ Caught(Raise("EvaluationError"))
  BY DEF Holds, IsRaise, Raise, Caught
<1>3. EvaluatePostcondition(asserts, c) =
        IF violated = {} THEN Passed
        ELSE IF IsRaise(result[Min(violated)]) /\ ~ Caught(result[Min(violated)])
             THEN Escaped(result[Min(violated)][2])
             ELSE FailedAt(Min(violated))
  BY DEF EvaluatePostcondition
<1>4. \A i \in DOMAIN asserts :
        /\ result[i] = Evaluate(asserts[i], c)
        /\ i \in violated <=> Evaluate(asserts[i], c) # Bool(TRUE)
  BY <1>1, <1>2
<1>5. CASE violated = {}
  <2> HIDE DEF violated
  <2> QED BY <1>3, <1>4, <1>5
<1>6. CASE violated # {}
  <2>1. Min(violated) \in violated /\ violated \subseteq DOMAIN asserts
    <3>1. violated \in SUBSET Nat OBVIOUS
    <3> HIDE DEF violated
    <3>2. Min(violated) \in violated BY <1>6, <3>1, MinIsMember
    <3> QED BY <3>2 DEF violated
  <2> HIDE DEF violated, result
  <2>2. PICK first \in DOMAIN asserts : first = Min(violated) /\ first \in violated
    BY <2>1
  <2>3. result[first] \in {Bool(FALSE), Raise("EvaluationError")} BY <1>4, <2>2
  <2>4. ~ (IsRaise(result[first]) /\ ~ Caught(result[first])) BY <1>1, <1>2, <2>3
  <2> QED BY <1>3, <1>4, <1>6, <2>2, <2>4
<1> QED BY <1>5, <1>6

(* The fields of an object.                                                *)
LEMMA ObjectField ==
  ASSUME NEW f, NEW s
  PROVE  /\ Object(f)[1] = "dict"
         /\ Has(Object(f), s) <=> s \in DOMAIN f
         /\ s \in DOMAIN f => Field(Object(f), s) = f[s]
<1>1. Str(s)[2] = s /\ \A t : Str(s) = Str(t) => s = t BY DEF Str
<1>2. Object(f)[1] = "dict" /\ Object(f)[2] = [k \in {Str(t) : t \in DOMAIN f} |-> f[k[2]]]
  BY DEF Object, Dict
<1>3. Has(Object(f), s) <=> s \in DOMAIN f BY <1>1, <1>2 DEF Has
<1>4. s \in DOMAIN f => Field(Object(f), s) = f[s] BY <1>1, <1>2 DEF Field
<1> QED BY <1>2, <1>3, <1>4

(* One step along a path of an argument.                                   *)
LEMMA WalkOne ==
  ASSUME NEW v, NEW name
  PROVE  Walk(v, <<name>>) = Entry(v, name)
<1> DEFINE it == CHOOSE f : f = [s \in SUBSET {1} |->
                    IF s = {} THEN v ELSE Entry(f[s \ {Max(s)}], <<name>>[Max(s)])]
           g == [s \in SUBSET {1} |-> IF s = {} THEN v ELSE Entry(v, name)]
<1>1. Max({1}) = 1 BY DEF Max
<1>2. \A s \in SUBSET {1} : s = {} \/ s = {1} OBVIOUS
<1>3. g = [s \in SUBSET {1} |-> IF s = {} THEN v ELSE Entry(g[s \ {Max(s)}], <<name>>[Max(s)])]
  <2>1. g[{}] = v
    <3>1. {} \in SUBSET {1} OBVIOUS
    <3> QED BY <3>1
  <2>2. \A s \in SUBSET {1} : s # {} => s \ {Max(s)} = {} /\ <<name>>[Max(s)] = name
    <3>1. {1} \ {Max({1})} = {} /\ <<name>>[Max({1})] = name BY <1>1
    <3>2. SUFFICES ASSUME NEW s \in SUBSET {1}, s # {}
                   PROVE  s \ {Max(s)} = {} /\ <<name>>[Max(s)] = name
      OBVIOUS
    <3>3. s = {1} BY <1>2, <3>2
    <3> QED BY <3>1, <3>3
  <2>3. g = [s \in SUBSET {1} |-> g[s]] OBVIOUS
  <2>4. \A s \in SUBSET {1} : g[s] = IF s = {} THEN v ELSE Entry(v, name) OBVIOUS
  <2> HIDE DEF g
  <2>5. \A s \in SUBSET {1} :
          g[s] = IF s = {} THEN v ELSE Entry(g[s \ {Max(s)}], <<name>>[Max(s)])
    BY <2>1, <2>2, <2>4
  <2> QED BY <2>3, <2>5
<1>4. it = [s \in SUBSET {1} |-> IF s = {} THEN v ELSE Entry(it[s \ {Max(s)}], <<name>>[Max(s)])]
  <2> HIDE DEF g
  <2> QED BY <1>3
<1>5. Walk(v, <<name>>) = it[{1}]
  BY DEF Walk, FoldLeft, MapThenFoldSet
<1> HIDE DEF it, g
<1>6. it[{}] = v BY <1>4
<1>7. it[{1}] = Entry(it[{}], name)
  <2>1. {1} \ {Max({1})} = {} /\ <<name>>[Max({1})] = name BY <1>1
  <2>2. {1} \in SUBSET {1} /\ {1} # {} OBVIOUS
  <2> QED BY <1>4, <2>1, <2>2
<1> QED BY <1>5, <1>6, <1>7

(* value.attr of a dictionary: the entry, or an error.                     *)
LEMMA DictAttribute ==
  ASSUME NEW v, v[1] = "dict", NEW attr
  PROVE  EvalAttribute(v, attr) =
           IF Has(v, attr) THEN Field(v, attr) ELSE Raise("EvaluationError")
BY DEF EvalAttribute, Has, Field

(* An attribute of an attribute, or of a name.                             *)
LEMMA AttrValue ==
  ASSUME NEW m, NEW attr, NEW c, Attr(m, attr) \in Node, m # NoKeyNode
  PROVE  EvalNode(Attr(m, attr), c) =
           Then(EvalNode(m, c), LAMBDA target : EvalAttribute(target, attr))
<1>1. /\ Attr(m, attr)[1] = "Attribute" /\ Attr(m, attr)[2] = m /\ Attr(m, attr)[3] = attr
  BY DEF Attr
<1>2. PICK n \in Node : n = Attr(m, attr) OBVIOUS
<1>3. EvalNode(n, c) = Then(Part(n[2], c), LAMBDA target : EvalAttribute(target, n[3]))
  BY <1>1, <1>2, EvalAttributeNode
<1> QED BY <1>1, <1>2, <1>3 DEF Part

(* An equality of two trees: of what they are evaluated to.                *)
LEMMA EqualityOf ==
  ASSUME NEW a, NEW b, NEW c, Cmp(a, "Eq", b) \in Node, a # NoKeyNode, b # NoKeyNode
  PROVE  /\ ~ IsRaise(EvalNode(a, c)) /\ ~ IsRaise(EvalNode(b, c))
            /\ EqualTo(EvalNode(a, c), EvalNode(b, c)) \in BOOLEAN
            => EvalNode(Cmp(a, "Eq", b), c) = Bool(EqualTo(EvalNode(a, c), EvalNode(b, c)))
         /\ ~ IsRaise(EvalNode(a, c)) /\ IsRaise(EvalNode(b, c))
            => EvalNode(Cmp(a, "Eq", b), c) = EvalNode(b, c)
<1>1. PICK n \in Node : n = Cmp(a, "Eq", b) OBVIOUS
<1>2. n[1] = "Compare" /\ n[2] = a /\ n[3] = <<"Eq">> /\ n[4] = <<b>> BY <1>1 DEF Cmp
<1>3. EvalNode(n, c) = EvalLinks(Part(a, c), <<"Eq">>, Parts(<<b>>, c))
  BY <1>2, EvalCompareNode
<1>4. Part(a, c) = EvalNode(a, c) /\ Parts(<<b>>, c)[1] = EvalNode(b, c)
  BY DEF Part, Parts
<1>5. PICK x : x = EvalNode(a, c) OBVIOUS
<1>6. PICK y : y = EvalNode(b, c) OBVIOUS
<1>7. EvalNode(n, c) = LinkResult(Link("Eq", x, y))
  <2>1. DOMAIN <<"Eq">> = {1} /\ <<"Eq">>[1] = "Eq" OBVIOUS
  <2>2. PICK ops : ops = <<"Eq">> OBVIOUS
  <2>3. PICK rights : rights = Parts(<<b>>, c) OBVIOUS
  <2>4. EvalLinks(x, ops, rights) = LinkResult(Link(ops[1], x, rights[1]))
    BY <2>1, <2>2, OneLink
  <2> QED BY <1>3, <1>4, <1>5, <1>6, <2>1, <2>2, <2>3, <2>4
<1>8. ASSUME ~ IsRaise(x), ~ IsRaise(y), EqualTo(x, y) \in BOOLEAN
      PROVE  LinkResult(Link("Eq", x, y)) = Bool(EqualTo(x, y))
  <2>1. Link("Eq", x, y) = Bool(EqualTo(x, y))
    BY <1>8 DEF Link, Then, EvalCompareOp
  <2>2. EqualTo(x, y) = TRUE \/ EqualTo(x, y) = FALSE BY <1>8
  <2>3. LinkResult(Bool(TRUE)) = Bool(TRUE) /\ LinkResult(Bool(FALSE)) = Bool(FALSE)
    BY BooleanValues DEF LinkResult, Then
  <2> QED BY <2>1, <2>2, <2>3
<1>9. ASSUME ~ IsRaise(x), IsRaise(y)
      PROVE  LinkResult(Link("Eq", x, y)) = y
  <2>1. Link("Eq", x, y) = y BY <1>9 DEF Link, Then
  <2>2. ~ IsTrue(y) BY <1>9, BooleanValues DEF IsTrue
  <2> QED BY <1>9, <2>1, <2>2 DEF LinkResult, Then
<1> QED BY <1>1, <1>5, <1>6, <1>7, <1>8, <1>9

(* The names of an evaluation's context.                                   *)
LEMMA NamesOf ==
  ASSUME NEW body, NEW args
  PROVE  /\ Name("body") \in Node => EvalNode(Name("body"), ContextOf(body, args)) = body
         /\ Name("args") \in Node => EvalNode(Name("args"), ContextOf(body, args)) = args
<1>1. ASSUME NEW id \in {"body", "args"}, Name(id) \in Node
      PROVE  EvalNode(Name(id), ContextOf(body, args)) = IF id = "body" THEN body ELSE args
  <2>1. PICK n \in Node : n = Name(id) BY <1>1
  <2>2. n[1] = "Name" /\ n[2] = id BY <2>1 DEF Name
  <2>3. EvalNode(n, ContextOf(body, args)) = EvalName(id, ContextOf(body, args))
    BY <2>2, EvalLeaf
  <2> QED BY <2>1, <2>3 DEF EvalName, ContextOf
<1> QED BY <1>1

-----------------------------------------------------------------------------
(* What is used of the interpreter's == and <: on strings, and on whole    *)
(* numbers, which JSON writes in two ways.                                 *)
Written(n) == {Integer(n), Float(n, 1)}

ComparesAsPython ==
  /\ \A s, t : EqualTo(Str(s), Str(t)) = (s = t)
  /\ \A m, n \in Int : \A a \in Written(m), b \in Written(n) :
       EqualTo(a, b) = (m = n) /\ LessThan(a, b) = Bool(m < n)
  /\ \A n \in Int : \A a \in Written(n) : \A v : ~ IsNumber(v) => EqualTo(a, v) = FALSE

(* The arguments the verdicts are about: an order is named by a string,    *)
(* and an amount is a whole number or nothing that is read as one.         *)
PlainArguments ==
  \A k \in Key :
    /\ Has(ArgsOf[k], "order_id") => \E s : Field(ArgsOf[k], "order_id") = Str(s)
    /\ IsRefund(k) /\ Has(ArgsOf[k], "amount") =>
         LET amount == Field(ArgsOf[k], "amount")
         IN (\E n \in Int : amount \in Written(n))
            \/ ~ (IsNumber(amount) \/ amount[1] = "str" \/ IsRaise(amount))

(* A whole number as a float.                                              *)
LEMMA WholeFloat ==
  ASSUME NEW n \in Int PROVE Float(n, 1) = <<"float", n, 1>>
<1> DEFINE g == CHOOSE d \in 1 .. 1 :
             /\ n % d = 0 /\ 1 % d = 0
             /\ \A e \in d + 1 .. 1 : n % e # 0 \/ 1 % e # 0
<1>1. g = 1
  <2>1. 1 \in 1 .. 1 /\ n % 1 = 0 /\ 1 % 1 = 0 /\ (1 + 1) .. 1 = {} OBVIOUS
  <2> QED BY <2>1
<1>2. Float(n, 1) = <<"float", n \div g, 1 \div g>> BY DEF Float
<1>3. n \div 1 = n /\ 1 \div 1 = 1 OBVIOUS
<1> HIDE DEF g
<1> QED BY <1>1, <1>2, <1>3

(* The values of JSON are no exceptions.                                   *)
LEMMA ValuesNotRaised ==
  /\ \A s : ~ IsRaise(Str(s))
  /\ \A f : ~ IsRaise(Object(f))
  /\ \A n \in Int : \A v \in Written(n) : ~ IsRaise(v) /\ IsNumber(v) /\ Numerator(v) = n
<1>1. \A s : ~ IsRaise(Str(s)) BY DEF IsRaise, Str
<1>2. \A f : ~ IsRaise(Object(f)) BY DEF IsRaise, Object, Dict
<1>3. ASSUME NEW n \in Int, NEW v \in Written(n)
      PROVE  ~ IsRaise(v) /\ IsNumber(v) /\ Numerator(v) = n
  <2>1. v = <<"int", n>> \/ v = <<"float", n, 1>>
    BY <1>3, WholeFloat DEF Written, Integer
  <2>2. v[1] \in {"int", "float"} /\ v[2] = n BY <2>1
  <2> QED BY <2>2 DEF IsRaise, IsNumber, Numerator
<1> QED BY <1>1, <1>2, <1>3

(* The fields of an order's body that assertions and heuristic look at.    *)
LEMMA OrderFields ==
  ASSUME NEW o \in Order
  PROVE  /\ JsonOrder(o)[1] = "dict"
         /\ \A f \in {"status", "refund", "refunds", "refunded_amount"} : Has(JsonOrder(o), f)
         /\ Field(JsonOrder(o), "status") = Str(status[o])
         /\ Field(JsonOrder(o), "refunded_amount") = Float(refunded[o], 1)
         /\ Field(JsonOrder(o), "refunds") =
              List([i \in 1 .. Cardinality(OrderRefunds(o)) |-> Object(<<>>)])
         /\ LET summary == Field(JsonOrder(o), "refund") IN
              /\ summary[1] = "dict"
              /\ \A f \in {"status", "amount", "count"} : Has(summary, f)
              /\ Field(summary, "status") = Str(IF refunded[o] > 0 THEN "processed" ELSE "none")
              /\ Field(summary, "amount") = Float(refunded[o], 1)
              /\ Field(summary, "count") = Integer(Cardinality(OrderRefunds(o)))
<1> DEFINE inner == [status |-> Str(IF refunded[o] > 0 THEN "processed" ELSE "none"),
                     amount |-> Float(refunded[o], 1),
                     count |-> Integer(Cardinality(OrderRefunds(o)))]
           listed == List([i \in 1 .. Cardinality(OrderRefunds(o)) |-> Object(<<>>)])
           outer == [order_id |-> Str(o), total_amount |-> Float(Total[o], 1),
                     status |-> Str(status[o]), refunded_amount |-> Float(refunded[o], 1),
                     refund |-> Object(inner), refunds |-> listed]
<1>1. JsonOrder(o) = Object(outer) BY DEF JsonOrder
<1>2. PICK f : f = outer OBVIOUS
<1>3. PICK g : g = inner OBVIOUS
<1>4. /\ DOMAIN f = {"order_id", "total_amount", "status", "refunded_amount",
                     "refund", "refunds"}
      /\ f.status = Str(status[o]) /\ f.refunded_amount = Float(refunded[o], 1)
      /\ f.refund = Object(g) /\ f.refunds = listed
  BY <1>2, <1>3
<1>5. /\ DOMAIN g = {"status", "amount", "count"}
      /\ g.status = Str(IF refunded[o] > 0 THEN "processed" ELSE "none")
      /\ g.amount = Float(refunded[o], 1)
      /\ g.count = Integer(Cardinality(OrderRefunds(o)))
  BY <1>3
<1> HIDE DEF inner, outer, listed
<1>6. /\ Object(f)[1] = "dict"
      /\ \A s : s \in DOMAIN f => Has(Object(f), s) /\ Field(Object(f), s) = f[s]
  BY ObjectField
<1>7. /\ Object(g)[1] = "dict"
      /\ \A s : s \in DOMAIN g => Has(Object(g), s) /\ Field(Object(g), s) = g[s]
  BY ObjectField
<1>8. JsonOrder(o) = Object(f) BY <1>1, <1>2
<1>9. Field(JsonOrder(o), "refund") = Object(g) BY <1>4, <1>6, <1>8
<1> QED BY <1>4, <1>5, <1>6, <1>7, <1>8, <1>9 DEF listed

(* What RefundRequest reads as the amount of a refund's arguments.         *)
LEMMA AmountRead ==
  ASSUME NEW k \in Key, IsRefund(k)
  PROVE  /\ Has(ArgsOf[k], "amount") =>
              \A n \in Int : Field(ArgsOf[k], "amount") \in Written(n) => AmountOf[k] = n
         /\ ~ Has(ArgsOf[k], "amount") => AmountOf[k] = 0
         /\ Has(ArgsOf[k], "amount")
            /\ ~ (IsNumber(Field(ArgsOf[k], "amount")) \/ Field(ArgsOf[k], "amount")[1] = "str")
            => AmountOf[k] = 0
<1>1. IsRaise(Raise("ValidationError")) BY DEF IsRaise, Raise
<1>2. PICK v : v = Field(ArgsOf[k], "amount") OBVIOUS
<1>3. /\ ~ Has(ArgsOf[k], "amount") => AmountOf[k] = 0
      /\ Has(ArgsOf[k], "amount") =>
           AmountOf[k] = IF IsRaise(ReadAmount(v)) THEN 0 ELSE Numerator(ReadAmount(v))
  BY <1>1, <1>2, ArgsAssumption
<1>4. ASSUME NEW n \in Int, v \in Written(n)
      PROVE  ~ IsRaise(ReadAmount(v)) /\ Numerator(ReadAmount(v)) = n
  <2>1. v = <<"int", n>> \/ v = <<"float", n, 1>>
    BY <1>4, WholeFloat DEF Written, Integer
  <2>2. v[1] \in {"int", "float"} /\ Numerator(v) = n /\ Denominator(v) = 1
    BY <2>1 DEF Numerator, Denominator
  <2>3. ReadAmount(v) = Float(n, 1) BY <2>2 DEF ReadAmount, IsNumber
  <2>4. Float(n, 1) \in Written(n) BY DEF Written
  <2> QED BY <2>3, <2>4, ValuesNotRaised
<1>5. ASSUME ~ (IsNumber(v) \/ v[1] = "str") PROVE IsRaise(ReadAmount(v))
  <2>1. ReadAmount(v) = Raise("ValidationError") BY <1>5 DEF ReadAmount, IsNumber
  <2> QED BY <1>1, <2>1
<1> QED BY <1>2, <1>3, <1>4, <1>5

(* The parts of equalities and attributes are trees.                       *)
LEMMA ShippedParts ==
  /\ \A a, op, b : Cmp(a, op, b) \in Node => a \in Node /\ b \in Node
  /\ \A m, attr : Attr(m, attr) \in Node => m \in Node
<1>1. ASSUME NEW a, NEW op, NEW b, Cmp(a, op, b) \in Node PROVE a \in Node /\ b \in Node
  <2>1. PICK n \in Node : n = Cmp(a, op, b) BY <1>1
  <2>2. n[1] = "Compare" /\ n[2] = a /\ n[4] = <<b>> BY <2>1 DEF Cmp
  <2>3. n[4][1] = b /\ 1 \in DOMAIN n[4] BY <2>2
  <2>4. a \in Children(n) /\ b \in Children(n) BY <2>2, <2>3 DEF Children, Range
  <2> QED BY <2>4, PartsAreNodes
<1>2. ASSUME NEW m, NEW attr, Attr(m, attr) \in Node PROVE m \in Node
  <2>1. PICK n \in Node : n = Attr(m, attr) BY <1>2
  <2>2. n[1] = "Attribute" /\ n[2] = m BY <2>1 DEF Attr
  <2>3. m \in Children(n) BY <2>2 DEF Children
  <2> QED BY <2>3, PartsAreNodes
<1> QED BY <1>1, <1>2

(* No tree is the sign of a missing key.                                   *)
LEMMA NotNoKey ==
  /\ \A a, op, b : Cmp(a, op, b) # NoKeyNode
  /\ \A m, attr : Attr(m, attr) # NoKeyNode
  /\ \A id : Name(id) # NoKeyNode
  /\ \A v : Const(v) # NoKeyNode
<1>1. NoKeyNode[1] = "NoKey" BY DEF NoKeyNode
<1>2. /\ \A a, op, b : Cmp(a, op, b)[1] = "Compare"
      /\ \A m, attr : Attr(m, attr)[1] = "Attribute"
      /\ \A id : Name(id)[1] = "Name"
      /\ \A v : Const(v)[1] = "Constant"
  BY DEF Cmp, Attr, Name, Const
<1> QED BY <1>1, <1>2

(* body.refund.attr, and body.attr, of an order.                           *)
LEMMA RefundFieldValue ==
  ASSUME NEW o \in Order, NEW args, NEW f \in {"status", "amount", "count"},
         RefundField(f) \in Node
  PROVE  EvalNode(RefundField(f), ContextOf(JsonOrder(o), args)) =
           Field(Field(JsonOrder(o), "refund"), f)
<1> DEFINE c == ContextOf(JsonOrder(o), args)
<1>1. /\ Attr(Attr(Name("body"), "refund"), f) \in Node
      /\ Attr(Name("body"), "refund") \in Node /\ Name("body") \in Node
  BY ShippedParts DEF RefundField
<1>2. PICK body : body = JsonOrder(o) OBVIOUS
<1>3. PICK summary : summary = Field(body, "refund") OBVIOUS
<1>4. body[1] = "dict" /\ Has(body, "refund") /\ summary[1] = "dict" /\ Has(summary, f)
  BY <1>2, <1>3, OrderFields
<1>5. ~ IsRaise(body) /\ ~ IsRaise(summary) BY <1>4 DEF IsRaise
<1>6. EvalNode(Name("body"), c) = body BY <1>1, <1>2, NamesOf
<1> HIDE DEF c
<1>7. EvalNode(Attr(Name("body"), "refund"), c) = summary
  BY <1>1, <1>3, <1>4, <1>5, <1>6, AttrValue, DictAttribute, NotNoKey DEF Then
<1>8. EvalNode(Attr(Attr(Name("body"), "refund"), f), c) = Field(summary, f)
  BY <1>1, <1>4, <1>5, <1>7, AttrValue, DictAttribute, NotNoKey DEF Then
<1> QED BY <1>2, <1>3, <1>8 DEF RefundField, c

(* args.amount.                                                            *)
LEMMA AmountValue ==
  ASSUME NEW body, NEW args, args[1] = "dict", Amount \in Node
  PROVE  EvalNode(Amount, ContextOf(body, args)) =
           IF Has(args, "amount") THEN Field(args, "amount") ELSE Raise("EvaluationError")
<1> DEFINE c == ContextOf(body, args)
<1>1. Attr(Name("args"), "amount") \in Node /\ Name("args") \in Node
  BY ShippedParts DEF Amount
<1>2. ~ IsRaise(args) BY DEF IsRaise
<1>3. EvalNode(Name("args"), c) = args BY <1>1, NamesOf
<1> HIDE DEF c
<1>4. EvalNode(Attr(Name("args"), "amount"), c) = EvalAttribute(args, "amount")
  BY <1>1, <1>2, <1>3, AttrValue, NotNoKey DEF Then
<1> QED BY <1>4, DictAttribute DEF Amount, c

(* A constant of the assertions.                                           *)
LEMMA ConstValue ==
  ASSUME NEW v, Const(v) \in Node, NEW c
  PROVE  EvalNode(Const(v), c) = v
<1>1. PICK n \in Node : n = Const(v) OBVIOUS
<1>2. n[1] = "Constant" /\ n[2] = v BY <1>1 DEF Const
<1> QED BY <1>1, <1>2, EvalLeaf

(* A read of an order shows whole, natural numbers.                        *)
LEMMA ReadNumbers ==
  ASSUME StoreInv, NEW o \in Order
  PROVE  /\ refunded[o] \in Nat /\ Cardinality(OrderRefunds(o)) \in Nat
         /\ status[o] \in OrderStatus
<1>1. IsFiniteSet(OrderRefunds(o)) BY FS_Subset DEF StoreInv, OrderRefunds
<1> QED BY <1>1, FS_CardinalityType DEF StoreInv, StoreTypeOK

(* RefundAsserts: what each assertion of issue_refund says of an order.    *)
LEMMA RefundAsserts ==
  ASSUME ComparesAsPython, PlainArguments, StoreInv,
         NEW k \in Key, IsRefund(k), NEW o \in Order,
         NEW c, c = ContextOf(JsonOrder(o), ArgsOf[k])
  PROVE  /\ DOMAIN IssueRefund.assert = 1 .. 3
         /\ Evaluate(IssueRefund.assert[1], c) = Bool(refunded[o] > 0)
         /\ Evaluate(IssueRefund.assert[2], c)
              \in {Bool(TRUE), Bool(FALSE), Raise("EvaluationError")}
         /\ refunded[o] > 0 =>
              (Evaluate(IssueRefund.assert[2], c) = Bool(TRUE) <=> refunded[o] = AmountOf[k])
         /\ Evaluate(IssueRefund.assert[3], c) = Bool(Cardinality(OrderRefunds(o)) = 1)
<1> DEFINE one == Cmp(RefundField("status"), "Eq", Const(Str("processed")))
           two == Cmp(RefundField("amount"), "Eq", Amount)
           three == Cmp(RefundField("count"), "Eq", Const(Integer(1)))
<1>1. /\ DOMAIN IssueRefund.assert = 1 .. 3
      /\ IssueRefund.assert[1] = one /\ IssueRefund.assert[2] = two
      /\ IssueRefund.assert[3] = three
  BY DEF IssueRefund
<1>2. \A i \in 1 .. 3 : /\ IssueRefund.assert[i] \in Node
                        /\ Evaluate(IssueRefund.assert[i], c)
                             = EvalNode(IssueRefund.assert[i], c)
  BY <1>1, ShippedAssumption DEF Evaluate
<1>3. /\ one \in Node /\ two \in Node /\ three \in Node
      /\ Evaluate(IssueRefund.assert[1], c) = EvalNode(one, c)
      /\ Evaluate(IssueRefund.assert[2], c) = EvalNode(two, c)
      /\ Evaluate(IssueRefund.assert[3], c) = EvalNode(three, c)
  BY <1>1, <1>2
<1>4. /\ RefundField("status") \in Node /\ RefundField("amount") \in Node
      /\ RefundField("count") \in Node /\ Amount \in Node
      /\ Const(Str("processed")) \in Node /\ Const(Integer(1)) \in Node
  BY <1>3, ShippedParts
<1>5. /\ RefundField("status") # NoKeyNode /\ RefundField("amount") # NoKeyNode
      /\ RefundField("count") # NoKeyNode /\ Amount # NoKeyNode
      /\ Const(Str("processed")) # NoKeyNode /\ Const(Integer(1)) # NoKeyNode
  BY NotNoKey DEF RefundField, Amount
<1>6. /\ EvalNode(RefundField("status"), c) =
           Str(IF refunded[o] > 0 THEN "processed" ELSE "none")
      /\ EvalNode(RefundField("amount"), c) = Float(refunded[o], 1)
      /\ EvalNode(RefundField("count"), c) = Integer(Cardinality(OrderRefunds(o)))
  BY <1>4, RefundFieldValue, OrderFields
<1>7. refunded[o] \in Nat /\ Cardinality(OrderRefunds(o)) \in Nat BY ReadNumbers
<1> HIDE DEF one, two, three
<1>8. EvalNode(one, c) = Bool(refunded[o] > 0)
  <2>1. PICK s : s = IF refunded[o] > 0 THEN "processed" ELSE "none" OBVIOUS
  <2>2. EqualTo(Str(s), Str("processed")) = (s = "processed") BY DEF ComparesAsPython
  <2>3. EvalNode(Const(Str("processed")), c) = Str("processed") BY <1>4, ConstValue
  <2>4. EvalNode(one, c) = Bool(EqualTo(Str(s), Str("processed")))
    <3>1. EqualTo(Str(s), Str("processed")) \in BOOLEAN BY <2>2
    <3> QED BY <1>3, <1>4, <1>5, <1>6, <2>1, <2>3, <3>1, EqualityOf, ValuesNotRaised DEF one
  <2>5. (s = "processed") = (refunded[o] > 0) BY <2>1
  <2> QED BY <2>2, <2>4, <2>5
<1>9. EvalNode(three, c) = Bool(Cardinality(OrderRefunds(o)) = 1)
  <2>1. PICK n \in Nat : n = Cardinality(OrderRefunds(o)) BY <1>7
  <2>2. Integer(n) \in Written(n) /\ Integer(1) \in Written(1) BY DEF Written
  <2>3. EqualTo(Integer(n), Integer(1)) = (n = 1)
    <3>1. n \in Int /\ 1 \in Int OBVIOUS
    <3> QED BY <2>2, <3>1 DEF ComparesAsPython
  <2>4. EvalNode(Const(Integer(1)), c) = Integer(1) BY <1>4, ConstValue
  <2>5. ~ IsRaise(Integer(n)) /\ ~ IsRaise(Integer(1)) BY <2>2, ValuesNotRaised
  <2>6. EvalNode(three, c) = Bool(EqualTo(Integer(n), Integer(1)))
    <3>1. EqualTo(Integer(n), Integer(1)) \in BOOLEAN BY <2>3
    <3> QED BY <1>3, <1>4, <1>5, <1>6, <2>1, <2>4, <2>5, <3>1, EqualityOf DEF three
  <2> QED BY <2>1, <2>3, <2>6
<1>10. /\ EvalNode(two, c) \in {Bool(TRUE), Bool(FALSE), Raise("EvaluationError")}
       /\ refunded[o] > 0 => (EvalNode(two, c) = Bool(TRUE) <=> refunded[o] = AmountOf[k])
  <2>1. PICK n \in Nat : n = refunded[o] BY <1>7
  <2>2. PICK a : a = Float(n, 1) OBVIOUS
  <2>3. n \in Int /\ a \in Written(n) /\ ~ IsRaise(a) BY <2>2, ValuesNotRaised DEF Written
  <2>4. PICK args : args = ArgsOf[k] OBVIOUS
  <2>5. args[1] = "dict" BY <2>4, ArgsAssumption
  <2>6. EvalNode(Amount, c) =
          IF Has(args, "amount") THEN Field(args, "amount") ELSE Raise("EvaluationError")
    BY <1>4, <2>4, <2>5, AmountValue
  <2>7. EvalNode(RefundField("amount"), c) = a BY <1>6, <2>1, <2>2
  <2>8. Bool(TRUE) # Bool(FALSE) /\ IsRaise(Raise("EvaluationError"))
        /\ Raise("EvaluationError") # Bool(TRUE)
    BY DEF Bool, IsRaise, Raise
  <2>9. CASE ~ Has(args, "amount")
    <3>1. EvalNode(two, c) = Raise("EvaluationError")
      BY <1>3, <1>4, <1>5, <2>3, <2>6, <2>7, <2>8, <2>9, EqualityOf DEF two
    <3>2. AmountOf[k] = 0 BY <2>4, <2>9, AmountRead
    <3>3. EvalNode(two, c) # Bool(TRUE) BY <2>8, <3>1
    <3>4. refunded[o] > 0 => refunded[o] # AmountOf[k] BY <3>2
    <3> QED BY <3>1, <3>3, <3>4
  <2>10. CASE Has(args, "amount")
    <3>1. PICK v : v = Field(args, "amount") OBVIOUS
    <3>2. EvalNode(Amount, c) = v BY <2>6, <2>10, <3>1
    <3>3. (\E m \in Int : v \in Written(m))
          \/ ~ (IsNumber(v) \/ v[1] = "str" \/ IsRaise(v))
      BY <2>4, <2>10, <3>1 DEF PlainArguments
    <3>4. ASSUME ~ IsRaise(v), EqualTo(a, v) \in BOOLEAN,
                 EqualTo(a, v) = TRUE <=> n = AmountOf[k] /\ IsNumber(v),
                 ~ IsNumber(v) => AmountOf[k] = 0
          PROVE  /\ EvalNode(two, c) \in {Bool(TRUE), Bool(FALSE), Raise("EvaluationError")}
                 /\ n > 0 => (EvalNode(two, c) = Bool(TRUE) <=> n = AmountOf[k])
      <4>1. EvalNode(two, c) = Bool(EqualTo(a, v))
        BY <1>3, <1>4, <1>5, <2>3, <2>7, <3>2, <3>4, EqualityOf DEF two
      <4>2. EqualTo(a, v) = TRUE \/ EqualTo(a, v) = FALSE BY <3>4
      <4>3. EvalNode(two, c) = Bool(TRUE) <=> EqualTo(a, v) = TRUE BY <2>8, <4>1, <4>2
      <4>4. EvalNode(two, c) \in {Bool(TRUE), Bool(FALSE)} BY <4>1, <4>2
      <4>5. n > 0 /\ n = AmountOf[k] => IsNumber(v) BY <3>4
      <4> QED BY <3>4, <4>3, <4>4, <4>5
    <3>5. CASE \E m \in Int : v \in Written(m)
      <4>1. PICK m \in Int : v \in Written(m) BY <3>5
      <4>2. EqualTo(a, v) = (n = m) BY <2>3, <4>1 DEF ComparesAsPython
      <4>3. AmountOf[k] = m BY <2>4, <2>10, <3>1, <4>1, AmountRead
      <4>4. ~ IsRaise(v) /\ IsNumber(v) BY <4>1, ValuesNotRaised
      <4> QED BY <2>1, <3>4, <4>2, <4>3, <4>4
    <3>6. CASE ~ (IsNumber(v) \/ v[1] = "str" \/ IsRaise(v))
      <4>1. EqualTo(a, v) = FALSE BY <2>3, <3>6 DEF ComparesAsPython
      <4>2. AmountOf[k] = 0 BY <2>4, <2>10, <3>1, <3>6, AmountRead
      <4> QED BY <2>1, <3>4, <3>6, <4>1, <4>2
    <3> QED BY <3>3, <3>5, <3>6
  <2> QED BY <2>9, <2>10
<1> QED BY <1>1, <1>3, <1>8, <1>9, <1>10

(* CancelAsserts: what the assertion of cancel_order says of an order.     *)
LEMMA CancelAsserts ==
  ASSUME ComparesAsPython, NEW o \in Order, NEW args,
         NEW c, c = ContextOf(JsonOrder(o), args)
  PROVE  /\ DOMAIN CancelOrderContract.assert = {1}
         /\ Evaluate(CancelOrderContract.assert[1], c) = Bool(status[o] = "CANCELLED")
<1> DEFINE one == Cmp(Attr(Name("body"), "status"), "Eq", Const(Str("CANCELLED")))
<1>1. DOMAIN CancelOrderContract.assert = {1} /\ CancelOrderContract.assert[1] = one
  BY DEF CancelOrderContract
<1>2. one \in Node /\ Evaluate(CancelOrderContract.assert[1], c) = EvalNode(one, c)
  BY <1>1, ShippedAssumption DEF Evaluate
<1>3. /\ Attr(Name("body"), "status") \in Node /\ Name("body") \in Node
      /\ Const(Str("CANCELLED")) \in Node
  BY <1>2, ShippedParts
<1>4. Attr(Name("body"), "status") # NoKeyNode /\ Const(Str("CANCELLED")) # NoKeyNode
      /\ Name("body") # NoKeyNode
  BY NotNoKey
<1>5. PICK body : body = JsonOrder(o) OBVIOUS
<1>6. body[1] = "dict" /\ Has(body, "status") /\ Field(body, "status") = Str(status[o])
  BY <1>5, OrderFields
<1>7. EvalNode(Name("body"), c) = body BY <1>3, <1>5, NamesOf
<1>8. EvalNode(Attr(Name("body"), "status"), c) = Str(status[o])
  <2>1. ~ IsRaise(body) BY <1>6 DEF IsRaise
  <2> QED BY <1>3, <1>4, <1>6, <1>7, <2>1, AttrValue, DictAttribute DEF Then
<1>9. EvalNode(Const(Str("CANCELLED")), c) = Str("CANCELLED") BY <1>3, ConstValue
<1>10. PICK s : s = status[o] OBVIOUS
<1>11. EqualTo(Str(s), Str("CANCELLED")) = (s = "CANCELLED") BY DEF ComparesAsPython
<1>12. EvalNode(one, c) = Bool(EqualTo(Str(s), Str("CANCELLED")))
  <2>1. EqualTo(Str(s), Str("CANCELLED")) \in BOOLEAN BY <1>11
  <2> QED BY <1>2, <1>3, <1>4, <1>8, <1>9, <1>10, <2>1, EqualityOf, ValuesNotRaised
<1> HIDE DEF one
<1> QED BY <1>1, <1>2, <1>10, <1>11, <1>12

(* Bool of a proposition.                                                  *)
LEMMA BoolOf ==
  ASSUME NEW b \in BOOLEAN
  PROVE  Bool(b) \in {Bool(TRUE), Bool(FALSE)} /\ (Bool(b) = Bool(TRUE) <=> b)
<1>1. Bool(TRUE) # Bool(FALSE) BY DEF Bool
<1>2. b = TRUE \/ b = FALSE OBVIOUS
<1> QED BY <1>1, <1>2

Values(asserts, c) == [i \in DOMAIN asserts |-> Evaluate(asserts[i], c)]

(* The values of a contract's assertions on an order.                      *)
LEMMA ShippedValues ==
  ASSUME ComparesAsPython, PlainArguments, StoreInv, NEW k \in Key, NEW o \in Order,
         NEW c, c = ContextOf(JsonOrder(o), ArgsOf[k])
  PROVE  LET v == Values(ContractOf(k).assert, c) IN
         /\ DOMAIN v \in SUBSET Nat
         /\ \A i \in DOMAIN v : v[i] \in {Bool(TRUE), Bool(FALSE), Raise("EvaluationError")}
         /\ (\A i \in DOMAIN v : v[i] = Bool(TRUE)) <=> Postcondition(k, OrderBody(o))
<1>1. PICK v : v = Values(ContractOf(k).assert, c) OBVIOUS
<1>2. /\ OrderBody(o).status = status[o] /\ OrderBody(o).refunded = refunded[o]
      /\ OrderBody(o).count = Cardinality(OrderRefunds(o))
  BY DEF OrderBody
<1>3. CASE IsRefund(k)
  <2>1. v = Values(IssueRefund.assert, c) BY <1>1, <1>3 DEF ContractOf
  <2>2. PICK b \in BOOLEAN : b = (refunded[o] > 0)
    <3>1. (refunded[o] > 0) \in BOOLEAN BY ReadNumbers
    <3> QED BY <3>1, Zenon
  <2>3. PICK d \in BOOLEAN : d = (Cardinality(OrderRefunds(o)) = 1) OBVIOUS
  <2>4. /\ DOMAIN IssueRefund.assert = 1 .. 3
        /\ Evaluate(IssueRefund.assert[1], c) = Bool(b)
        /\ Evaluate(IssueRefund.assert[2], c)
             \in {Bool(TRUE), Bool(FALSE), Raise("EvaluationError")}
        /\ b => (Evaluate(IssueRefund.assert[2], c) = Bool(TRUE) <=> refunded[o] = AmountOf[k])
        /\ Evaluate(IssueRefund.assert[3], c) = Bool(d)
    BY <1>3, <2>2, <2>3, RefundAsserts
  <2>5. /\ DOMAIN v = 1 .. 3 /\ v[1] = Bool(b) /\ v[3] = Bool(d)
        /\ v[2] \in {Bool(TRUE), Bool(FALSE), Raise("EvaluationError")}
        /\ b => (v[2] = Bool(TRUE) <=> refunded[o] = AmountOf[k])
    <3>1. 1 \in 1 .. 3 /\ 2 \in 1 .. 3 /\ 3 \in 1 .. 3 OBVIOUS
    <3>2. DOMAIN v = 1 .. 3 /\ \A i \in 1 .. 3 : v[i] = Evaluate(IssueRefund.assert[i], c)
      BY <2>1, <2>4 DEF Values
    <3>3. /\ v[1] = Evaluate(IssueRefund.assert[1], c)
          /\ v[2] = Evaluate(IssueRefund.assert[2], c)
          /\ v[3] = Evaluate(IssueRefund.assert[3], c)
      BY <3>1, <3>2
    <3> QED BY <2>4, <3>2, <3>3
  <2>6. Postcondition(k, OrderBody(o)) <=> b /\ refunded[o] = AmountOf[k] /\ d
    BY <1>2, <1>3, <2>2, <2>3 DEF Postcondition
  <2>7. /\ v[1] \in {Bool(TRUE), Bool(FALSE)} /\ v[3] \in {Bool(TRUE), Bool(FALSE)}
        /\ v[1] = Bool(TRUE) <=> b
        /\ v[3] = Bool(TRUE) <=> d
    BY <2>5, BoolOf
  <2>8. \A i : i \in DOMAIN v <=> i = 1 \/ i = 2 \/ i = 3 BY <2>5
  <2>9. (\A i \in DOMAIN v : v[i] = Bool(TRUE)) <=>
          v[1] = Bool(TRUE) /\ v[2] = Bool(TRUE) /\ v[3] = Bool(TRUE)
    BY <2>8
  <2>10. \A i \in DOMAIN v : i \in Nat BY <2>8
  <2>11. (\A i \in DOMAIN v : v[i] = Bool(TRUE)) <=> Postcondition(k, OrderBody(o))
    BY <2>5, <2>6, <2>7, <2>9
  <2>12. \A i \in DOMAIN v : v[i] \in {Bool(TRUE), Bool(FALSE), Raise("EvaluationError")}
    BY <2>5, <2>7, <2>8
  <2> QED BY <1>1, <2>10, <2>11, <2>12
<1>4. CASE ~ IsRefund(k)
  <2>1. v = Values(CancelOrderContract.assert, c) BY <1>1, <1>4 DEF ContractOf
  <2>2. PICK b \in BOOLEAN : b = (status[o] = "CANCELLED") OBVIOUS
  <2>3. /\ DOMAIN CancelOrderContract.assert = {1}
        /\ Evaluate(CancelOrderContract.assert[1], c) = Bool(b)
    BY <2>2, CancelAsserts
  <2>4. DOMAIN v = {1} /\ v[1] = Bool(b) BY <2>1, <2>3 DEF Values
  <2>5. Postcondition(k, OrderBody(o)) <=> b
    BY <1>2, <1>4, <2>2 DEF Postcondition
  <2>6. v[1] \in {Bool(TRUE), Bool(FALSE)} /\ (v[1] = Bool(TRUE) <=> b)
    BY <2>4, BoolOf
  <2>7. DOMAIN v \in SUBSET Nat BY <2>4
  <2>8. \A i \in DOMAIN v : v[i] \in {Bool(TRUE), Bool(FALSE), Raise("EvaluationError")}
    BY <2>4, <2>6
  <2>9. (\A i \in DOMAIN v : v[i] = Bool(TRUE)) <=> Postcondition(k, OrderBody(o))
    BY <2>4, <2>5, <2>6
  <2> QED BY <1>1, <2>7, <2>8, <2>9
<1> QED BY <1>3, <1>4

(* PostconditionIs: the outcome of a contract's assertions is the          *)
(* postcondition of Contracts, and no exception leaves them.               *)
LEMMA PostconditionIs ==
  ASSUME ComparesAsPython, PlainArguments, StoreInv, NEW k \in Key, NEW o \in Order
  PROVE  LET outcome == EvaluatePostcondition(ContractOf(k).assert,
                                              ContextOf(JsonOrder(o), ArgsOf[k]))
         IN /\ outcome = Passed <=> Postcondition(k, OrderBody(o))
            /\ outcome = Passed \/ \E i : outcome = FailedAt(i)
<1>1. PICK c : c = ContextOf(JsonOrder(o), ArgsOf[k]) OBVIOUS
<1>2. PICK asserts : asserts = ContractOf(k).assert OBVIOUS
<1>3. \A i : FailedAt(i) # Passed
  BY DEF FailedAt, Passed
<1>4. PICK v : v = Values(asserts, c) OBVIOUS
<1>5. /\ DOMAIN v \in SUBSET Nat
      /\ \A i \in DOMAIN v : v[i] \in {Bool(TRUE), Bool(FALSE), Raise("EvaluationError")}
      /\ (\A i \in DOMAIN v : v[i] = Bool(TRUE)) <=> Postcondition(k, OrderBody(o))
  BY <1>1, <1>2, <1>4, ShippedValues
<1>6. DOMAIN v = DOMAIN asserts /\ \A i \in DOMAIN v : v[i] = Evaluate(asserts[i], c)
  BY <1>4 DEF Values
<1>7. IF \A i \in DOMAIN asserts : Evaluate(asserts[i], c) = Bool(TRUE)
      THEN EvaluatePostcondition(asserts, c) = Passed
      ELSE \E i \in DOMAIN asserts : EvaluatePostcondition(asserts, c) = FailedAt(i)
  <2>1. \A i \in DOMAIN asserts : Evaluate(asserts[i], c) \in
           {Bool(TRUE), Bool(FALSE), Raise("EvaluationError")}
    BY <1>5, <1>6
  <2>2. DOMAIN asserts \in SUBSET Nat BY <1>5, <1>6
  <2> QED BY <2>1, <2>2, OutcomeOf
<1> QED BY <1>1, <1>2, <1>3, <1>5, <1>6, <1>7

(* PartialIs: what the heuristic finds in an order's body.                 *)
LEMMA PartialIs ==
  ASSUME ComparesAsPython, StoreInv, NEW k \in Key, NEW o \in Order
  PROVE  LET partial == DetectPartialEffectIn(JsonOrder(o), ContractOf(k).name)
         IN /\ ~ IsRaise(partial)
            /\ IsTrue(partial) <=> DetectPartialEffect(k, OrderBody(o))
<1>1. PICK body : body = JsonOrder(o) OBVIOUS
<1>2. PICK n \in Nat : n = Cardinality(OrderRefunds(o)) BY ReadNumbers
<1>3. PICK m \in Nat : m = refunded[o] BY ReadNumbers
<1>4. DetectPartialEffect(k, OrderBody(o)) <=> IsRefund(k) /\ (n > 0 \/ m > 0)
  BY <1>2, <1>3 DEF DetectPartialEffect, OrderBody
<1>5. CASE ~ IsRefund(k)
  <2>1. ContractOf(k).name = "cancel_order"
    BY <1>5 DEF ContractOf, CancelOrderContract
  <2>2. DetectPartialEffectIn(body, "cancel_order") = Bool(FALSE)
    BY DEF DetectPartialEffectIn
  <2> QED BY <1>1, <1>4, <1>5, <2>1, <2>2, BooleanValues
<1>6. CASE IsRefund(k)
  <2>1. ContractOf(k).name = "issue_refund" BY <1>6 DEF ContractOf, IssueRefund
  <2>2. PICK summary : summary = Field(body, "refund") OBVIOUS
  <2>3. PICK listed : listed = List([i \in 1 .. n |-> Object(<<>>)]) OBVIOUS
  <2>4. /\ GetOr(body, "refund", None) = summary /\ summary[1] = "dict"
        /\ GetOr(summary, "count", Integer(0)) = Integer(n)
        /\ GetOr(body, "refunds", None) = listed
        /\ GetOr(body, "refunded_amount", Integer(0)) = Float(m, 1)
    BY <1>1, <1>2, <1>3, <2>2, <2>3, OrderFields DEF GetOr
  <2>5. 0 \in Int /\ n \in Int /\ m \in Int OBVIOUS
  <2>6. /\ Integer(0) \in Written(0) /\ Integer(n) \in Written(n) /\ Float(m, 1) \in Written(m)
    BY DEF Written
  <2>7. LessThan(Integer(0), Integer(n)) = Bool(0 < n)
        /\ LessThan(Integer(0), Float(m, 1)) = Bool(0 < m)
    BY <2>5, <2>6 DEF ComparesAsPython
  <2>8. PICK b \in BOOLEAN : b = (0 < n)
    <3>1. (0 < n) \in BOOLEAN OBVIOUS
    <3> QED BY <3>1, Zenon
  <2>9. PICK d \in BOOLEAN : d = (0 < m)
    <3>1. (0 < m) \in BOOLEAN OBVIOUS
    <3> QED BY <3>1, Zenon
  <2>10. PyFloat(Float(m, 1)) = Float(m, 1)
    <3>1. PICK f : f = <<"float", m, 1>> OBVIOUS
    <3>2. f[1] = "float" /\ f[2] = m /\ f[3] = 1 BY <3>1
    <3>3. PyFloat(f) = Float(m, 1) BY <3>2 DEF PyFloat, IsNumber, Numerator, Denominator
    <3> QED BY <3>1, <3>3, <2>5, WholeFloat
  <2>11. ~ IsRaise(Float(m, 1)) BY <2>5, <2>6, ValuesNotRaised
  <2>12. listed[1] = "list" /\ (~ b => ~ Truthy(listed))
    <3>1. listed[1] = "list" /\ listed[2] = [i \in 1 .. n |-> Object(<<>>)]
      BY <2>3 DEF List
    <3>2. ASSUME ~ b PROVE listed[2] = <<>>
      <4>1. 1 .. n = {}
        <5>1. ~ (0 < n) BY <2>8, <3>2, Zenon
        <5>2. n = 0 BY <5>1
        <5> QED BY <5>2
      <4>2. DOMAIN listed[2] = {} BY <3>1, <4>1
      <4> QED BY <3>1, <4>1, <4>2
    <3>3. Truthy(listed) <=> listed[2] # <<>> BY <3>1 DEF Truthy, IsNumber, IsSequence
    <3> QED BY <3>1, <3>2, <3>3
  <2>13. PICK partial : partial = DetectPartialEffectIn(body, "issue_refund") OBVIOUS
  <2>14. partial =
           IF IsRaise(Bool(b)) \/ IsTrue(Bool(b)) THEN Bool(b)
           ELSE IF listed[1] = "list" /\ Truthy(listed) THEN Bool(TRUE)
           ELSE Then(Float(m, 1), LAMBDA moved : LessThan(Integer(0), moved))
    BY <2>4, <2>7, <2>8, <2>10, <2>13 DEF DetectPartialEffectIn
  <2>15. Then(Float(m, 1), LAMBDA moved : LessThan(Integer(0), moved)) = Bool(d)
    BY <2>7, <2>9, <2>11 DEF Then
  <2>16. partial = IF b THEN Bool(TRUE) ELSE Bool(d)
    BY <2>12, <2>14, <2>15, BooleanValues
  <2>17. ~ IsRaise(partial) /\ (IsTrue(partial) <=> b \/ d)
    BY <2>16, BooleanValues
  <2> QED BY <1>1, <1>4, <1>6, <2>1, <2>8, <2>9, <2>13, <2>17
<1> QED BY <1>5, <1>6

(* VerdictIs: the verdict on an order's body.                              *)
LEMMA VerdictIs ==
  ASSUME ComparesAsPython, PlainArguments, StoreInv, NEW k \in Key, NEW o \in Order
  PROVE  VerdictOn(JsonOrder(o), ContractOf(k), ArgsOf[k]) = JudgeBody(k, OrderBody(o))
<1>1. PICK body : body = JsonOrder(o) OBVIOUS
<1>2. PICK outcome : outcome = EvaluatePostcondition(ContractOf(k).assert,
                                                     ContextOf(body, ArgsOf[k]))
  OBVIOUS
<1>3. PICK partial : partial = DetectPartialEffectIn(body, ContractOf(k).name) OBVIOUS
<1>4. body[1] = "dict" BY <1>1, OrderFields
<1>5. /\ outcome = Passed <=> Postcondition(k, OrderBody(o))
      /\ outcome = Passed \/ \E i : outcome = FailedAt(i)
  BY <1>1, <1>2, PostconditionIs
<1>6. outcome[1] # "escaped" BY <1>5 DEF Passed, FailedAt
<1>7. ~ IsRaise(partial) /\ (IsTrue(partial) <=> DetectPartialEffect(k, OrderBody(o)))
  BY <1>1, <1>3, PartialIs
<1>8. VerdictOn(body, ContractOf(k), ArgsOf[k]) =
        IF outcome = Passed THEN "VERIFIED"
        ELSE IF IsTrue(partial) THEN "COMPENSATING" ELSE "FAILED"
  BY <1>2, <1>3, <1>4, <1>6, <1>7 DEF VerdictOn, Decide
<1> QED BY <1>1, <1>5, <1>7, <1>8 DEF JudgeBody

-----------------------------------------------------------------------------
(* What {args.order_id} stands for.                                        *)
LEMMA OrderIdValue ==
  ASSUME PlainArguments, NEW k \in Key
  PROVE  LET v == Variable(<<"args", "order_id">>, ArgsOf[k], None, None) IN
         IF OrderOf[k] = Missing THEN IsRaise(v)
         ELSE \E s : v = Str(s) /\ OrderOf[k] = IF s \in Order THEN s ELSE Absent
<1>1. PICK args : args = ArgsOf[k] OBVIOUS
<1>2. PICK names : names = <<"args", "order_id">> OBVIOUS
<1>3. PICK v : v = Variable(names, args, None, None) OBVIOUS
<1>4. Len(names) = 2 /\ names[1] = "args" /\ Tail(names) = <<"order_id">> BY <1>2
<1>5. v = Walk(args, <<"order_id">>)
  <2>1. names # <<"downstream_ref">> /\ names # <<"resource_key">>
    <3>1. Len(<<"downstream_ref">>) = 1 /\ Len(<<"resource_key">>) = 1 OBVIOUS
    <3> QED BY <1>4, <3>1
  <2>2. Len(names) > 1 /\ Len(names) # 1 BY <1>4
  <2>3. Variable(names, args, None, None) = Lookup(Tail(names), args)
    BY <1>4, <2>1, <2>2 DEF Variable
  <2> QED BY <1>3, <1>4, <2>3 DEF Lookup
<1>6. v = Entry(args, "order_id") BY <1>5, WalkOne
<1>7. /\ args[1] = "dict"
      /\ OrderOf[k] = IF ~ Has(args, "order_id") THEN Missing
                      ELSE IF Field(args, "order_id")[2] \in Order
                           THEN Field(args, "order_id")[2] ELSE Absent
  BY <1>1, ArgsAssumption
<1>8. Missing \notin Order /\ Missing # Absent BY OrderAssumption DEF Missing, Absent
<1>9. CASE ~ Has(args, "order_id")
  <2>1. v = Raise("TemplateSubstitutionError") BY <1>6, <1>9 DEF Entry, Has
  <2>2. IsRaise(v) BY <2>1 DEF IsRaise, Raise
  <2> QED BY <1>1, <1>2, <1>3, <1>7, <1>9, <2>2
<1>10. CASE Has(args, "order_id")
  <2>1. v = Field(args, "order_id") BY <1>6, <1>7, <1>10 DEF Entry, Has, Field
  <2>2. PICK s : Field(args, "order_id") = Str(s) BY <1>1, <1>10 DEF PlainArguments
  <2>3. Str(s)[2] = s BY DEF Str
  <2>4. OrderOf[k] = IF s \in Order THEN s ELSE Absent BY <1>7, <1>10, <2>2, <2>3
  <2>5. OrderOf[k] # Missing BY <1>8, <2>4
  <2> QED BY <1>1, <1>2, <1>3, <2>1, <2>2, <2>4, <2>5
<1> QED BY <1>9, <1>10

(* SubstituteIs: the path of a template whose only variable is the order's *)
(* id, v what that stands for.                                             *)
LEMMA SubstituteIs ==
  ASSUME NEW t, NEW args, DOMAIN t \in SUBSET Nat, NEW v,
         v = Variable(<<"args", "order_id">>, args, None, None),
         \A i \in DOMAIN t : t[i][1] = "text" \/ t[i] = OrderId
  PROVE  /\ (\E i \in DOMAIN t : t[i] = OrderId) /\ IsRaise(v)
            => IsRaise(SubstitutePath(t, args, None, None))
         /\ (\A i \in DOMAIN t : t[i] # OrderId) \/ ~ IsRaise(v)
            => SubstitutePath(t, args, None, None) =
                 <<"path", [i \in DOMAIN t |-> IF t[i][1] = "text" THEN t[i][2] ELSE StrOf(v)]>>
<1> DEFINE values == [i \in DOMAIN t |->
                        IF t[i][1] = "text" THEN Str(t[i][2])
                        ELSE Variable(t[i][2], args, None, None)]
           raised == {i \in DOMAIN values : IsRaise(values[i])}
<1>1. SubstitutePath(t, args, None, None) =
        IF raised # {} THEN values[Min(raised)]
        ELSE <<"path", [i \in DOMAIN values |-> StrOf(values[i])]>>
  BY DEF SubstitutePath
<1>2. OrderId[1] = "var" /\ OrderId[2] = <<"args", "order_id">> BY DEF OrderId
<1>3. \A i \in DOMAIN t : /\ t[i][1] = "text" => values[i] = Str(t[i][2])
                          /\ t[i] = OrderId => values[i] = v
  BY <1>2
<1>4. \A s : ~ IsRaise(Str(s)) /\ StrOf(Str(s)) = s
  <2>1. \A s : Str(s)[1] = "str" /\ Str(s)[2] = s BY DEF Str
  <2> QED BY <2>1, ValuesNotRaised DEF StrOf
<1>5. raised \in SUBSET Nat /\ raised \subseteq DOMAIN t /\ DOMAIN values = DOMAIN t
  OBVIOUS
<1>6. \A i \in DOMAIN t : i \in raised <=> IsRaise(values[i]) OBVIOUS
<1> HIDE DEF values, raised
<1>7. ASSUME NEW i \in DOMAIN t, t[i] = OrderId, IsRaise(v)
      PROVE  IsRaise(SubstitutePath(t, args, None, None))
  <2>1. i \in raised BY <1>3, <1>6, <1>7
  <2>2. Min(raised) \in raised BY <1>5, <2>1, MinIsMember
  <2>3. PICK j \in DOMAIN t : j = Min(raised) /\ IsRaise(values[j]) BY <1>5, <1>6, <2>2
  <2> QED BY <1>1, <2>1, <2>3
<1>8. ASSUME (\A i \in DOMAIN t : t[i] # OrderId) \/ ~ IsRaise(v)
      PROVE  SubstitutePath(t, args, None, None) =
               <<"path", [i \in DOMAIN t |-> IF t[i][1] = "text" THEN t[i][2] ELSE StrOf(v)]>>
  <2>1. \A i \in DOMAIN t : ~ IsRaise(values[i]) BY <1>3, <1>4, <1>8
  <2>2. raised = {} BY <1>5, <1>6, <2>1
  <2>3. \A i \in DOMAIN t : StrOf(values[i]) = IF t[i][1] = "text" THEN t[i][2] ELSE StrOf(v)
    BY <1>3, <1>4
  <2>4. [i \in DOMAIN values |-> StrOf(values[i])] =
          [i \in DOMAIN t |-> IF t[i][1] = "text" THEN t[i][2] ELSE StrOf(v)]
    BY <1>5, <2>3
  <2> QED BY <1>1, <2>2, <2>4
<1> QED BY <1>7, <1>8

(* ReadPathIs: the read of the order: 404 when there is none of that name. *)
LEMMA ReadPathIs ==
  ASSUME PlainArguments, NEW k \in Key
  PROVE  LET path == SubstitutePath(ParseReadSpec(ReadOrder).path, ArgsOf[k], None, None) IN
         IF OrderOf[k] = Missing THEN IsRaise(path)
         ELSE /\ ~ IsRaise(path)
              /\ GetOrder(path[2]) = IF OrderOf[k] \in Order
                                     THEN [status |-> 200, body |-> JsonOrder(OrderOf[k])]
                                     ELSE [status |-> 404, body |-> None]
<1>1. PICK args : args = ArgsOf[k] OBVIOUS
<1>2. PICK v : v = Variable(<<"args", "order_id">>, args, None, None) OBVIOUS
<1>3. PICK t : t = <<<<"text", "/orders/">>, OrderId>> OBVIOUS
<1>4. PICK path : path = SubstitutePath(ParseReadSpec(ReadOrder).path, args, None, None)
  OBVIOUS
<1>5. ParseReadSpec(ReadOrder).path = t
  <2>1. PICK spec : spec = ReadOrder OBVIOUS
  <2>2. Len(spec) = 3 /\ spec[1] = <<"word", "GET">> /\ Tail(spec) = t
    BY <1>3, <2>1 DEF ReadOrder
  <2>3. /\ spec[1][1] = "word" /\ spec[1][2] = "GET" /\ Len(spec) > 1
        /\ spec[1][2] \in {"GET", "POST", "PUT", "DELETE", "PATCH", "HEAD"}
    BY <2>2
  <2>4. ParseReadSpec(spec) = [method |-> spec[1][2], path |-> Tail(spec)]
    BY <2>3, Zenon DEF ParseReadSpec
  <2> QED BY <2>1, <2>2, <2>4
<1>6. /\ DOMAIN t = {1, 2} /\ t[1] = <<"text", "/orders/">> /\ t[2] = OrderId
      /\ OrderId[1] = "var"
  BY <1>3 DEF OrderId
<1>7. /\ IsRaise(v) => IsRaise(path)
      /\ ~ IsRaise(v) =>
           path = <<"path", [i \in DOMAIN t |-> IF t[i][1] = "text" THEN t[i][2] ELSE StrOf(v)]>>
  <2>1. DOMAIN t \in SUBSET Nat BY <1>6
  <2>2. \A i \in DOMAIN t : t[i][1] = "text" \/ t[i] = OrderId BY <1>6
  <2>3. t[2] = OrderId /\ 2 \in DOMAIN t BY <1>6
  <2> QED BY <1>2, <1>4, <1>5, <2>1, <2>2, <2>3, SubstituteIs
<1>8. IF OrderOf[k] = Missing THEN IsRaise(v)
      ELSE \E s : v = Str(s) /\ OrderOf[k] = IF s \in Order THEN s ELSE Absent
  BY <1>1, <1>2, OrderIdValue
<1>9. CASE OrderOf[k] = Missing BY <1>1, <1>4, <1>7, <1>8, <1>9
<1>10. CASE OrderOf[k] # Missing
  <2>1. PICK s : v = Str(s) /\ OrderOf[k] = IF s \in Order THEN s ELSE Absent
    BY <1>8, <1>10
  <2>2. ~ IsRaise(v) /\ StrOf(v) = s
    <3>1. v[1] = "str" /\ v[2] = s BY <2>1 DEF Str
    <3> QED BY <3>1 DEF IsRaise, StrOf
  <2>3. PICK parts : parts = [i \in DOMAIN t |-> IF t[i][1] = "text" THEN t[i][2] ELSE s]
    OBVIOUS
  <2>4. path = <<"path", parts>> BY <1>7, <2>2, <2>3
  <2>5. path[1] = "path" /\ path[2] = parts BY <2>4
  <2>6. ~ IsRaise(path) BY <2>5 DEF IsRaise
  <2>7. parts = <<"/orders/", s>>
    <3>1. DOMAIN parts = {1, 2} /\ parts[1] = "/orders/" /\ parts[2] = s BY <1>6, <2>3
    <3>2. parts = [i \in 1 .. 2 |-> parts[i]]
      <4>1. 1 .. 2 = {1, 2} OBVIOUS
      <4> QED BY <2>3, <3>1, <4>1
    <3> QED BY <3>1, <3>2
  <2>8. parts[1] = "/orders/" /\ parts[2] = s /\ Len(parts) = 2 BY <2>7
  <2>9. GetOrder(parts) = IF s \in Order THEN [status |-> 200, body |-> JsonOrder(s)]
                          ELSE [status |-> 404, body |-> None]
    BY <2>8 DEF GetOrder
  <2>10. s \in Order <=> OrderOf[k] \in Order BY <2>1, OrderAssumption
  <2>11. s \in Order => s = OrderOf[k] BY <2>1
  <2> QED BY <1>1, <1>4, <1>10, <2>5, <2>6, <2>9, <2>10, <2>11
<1> QED BY <1>9, <1>10

(* CallPathIs: the path of the call.                                       *)
LEMMA CallPathIs ==
  ASSUME PlainArguments, NEW k \in Key
  PROVE  ResolvesPath(k) <=> ~ IsRaise(SubstitutePath(ContractOf(k).path, ArgsOf[k], None, None))
<1>1. PICK args : args = ArgsOf[k] OBVIOUS
<1>2. PICK v : v = Variable(<<"args", "order_id">>, args, None, None) OBVIOUS
<1>3. PICK t : t = ContractOf(k).path OBVIOUS
<1>4. PICK path : path = SubstitutePath(t, args, None, None) OBVIOUS
<1>5. OrderId[1] = "var" BY DEF OrderId
<1>6. \A parts : ~ IsRaise(<<"path", parts>>) BY DEF IsRaise
<1>7. CASE IsRefund(k)
  <2>1. t = <<<<"text", "/refunds">>>> BY <1>3, <1>7 DEF ContractOf, IssueRefund
  <2>2. DOMAIN t = {1} /\ t[1][1] = "text" BY <2>1
  <2>3. DOMAIN t \in SUBSET Nat /\ \A i \in DOMAIN t : t[i][1] = "text" /\ t[i] # OrderId
    BY <1>5, <2>2
  <2>4. path = <<"path", [i \in DOMAIN t |-> IF t[i][1] = "text" THEN t[i][2] ELSE StrOf(v)]>>
    BY <1>2, <1>4, <2>3, SubstituteIs
  <2>5. ~ IsRaise(path) BY <1>6, <2>4
  <2> QED BY <1>1, <1>3, <1>4, <1>7, <2>5 DEF ResolvesPath
<1>8. CASE ~ IsRefund(k)
  <2>1. t = <<<<"text", "/orders/">>, OrderId, <<"text", "/cancel">>>>
    BY <1>3, <1>8 DEF ContractOf, CancelOrderContract
  <2>2. DOMAIN t = {1, 2, 3} /\ t[1][1] = "text" /\ t[2] = OrderId /\ t[3][1] = "text"
    BY <2>1
  <2>3. DOMAIN t \in SUBSET Nat /\ (\A i \in DOMAIN t : t[i][1] = "text" \/ t[i] = OrderId)
        /\ 2 \in DOMAIN t
    BY <2>2
  <2>4. /\ IsRaise(v) => IsRaise(path)
        /\ ~ IsRaise(v) =>
             path = <<"path", [i \in DOMAIN t |-> IF t[i][1] = "text" THEN t[i][2] ELSE StrOf(v)]>>
    BY <1>2, <1>4, <2>2, <2>3, SubstituteIs
  <2>5. IsRaise(path) <=> IsRaise(v) BY <1>6, <2>4
  <2>6. IsRaise(v) <=> OrderOf[k] = Missing
    BY <1>1, <1>2, OrderIdValue, ValuesNotRaised
  <2> QED BY <1>1, <1>3, <1>4, <1>8, <2>5, <2>6 DEF ResolvesPath
<1> QED BY <1>7, <1>8

(* VerdictsAgreeIn: the two verdicts agree on any well-typed store.        *)
LEMMA VerdictsAgreeIn ==
  ASSUME ComparesAsPython, PlainArguments, StoreInv
  PROVE  VerdictAgrees
<1> SUFFICES ASSUME NEW k \in Key
             PROVE  VerifyPostcondition(ContractOf(k), ArgsOf[k]) =
                      IF OrderOf[k] = Missing THEN "UNKNOWN"
                      ELSE Judge(k, OrderStatusCode(OrderOf[k]),
                                 IF OrderOf[k] \in Order THEN OrderBody(OrderOf[k]) ELSE None)
  BY CallPathIs DEF VerdictAgrees
<1>1. PICK contract : contract = ContractOf(k) OBVIOUS
<1>2. PICK path : path = SubstitutePath(ParseReadSpec(ReadOrder).path, ArgsOf[k], None, None)
  OBVIOUS
<1>3. contract.read = ReadOrder
  BY <1>1 DEF ContractOf, IssueRefund, CancelOrderContract
<1>4. IF OrderOf[k] = Missing THEN IsRaise(path)
      ELSE /\ ~ IsRaise(path)
           /\ GetOrder(path[2]) = IF OrderOf[k] \in Order
                                  THEN [status |-> 200, body |-> JsonOrder(OrderOf[k])]
                                  ELSE [status |-> 404, body |-> None]
  BY <1>2, ReadPathIs
<1>5. CASE OrderOf[k] = Missing
  BY <1>1, <1>2, <1>3, <1>4, <1>5 DEF VerifyPostcondition
<1>6. CASE OrderOf[k] # Missing /\ OrderOf[k] \notin Order
  <2>1. GetOrder(path[2]).status = 404 BY <1>4, <1>6
  <2>2. VerifyPostcondition(contract, ArgsOf[k]) = "FAILED"
    BY <1>2, <1>3, <1>4, <1>6, <2>1 DEF VerifyPostcondition
  <2> QED BY <1>1, <1>6, <2>2 DEF Judge, OrderStatusCode
<1>7. CASE OrderOf[k] \in Order
  <2>1. OrderOf[k] # Missing BY <1>7, OrderAssumption
  <2>2. PICK o \in Order : o = OrderOf[k] BY <1>7
  <2>3. GetOrder(path[2]).status = 200 /\ GetOrder(path[2]).body = JsonOrder(o)
    BY <1>4, <2>1, <2>2
  <2>4. 200 \in 200 .. 299 /\ 200 # 404 OBVIOUS
  <2>5. VerifyPostcondition(contract, ArgsOf[k]) = VerdictOn(JsonOrder(o), contract, ArgsOf[k])
    BY <1>2, <1>3, <1>4, <2>1, <2>3, <2>4 DEF VerifyPostcondition
  <2>6. VerdictOn(JsonOrder(o), contract, ArgsOf[k]) = JudgeBody(k, OrderBody(o))
    BY <1>1, VerdictIs
  <2> QED BY <1>1, <2>1, <2>2, <2>4, <2>5, <2>6 DEF Judge, OrderStatusCode
<1> QED BY <1>5, <1>6, <1>7

(* VerdictsAgree: through every call, fault profile and reset, the verdict *)
(* that the contract file's text, the template, the evaluator and the JSON *)
(* body lead to is the one that the gateway model takes, and no exception. *)
THEOREM VerdictsAgree ==
  ASSUME ComparesAsPython, PlainArguments
  PROVE  Spec => []VerdictAgrees
<1>1. StoreInv /\ StatusFollowsMoney => VerdictAgrees BY VerdictsAgreeIn
<1> QED BY <1>1, ServiceInvariant, PTL

-----------------------------------------------------------------------------
(***************************************************************************)
(* A clean refund.  A key is processed by a call that credits its amount;  *)
(* if it has one record afterwards, that call wrote it, and if the order   *)
(* has no other, nothing else was ever credited.                           *)
(***************************************************************************)
Alone(k) ==
  /\ k \in processed
  /\ OrderRefunds(OrderOf[k]) = RefundsOf(k) /\ Cardinality(RefundsOf(k)) = 1

CreditedOnce(k) ==
  OrderOf[k] \in Order /\ AmountOf[k] > 0 /\ refunded[OrderOf[k]] = AmountOf[k]

CleanInv ==
  /\ StoreInv /\ Numbered /\ StoreAccount
  /\ \A k \in processed : Alone(k) => CreditedOnce(k)

(* ProcessedStays: of a key already processed nothing changes while it is  *)
(* alone on its order.                                                     *)
LEMMA ProcessedStays ==
  ASSUME CleanInv, NEW j \in Key, NEW profile, NEW response \in Response,
         Mutate(profile, j, response), NEW k \in processed, Alone(k)'
  PROVE  CreditedOnce(k)'
<1> USE DEF CleanInv
<1>1. k \in Key BY DEF StoreInv, StoreTypeOK
<1>2. OnlyAdds(j) BY MutateOnlyAdds
<1>3. /\ RefundsOf(k) \subseteq RefundsOf(k)' /\ RefundsOf(k) # {}
      /\ OrderRefunds(OrderOf[k]) \subseteq OrderRefunds(OrderOf[k])'
      /\ OrderRefunds(OrderOf[k])' = RefundsOf(k)' /\ Cardinality(RefundsOf(k)') = 1
      /\ RefundsOf(k) \subseteq OrderRefunds(OrderOf[k])
  BY <1>1, <1>2, RecordsKept DEF StoreAccount, Alone, RefundsOf, OrderRefunds
<1>4. OrderOf[k] \in Order BY <1>1, <1>3 DEF StoreAccount
<1>5. RefundsOf(k)' = RefundsOf(k)
  <2>1. CASE j = k BY <1>2, <2>1 DEF OnlyAdds, RefundsOf
  <2>2. CASE j # k BY <1>1, <1>2, <2>2, RecordsKept
  <2> QED BY <2>1, <2>2
<1>6. Alone(k) BY <1>3, <1>5 DEF Alone
<1>7. refunded'[OrderOf[k]] = refunded[OrderOf[k]]
  <2>1. CASE j = k
    <3>1. UNCHANGED refunded
      BY <2>1 DEF Mutate, CreateRefund, CancelOrder, Remembered, storeVars
    <3> QED BY <3>1
  <2>2. CASE j # k
    <3>1. SUFFICES ASSUME OrderOf[j] = OrderOf[k], RefundsOf(j)' # {} PROVE FALSE
      BY <1>2, <1>4 DEF OnlyAdds
    <3>2. PICK r \in refunds' : r.key = j BY <3>1 DEF RefundsOf
    <3>3. r \in OrderRefunds(OrderOf[k])' BY <3>1, <3>2 DEF OrderRefunds
    <3>4. r.key = k BY <1>3, <3>3 DEF RefundsOf
    <3> QED BY <2>2, <3>2, <3>4
  <2> QED BY <2>1, <2>2
<1> QED BY <1>4, <1>6, <1>7 DEF CreditedOnce

(* ProcessedNow: the call that processes a key and leaves it one record    *)
(* alone on its order wrote that record and credited its amount once.      *)
LEMMA ProcessedNow ==
  ASSUME CleanInv, NEW k \in Key, NEW profile, NEW response,
         Mutate(profile, k, response), k \in processed' \ processed, Alone(k)'
  PROVE  CreditedOnce(k)'
<1> USE DEF CleanInv
<1>1. /\ OrderOf[k] \in Order /\ AmountOf[k] > 0
      /\ AddRefunds(k, 1) /\ Credit(k, 1)
  BY DEF Mutate, CreateRefund, RefundUnder, Refund, CancelOrder, storeVars
<1>2. PICK r \in Record \ refunds : r.key = k /\ refunds' = refunds \cup {r}
  BY <1>1, RecordsAreNew
<1>3. RefundsOf(k) = {}
  <2>1. RefundsOf(k)' = RefundsOf(k) \cup {r} /\ r \notin RefundsOf(k)
    BY <1>2 DEF RefundsOf
  <2>2. PICK s : s = RefundsOf(k) OBVIOUS
  <2>3. IsFiniteSet(s)
    <3>1. s \subseteq refunds BY <2>2 DEF RefundsOf
    <3> QED BY <3>1, FS_Subset DEF StoreInv
  <2>4. Cardinality(s) \in Nat /\ Cardinality(s \cup {r}) = Cardinality(s) + 1
    BY <2>1, <2>2, <2>3, FS_AddElement, FS_CardinalityType
  <2>5. Cardinality(s) = 0 BY <2>1, <2>2, <2>4 DEF Alone
  <2> QED BY <2>2, <2>3, <2>5, FS_EmptySet
<1>4. OrderRefunds(OrderOf[k]) = {}
  <2>1. SUFFICES ASSUME NEW q \in OrderRefunds(OrderOf[k]) PROVE FALSE OBVIOUS
  <2>2. q \in refunds /\ q \in OrderRefunds(OrderOf[k])'
    BY <1>2 DEF OrderRefunds
  <2>3. q.key = k BY <2>2 DEF Alone, RefundsOf
  <2> QED BY <1>3, <2>2, <2>3 DEF RefundsOf
<1>5. refunded[OrderOf[k]] = 0 BY <1>1, <1>4 DEF StoreAccount
<1>6. refunded'[OrderOf[k]] = AmountOf[k]
  <2>1. AmountOf[k] \in Nat /\ OrderOf[k] \in DOMAIN refunded
    BY <1>1, AmountAssumption DEF StoreInv, StoreTypeOK
  <2>2. 0 + 1 * AmountOf[k] = AmountOf[k] BY <2>1
  <2> QED BY <1>1, <1>5, <2>1, <2>2 DEF Credit
<1> QED BY <1>1, <1>6 DEF CreditedOnce

(* CleanStep: every step of the service keeps the invariant.               *)
LEMMA CleanStep == MoneyInv /\ CleanInv /\ [Next]_storeVars => CleanInv'
<1> SUFFICES ASSUME MoneyInv, CleanInv, [Next]_storeVars PROVE CleanInv' OBVIOUS
<1> USE DEF CleanInv
<1>1. ASSUME NEW k \in Key, Call(k) PROVE CleanInv'
  <2>1. PICK profile \in FaultProfile, response \in Response : Mutate(profile, k, response)
    BY <1>1 DEF Call
  <2>2. StoreInv' /\ Numbered' /\ StoreAccount'
    BY <1>1, <2>1, MutateLemma, CallKeepsMoney, AccountStep DEF Call
  <2>3. ASSUME NEW j \in processed', Alone(j)' PROVE CreditedOnce(j)'
    <3>1. CASE j \in processed BY <2>1, <2>3, <3>1, ProcessedStays
    <3>2. CASE j \notin processed
      <4>1. j = k BY <2>1, <3>2, MutateOnlyAdds DEF OnlyAdds
      <4> QED BY <2>1, <2>3, <3>2, <4>1, ProcessedNow
    <3> QED BY <3>1, <3>2
  <2> QED BY <2>2, <2>3
<1>2. CASE Reset
  <2>1. StoreInv' BY <1>2, ResetLemma
  <2>2. Numbered' /\ StoreAccount'
    BY <1>2 DEF Reset, Numbered, StoreAccount, RefundsOf
  <2>3. processed' = {} BY <1>2 DEF Reset
  <2> QED BY <2>1, <2>2, <2>3
<1>3. CASE UNCHANGED storeVars
  BY <1>3 DEF storeVars, StoreInv, StoreTypeOK, Numbered, RefundsOf, StoreAccount,
              OrderRefunds, Alone, CreditedOnce
<1> QED BY <1>1, <1>2, <1>3 DEF Next

(* CleanIsVerified: the contract's assertions hold of such an order.       *)
LEMMA CleanIsVerified ==
  ASSUME ComparesAsPython, PlainArguments, CleanInv
  PROVE  CleanRefundVerifies
<1> SUFFICES ASSUME NEW k \in Key, IsRefund(k), Alone(k)
             PROVE  VerifyPostcondition(ContractOf(k), ArgsOf[k]) = "VERIFIED"
  BY DEF CleanRefundVerifies, Alone
<1>1. VerdictAgrees BY VerdictsAgreeIn DEF CleanInv
<1>2. CreditedOnce(k) BY DEF CleanInv, Alone
<1>3. OrderOf[k] \in Order /\ OrderOf[k] # Missing
  BY <1>2, OrderAssumption DEF CreditedOnce
<1>4. PICK body : body = OrderBody(OrderOf[k]) OBVIOUS
<1>5. VerifyPostcondition(ContractOf(k), ArgsOf[k]) =
        Judge(k, OrderStatusCode(OrderOf[k]), body)
  BY <1>1, <1>3, <1>4 DEF VerdictAgrees
<1>6. body.refunded = AmountOf[k] /\ body.refunded > 0 /\ body.count = 1
  BY <1>2, <1>4 DEF CreditedOnce, OrderBody, Alone
<1>7. Postcondition(k, body) BY <1>6 DEF Postcondition
<1>8. OrderStatusCode(OrderOf[k]) = 200 /\ 200 \in 200 .. 299 BY <1>3 DEF OrderStatusCode
<1> QED BY <1>5, <1>7, <1>8 DEF Judge, JudgeBody

(* CleanRefundsVerify: a refund that the service applied once and          *)
(* completely, with no other on its order, is VERIFIED by the shipped      *)
(* contract, after any calls, faults and resets.                           *)
THEOREM CleanRefundsVerify ==
  ASSUME ComparesAsPython, PlainArguments
  PROVE  Spec => []CleanRefundVerifies
<1>1. Init => MoneyInv /\ CleanInv
  <2> SUFFICES ASSUME Init PROVE MoneyInv /\ CleanInv OBVIOUS
  <2>1. MoneyInv BY MoneyHolds
  <2>2. StoreAccount BY DEF Init, StoreInit, StoreAccount, RefundsOf
  <2> QED BY <2>1, <2>2 DEF MoneyInv, CleanInv, Init, StoreInit
<1>2. CleanInv => CleanRefundVerifies BY CleanIsVerified
<1>3. MoneyInv /\ CleanInv /\ [Next]_storeVars => (MoneyInv /\ CleanInv)'
  BY MoneyStep, CleanStep
<1> QED BY <1>1, <1>2, <1>3, PTL DEF Spec

=============================================================================
