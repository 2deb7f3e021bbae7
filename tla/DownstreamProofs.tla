-------------------------- MODULE DownstreamProofs --------------------------
(***************************************************************************)
(* Lemmas about the downstream handlers, for every set of intents and      *)
(* orders: they keep the store's types and its records finite, and touch   *)
(* no other intent's effects.                                              *)
(***************************************************************************)
EXTENDS Downstream, FiniteSetTheorems, TLAPS

StoreInv == StoreTypeOK /\ IsFiniteSet(refunds)

(* AddRefunds writes new, well-formed records of k and nothing else        *)
(* (refunds.py, the assignments to store.refunds).                         *)
LEMMA AddRefundsLemma ==
  ASSUME NEW k \in Key, NEW n \in {1, 2}, StoreInv, AddRefunds(k, n)
  PROVE  /\ refunds' \subseteq [key : Key, id : Nat]
         /\ IsFiniteSet(refunds')
         /\ \A j \in Key \ {k} : RefundsOf(j)' = RefundsOf(j)
<1> DEFINE c == Cardinality(RefundsOf(k))
           rec(i) == [key |-> k, id |-> c + i]
<1>1. c \in Nat
  <2>1. RefundsOf(k) \in SUBSET refunds
    BY DEF RefundsOf
  <2>2. IsFiniteSet(refunds)
    BY DEF StoreInv
  <2>3. IsFiniteSet(RefundsOf(k))
    BY <2>1, <2>2, FS_Subset
  <2> QED BY <2>3, FS_CardinalityType
<1>2. refunds' = refunds \cup {rec(i) : i \in 1 .. n}
  BY DEF AddRefunds
<1>3. \A i \in 1 .. n : rec(i) \in [key : Key, id : Nat] /\ rec(i).key = k
  BY <1>1
<1>4. refunds \subseteq [key : Key, id : Nat]
  BY DEF StoreInv, StoreTypeOK
<1>5. IsFiniteSet(refunds')
  <2>1. IsFiniteSet(refunds \cup {rec(1)})
    BY FS_AddElement DEF StoreInv
  <2>2. IsFiniteSet((refunds \cup {rec(1)}) \cup {rec(2)})
    BY <2>1, FS_AddElement
  <2>3. CASE n = 1
    <3>1. 1 .. n = {1}
      BY <2>3
    <3>2. refunds' = refunds \cup {rec(1)}
      BY <1>2, <3>1
    <3> QED BY <2>1, <3>2
  <2>4. CASE n = 2
    <3>1. 1 .. n = {1, 2}
      BY <2>4
    <3>2. refunds' = (refunds \cup {rec(1)}) \cup {rec(2)}
      BY <1>2, <3>1
    <3> QED BY <2>2, <3>2
  <2> QED BY <2>3, <2>4
<1>6. \A j \in Key \ {k} : RefundsOf(j)' = RefundsOf(j)
  BY <1>2, <1>3 DEF RefundsOf
<1> QED BY <1>2, <1>3, <1>4, <1>5, <1>6

(* Credit keeps every refunded amount a natural number and every order in  *)
(* a known status (refunds.py, refunded_amount and status).                *)
LEMMA CreditLemma ==
  ASSUME NEW k \in Key, NEW n \in {1, 2}, OrderOf[k] \in Order,
         StoreInv, Credit(k, n)
  PROVE  refunded' \in [Order -> Nat] /\ status' \in [Order -> OrderStatus]
<1>1. AmountOf[k] \in Nat
  BY AmountAssumption
<1>2. refunded[OrderOf[k]] + n * AmountOf[k] \in Nat
  <2>1. n * AmountOf[k] \in Nat
    BY <1>1
  <2>2. refunded[OrderOf[k]] \in Nat
    BY DEF StoreInv, StoreTypeOK
  <2> QED BY <2>1, <2>2
<1> QED
  BY <1>2 DEF StoreInv, StoreTypeOK, Credit, OrderStatus

(* A call of the intent k keeps the store well-formed and changes no       *)
(* effect of another intent (refunds.py and orders.py, every profile).     *)
LEMMA MutateLemma ==
  ASSUME NEW k \in Key, NEW profile, NEW response \in Response,
         StoreInv, ResolvesPath(k), Mutate(profile, k, response)
  PROVE  /\ StoreInv'
         /\ \A j \in Key \ {k} : HasEffect(j)' = HasEffect(j)
<1>1. CASE UNCHANGED storeVars
  BY <1>1 DEF storeVars, StoreInv, StoreTypeOK, HasEffect, RefundsOf
<1>2. CASE /\ OrderOf[k] \in Order
           /\ RefundUnder(profile, k, response)
  <2>1. UNCHANGED cancelled /\ processed' \subseteq Key
    BY <1>2 DEF RefundUnder, StoreInv, StoreTypeOK
  <2>2. ASSUME NEW n \in {1, 2}, Refund(k, n)
        PROVE  /\ StoreInv'
               /\ \A j \in Key \ {k} : HasEffect(j)' = HasEffect(j)
    <3>1. AddRefunds(k, n) /\ Credit(k, n)
      BY <2>2 DEF Refund
    <3>2. /\ refunds' \subseteq [key : Key, id : Nat]
          /\ IsFiniteSet(refunds')
          /\ \A j \in Key \ {k} : RefundsOf(j)' = RefundsOf(j)
      BY <3>1, AddRefundsLemma
    <3>3. refunded' \in [Order -> Nat] /\ status' \in [Order -> OrderStatus]
      BY <1>2, <3>1, CreditLemma
    <3> QED BY <2>1, <3>2, <3>3 DEF StoreInv, StoreTypeOK, HasEffect
  <2>3. CASE AddRefunds(k, 1) /\ UNCHANGED <<status, refunded>>
    <3>1. /\ refunds' \subseteq [key : Key, id : Nat]
          /\ IsFiniteSet(refunds')
          /\ \A j \in Key \ {k} : RefundsOf(j)' = RefundsOf(j)
      BY <2>3, AddRefundsLemma
    <3> QED BY <2>1, <2>3, <3>1 DEF StoreInv, StoreTypeOK, HasEffect
  <2>4. CASE UNCHANGED <<status, refunded, refunds>>
    BY <2>1, <2>4 DEF StoreInv, StoreTypeOK, HasEffect, RefundsOf
  <2>5. \/ Refund(k, 1) \/ Refund(k, 2)
        \/ AddRefunds(k, 1) /\ UNCHANGED <<status, refunded>>
        \/ UNCHANGED <<status, refunded, refunds>>
    BY <1>2 DEF RefundUnder
  <2> QED BY <2>2, <2>3, <2>4, <2>5
<1>3. CASE /\ OrderOf[k] \in Order
           /\ UNCHANGED <<refunded, refunds, processed>>
           /\ SetCancelled(k)
  BY <1>3 DEF SetCancelled, StoreInv, StoreTypeOK, OrderStatus, HasEffect, RefundsOf
<1> QED
  BY <1>1, <1>2, <1>3 DEF Mutate, CreateRefund, CancelOrder, storeVars

(* A reset leaves a well-formed store without any effect (store.py).       *)
LEMMA ResetLemma ==
  ASSUME Reset
  PROVE  StoreInv' /\ \A k \in Key : ~ HasEffect(k)'
BY FS_EmptySet DEF Reset, StoreInv, StoreTypeOK, OrderStatus, HasEffect, RefundsOf

(* So does the seeding of the store (store.py, seed_defaults).             *)
LEMMA StoreInitLemma ==
  ASSUME StoreInit
  PROVE  StoreInv /\ \A k \in Key : ~ HasEffect(k)
BY FS_EmptySet DEF StoreInit, StoreInv, StoreTypeOK, OrderStatus, HasEffect, RefundsOf

-----------------------------------------------------------------------------
(***************************************************************************)
(* The store's account of its effects: a remembered key has left a record, *)
(* only seeded orders have records, an order without records has not been  *)
(* credited, and a cancelled one was cancelled by an intent that names it. *)
(***************************************************************************)
StoreAccount ==
  /\ \A k \in processed : RefundsOf(k) # {}
  /\ \A k \in Key : RefundsOf(k) # {} => OrderOf[k] \in Order
  /\ \A o \in Order : OrderRefunds(o) = {} => refunded[o] = 0
  /\ \A o \in Order : status[o] = "CANCELLED" => \E j \in cancelled : OrderOf[j] = o

(* What a refund that was confirmed has left: the complete effect, two     *)
(* records, or one record of which the order knows nothing.                *)
Applied(k) == k \in processed /\ Cardinality(RefundsOf(k)) = 1

Doubled(k) == Cardinality(RefundsOf(k)) = 2

Uncredited(k) ==
  /\ Cardinality(RefundsOf(k)) = 1
  /\ OrderRefunds(OrderOf[k]) = RefundsOf(k) => refunded[OrderOf[k]] = 0

CancelWritten(k) == \E j \in cancelled : OrderOf[j] = OrderOf[k]

(* What a call of k leaves alone, without a reset: records and cached      *)
(* responses are only added, and only of k; an order is credited only      *)
(* together with a record; a remembered key changes no record.             *)
OnlyAdds(k) ==
  /\ refunds \subseteq refunds' /\ \A x \in refunds' \ refunds : x.key = k
  /\ processed \subseteq processed' /\ processed' \subseteq processed \cup {k}
  /\ cancelled \subseteq cancelled'
  /\ \A o \in Order :
       refunded'[o] = refunded[o] \/ (OrderOf[k] = o /\ RefundsOf(k)' # {})
  /\ k \in processed => refunds' = refunds

(* The first records of an intent are as many as are added.                *)
LEMMA FirstRefunds ==
  ASSUME NEW k \in Key, NEW n \in {1, 2}, RefundsOf(k) = {}, AddRefunds(k, n)
  PROVE  Cardinality(RefundsOf(k)') = n
<1> DEFINE rec(i) == [key |-> k, id |-> i]
<1>1. Cardinality({}) = 0 /\ \A i \in 1 .. n : 0 + i = i
  BY FS_EmptySet
<1>2. refunds' = refunds \cup {rec(i) : i \in 1 .. n}
  <2>1. Cardinality(RefundsOf(k)) = 0
    BY <1>1
  <2> QED BY <1>1, <2>1 DEF AddRefunds
<1>3. RefundsOf(k)' = {rec(i) : i \in 1 .. n}
  BY <1>2 DEF RefundsOf
<1>4. CASE n = 1
  <2>1. {rec(i) : i \in 1 .. n} = {rec(1)}
    BY <1>4
  <2> QED BY <1>3, <1>4, <2>1, FS_Singleton
<1>5. CASE n = 2
  <2>1. {rec(i) : i \in 1 .. n} = {rec(1)} \cup {rec(2)}
    BY <1>5
  <2>2. rec(1) # rec(2)
    <3>1. rec(1).id # rec(2).id
      OBVIOUS
    <3> QED BY <3>1
  <2>3. IsFiniteSet({rec(1)}) /\ Cardinality({rec(1)}) = 1 /\ rec(2) \notin {rec(1)}
    BY <2>2, FS_Singleton
  <2>4. Cardinality({rec(1)} \cup {rec(2)}) = 1 + 1
    BY <2>3, FS_AddElement
  <2> QED BY <1>3, <1>5, <2>1, <2>4
<1> QED BY <1>4, <1>5

(* Adding records of k adds nothing else, and leaves one at least.         *)
LEMMA AddRefundsOnly ==
  ASSUME NEW k \in Key, NEW n \in {1, 2}, AddRefunds(k, n)
  PROVE  /\ refunds \subseteq refunds' /\ \A x \in refunds' \ refunds : x.key = k
         /\ RefundsOf(k)' # {}
<1> DEFINE rec(i) == [key |-> k, id |-> Cardinality(RefundsOf(k)) + i]
<1>1. refunds' = refunds \cup {rec(i) : i \in 1 .. n}
  BY DEF AddRefunds
<1>2. \A i \in 1 .. n : rec(i).key = k
  OBVIOUS
<1>3. rec(1) \in refunds'
  BY <1>1
<1>4. RefundsOf(k)' # {}
  BY <1>2, <1>3 DEF RefundsOf
<1> QED BY <1>1, <1>2, <1>4

(* A call of k adds only effects of k (refunds.py and orders.py, every     *)
(* profile).                                                               *)
LEMMA MutateOnlyAdds ==
  ASSUME NEW k \in Key, NEW profile, NEW response,
         StoreInv, StoreAccount, Mutate(profile, k, response)
  PROVE  OnlyAdds(k)
<1>1. CASE UNCHANGED storeVars
  BY <1>1 DEF storeVars, OnlyAdds
<1>2. CASE /\ ~ Remembered(k)
           /\ RefundUnder(profile, k, response)
  <2>1. /\ k \notin processed /\ cancelled \subseteq cancelled'
        /\ processed \subseteq processed' /\ processed' \subseteq processed \cup {k}
    BY <1>2 DEF Remembered, RefundUnder
  <2>2. ASSUME NEW n \in {1, 2}, Refund(k, n) PROVE OnlyAdds(k)
    <3>1. /\ refunds \subseteq refunds' /\ \A x \in refunds' \ refunds : x.key = k
          /\ RefundsOf(k)' # {}
      BY <2>2, AddRefundsOnly DEF Refund
    <3>2. \A o \in Order : o # OrderOf[k] => refunded'[o] = refunded[o]
      BY <2>2 DEF Refund, Credit, StoreInv, StoreTypeOK
    <3> QED BY <2>1, <3>1, <3>2 DEF OnlyAdds
  <2>3. CASE AddRefunds(k, 1) /\ UNCHANGED refunded
    BY <2>1, <2>3, AddRefundsOnly DEF OnlyAdds
  <2>4. CASE UNCHANGED <<refunds, refunded>>
    BY <2>1, <2>4 DEF OnlyAdds
  <2> QED BY <1>2, <2>2, <2>3, <2>4 DEF RefundUnder
<1>3. CASE UNCHANGED <<refunded, refunds, processed>> /\ cancelled \subseteq cancelled'
  BY <1>3 DEF OnlyAdds
<1> QED BY <1>1, <1>2, <1>3 DEF Mutate, CreateRefund, CancelOrder, SetCancelled

(* Records are of known intents, and every intent keeps its own.           *)
LEMMA RecordsKept ==
  ASSUME StoreInv, NEW k \in Key, OnlyAdds(k)
  PROVE  /\ \A j : RefundsOf(j) \subseteq RefundsOf(j)'
         /\ \A j : j # k => RefundsOf(j)' = RefundsOf(j)
         /\ \A o : OrderRefunds(o) \subseteq OrderRefunds(o)'
BY DEF OnlyAdds, RefundsOf, OrderRefunds

(* AccountStep: a call keeps the store's account of its effects.           *)
LEMMA AccountStep ==
  ASSUME NEW k \in Key, NEW profile, NEW response \in Response,
         StoreInv, StoreAccount, Mutate(profile, k, response)
  PROVE  StoreAccount'
<1>1. OnlyAdds(k)
  BY MutateOnlyAdds
<1>2. /\ \A j : RefundsOf(j) \subseteq RefundsOf(j)'
      /\ \A j : j # k => RefundsOf(j)' = RefundsOf(j)
      /\ \A o : OrderRefunds(o) \subseteq OrderRefunds(o)'
  BY <1>1, RecordsKept
<1>3. \A j \in processed' : RefundsOf(j)' # {}
  <2>1. SUFFICES ASSUME k \in processed', k \notin processed PROVE RefundsOf(k)' # {}
    BY <1>1, <1>2 DEF OnlyAdds, StoreAccount
  <2>2. AddRefunds(k, 1)
    BY <2>1 DEF Mutate, CreateRefund, CancelOrder, RefundUnder, Refund, storeVars
  <2> QED BY <2>2, AddRefundsOnly
<1>4. \A j \in Key : RefundsOf(j)' # {} => OrderOf[j] \in Order
  <2>1. SUFFICES ASSUME refunds' # refunds PROVE OrderOf[k] \in Order
    BY <1>2 DEF StoreAccount, RefundsOf
  <2> QED BY <2>1 DEF Mutate, CreateRefund, CancelOrder, storeVars
<1>5. \A o \in Order : OrderRefunds(o)' = {} => refunded'[o] = 0
  <2>1. SUFFICES ASSUME NEW o \in Order, OrderRefunds(o)' = {} PROVE refunded'[o] = 0
    OBVIOUS
  <2>2. refunded[o] = 0
    BY <1>2, <2>1 DEF StoreAccount
  <2>3. OrderOf[k] = o => RefundsOf(k)' = {}
    BY <2>1 DEF RefundsOf, OrderRefunds
  <2> QED BY <1>1, <2>2, <2>3 DEF OnlyAdds
<1>6. \A o \in Order : status'[o] = "CANCELLED" => \E j \in cancelled' : OrderOf[j] = o
  <2>1. SUFFICES ASSUME NEW o \in Order, status'[o] = "CANCELLED"
                 PROVE  \E j \in cancelled' : OrderOf[j] = o
    OBVIOUS
  <2>2. CASE status[o] = "CANCELLED"
    BY <1>1, <2>2 DEF OnlyAdds, StoreAccount
  <2>3. CASE status[o] # "CANCELLED"
    <3>1. ASSUME NEW n, Credit(k, n) PROVE FALSE
      BY <2>1, <2>3, <3>1 DEF Credit, StoreInv, StoreTypeOK
    <3>2. status'[o] # status[o]
      BY <2>1, <2>3
    <3>3. SetCancelled(k)
      BY <3>1, <3>2 DEF Mutate, CreateRefund, RefundUnder, Refund, CancelOrder, storeVars
    <3>4. o = OrderOf[k] /\ k \in cancelled'
      BY <2>1, <2>3, <3>3 DEF SetCancelled, StoreInv, StoreTypeOK
    <3> QED BY <3>4
  <2> QED BY <2>2, <2>3
<1> QED BY <1>3, <1>4, <1>5, <1>6 DEF StoreAccount

(* FirstCallOutcome: what the answer to the first call of a refund says of *)
(* its effect: a refusal has none, a confirmation one of three.            *)
LEMMA FirstCallOutcome ==
  ASSUME NEW k \in Key, NEW profile, NEW response \in Response, IsRefund(k),
         StoreInv, StoreAccount, RefundsOf(k) = {}, Mutate(profile, k, response)
  PROVE  /\ response \in {"unprocessable", "not_found"} => RefundsOf(k)' = {}
         /\ response = "confirmed" =>
              OrderOf[k] \in Order /\ (Applied(k)' \/ Doubled(k)' \/ Uncredited(k)')
<1>1. k \notin processed /\ CreateRefund(profile, k, response)
  BY DEF StoreAccount, Mutate, IsRefund, IsCancel
<1>2. CASE response \in {"unprocessable", "not_found"}
  <2>1. UNCHANGED storeVars
    BY <1>1, <1>2 DEF CreateRefund, RefundUnder
  <2> QED BY <1>2, <2>1 DEF storeVars, RefundsOf
<1>3. CASE response = "confirmed"
  <2>1. OrderOf[k] \in Order /\ RefundUnder(profile, k, response)
    BY <1>1, <1>3 DEF CreateRefund, Remembered
  <2>2. CASE Refund(k, 1) /\ processed' = processed \cup {k}
    BY <1>3, <2>1, <2>2, FirstRefunds DEF Refund, Applied
  <2>3. CASE Refund(k, 2)
    BY <1>3, <2>1, <2>3, FirstRefunds DEF Refund, Doubled
  <2>4. CASE AddRefunds(k, 1) /\ UNCHANGED refunded
    <3>1. Cardinality(RefundsOf(k)') = 1
      BY <2>4, FirstRefunds
    <3>2. ASSUME OrderRefunds(OrderOf[k])' = RefundsOf(k)'
          PROVE  OrderRefunds(OrderOf[k]) = {}
      <4>1. refunds \subseteq refunds'
        BY <2>4, AddRefundsOnly
      <4>2. SUFFICES ASSUME NEW x \in OrderRefunds(OrderOf[k]) PROVE FALSE
        OBVIOUS
      <4>3. x \in refunds /\ x \in OrderRefunds(OrderOf[k])'
        BY <4>1, <4>2 DEF OrderRefunds
      <4>4. x.key = k
        BY <3>2, <4>3 DEF RefundsOf
      <4> QED BY <4>3, <4>4 DEF RefundsOf
    <3>3. OrderRefunds(OrderOf[k])' = RefundsOf(k)' => refunded'[OrderOf[k]] = 0
      BY <2>1, <2>4, <3>2 DEF StoreAccount
    <3>4. Uncredited(k)'
      BY <3>1, <3>3 DEF Uncredited
    <3> QED BY <1>3, <2>1, <3>4
  <2> QED BY <1>3, <2>1, <2>2, <2>3, <2>4 DEF RefundUnder
<1> QED BY <1>2, <1>3

(* WrittenStays: no other call takes back what a confirmed refund left.    *)
LEMMA WrittenStays ==
  ASSUME NEW j \in Key, NEW k \in Key, StoreInv, OnlyAdds(j)
  PROVE  /\ Applied(k) => Applied(k)'
         /\ CancelWritten(k) => CancelWritten(k)'
         /\ j # k /\ Doubled(k) => Doubled(k)'
         /\ j # k /\ OrderOf[k] \in Order /\ Uncredited(k) => Uncredited(k)'
<1>1. /\ j # k => RefundsOf(k)' = RefundsOf(k)
      /\ OrderRefunds(OrderOf[k]) \subseteq OrderRefunds(OrderOf[k])'
  BY RecordsKept
<1>2. Applied(k) => Applied(k)'
  <2>1. k \in processed => RefundsOf(k)' = RefundsOf(k) /\ k \in processed'
    BY <1>1 DEF OnlyAdds, RefundsOf
  <2> QED BY <2>1 DEF Applied
<1>3. CancelWritten(k) => CancelWritten(k)'
  BY DEF OnlyAdds, CancelWritten
<1>4. j # k /\ Doubled(k) => Doubled(k)'
  BY <1>1 DEF Doubled
<1>5. ASSUME j # k, OrderOf[k] \in Order, Uncredited(k) PROVE Uncredited(k)'
  <2>1. SUFFICES ASSUME OrderRefunds(OrderOf[k])' = RefundsOf(k)'
                 PROVE  refunded'[OrderOf[k]] = 0
    BY <1>1, <1>5 DEF Uncredited
  <2>2. OrderRefunds(OrderOf[k]) = RefundsOf(k)
    <3>1. OrderRefunds(OrderOf[k]) \subseteq RefundsOf(k)
      BY <1>1, <1>5, <2>1
    <3>2. RefundsOf(k) \subseteq OrderRefunds(OrderOf[k])
      BY DEF RefundsOf, OrderRefunds
    <3> QED BY <3>1, <3>2
  <2>3. OrderOf[j] = OrderOf[k] => RefundsOf(j)' = {}
    <3>1. ASSUME OrderOf[j] = OrderOf[k], NEW x \in RefundsOf(j)' PROVE FALSE
      <4>1. x \in OrderRefunds(OrderOf[k])' /\ x.key = j
        BY <3>1 DEF RefundsOf, OrderRefunds
      <4>2. x \in RefundsOf(k)'
        BY <2>1, <4>1
      <4> QED BY <1>5, <4>1, <4>2 DEF RefundsOf
    <3> QED BY <3>1
  <2> QED BY <1>5, <2>2, <2>3 DEF OnlyAdds, Uncredited
<1> QED BY <1>2, <1>3, <1>4, <1>5

=============================================================================
