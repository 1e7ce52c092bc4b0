-------------------------- MODULE ModelRouterProofs --------------------------
(***************************************************************************)
(* The daily limits the model router keeps, for any callers, providers,    *)
(* priorities and limits.                                                  *)
(***************************************************************************)
EXTENDS ModelRouter, FiniteSetTheorems, SequenceTheorems, TLAPS

(* The providers that no vision request is counted for.                    *)
Text == Providers \ Range(Vision)

(* The callers that have a provider in use.                                *)
Using(p) == {c \in Callers : p \in using[c]}

RouterTypes ==
  /\ made \in [Providers -> Nat]
  /\ using \in [Callers -> SUBSET Providers]
  /\ unseen \in [Callers -> Seq(Range(Vision))]

(* A provider was below its limit when it was given away: what it has done *)
(* and what is under way overrun the limit by no more than the callers     *)
(* that were given it before.                                              *)
UnderWayCounts ==
  \A p \in Text :
    made[p] + Cardinality(Using(p)) <= DailyLimit[p] + Cardinality(Callers) - 1

RouterInv == RouterTypes /\ UnderWayCounts

(* The callers of a provider can be counted, and they are callers.         *)
LEMMA UsersCount ==
  ASSUME NEW p
  PROVE  /\ IsFiniteSet(Using(p)) /\ Cardinality(Using(p)) \in Nat
         /\ Cardinality(Callers) \in Nat /\ Cardinality(Using(p)) <= Cardinality(Callers)
<1>1. IsFiniteSet(Callers) /\ Using(p) \subseteq Callers
  BY RouterAssumption DEF Using
<1> QED
  BY <1>1, FS_Subset, FS_CardinalityType

(* A step that takes no provider out of the books keeps the sum.           *)
LEMMA NoneIsAdded ==
  ASSUME RouterInv, NEW p \in Text,
         made'[p] = made[p], Using(p)' \subseteq Using(p)
  PROVE  made'[p] + Cardinality(Using(p)') <= DailyLimit[p] + Cardinality(Callers) - 1
<1>1. IsFiniteSet(Using(p)) /\ Cardinality(Using(p)) \in Nat /\ Cardinality(Callers) \in Nat
  BY UsersCount
<1>2. Cardinality(Using(p)') <= Cardinality(Using(p)) /\ Cardinality(Using(p)') \in Nat
  BY <1>1, FS_Subset, FS_CardinalityType
<1>3. made[p] \in Nat /\ DailyLimit[p] \in Nat
  BY RouterAssumption DEF RouterInv, RouterTypes, Text
<1>4. made[p] + Cardinality(Using(p)) <= DailyLimit[p] + Cardinality(Callers) - 1
  BY DEF RouterInv, UnderWayCounts
<1> QED
  BY <1>1, <1>2, <1>3, <1>4

(* At first nothing is made and nothing is under way.                      *)
LEMMA RouterInit == Init => RouterInv
<1> SUFFICES ASSUME Init PROVE RouterInv
  OBVIOUS
<1>1. RouterTypes
  BY DEF Init, RouterTypes
<1>2. ASSUME NEW p \in Text
      PROVE  made[p] + Cardinality(Using(p)) <= DailyLimit[p] + Cardinality(Callers) - 1
  <2>1. made[p] = 0 /\ DailyLimit[p] \in Nat \ {0}
    BY RouterAssumption DEF Init, Text
  <2> QED
    BY <2>1, UsersCount
<1> QED
  BY <1>1, <1>2 DEF RouterInv, UnderWayCounts

(* get_next_provider(): the counters of a new day, and the choice.         *)
LEMMA ChoiceStep ==
  ASSUME RouterInv, NEW c \in Callers,
         Reset(c) \/ ChooseProvider(c)
  PROVE  RouterInv'
<1> USE DEF RouterInv
<1>1. CASE Reset(c)
  <2>1. /\ made' = [p \in Providers |-> 0]
        /\ UNCHANGED <<using, unseen>>
    BY <1>1 DEF Reset, callers
  <2>2. RouterTypes'
    BY <2>1 DEF RouterTypes
  <2>3. ASSUME NEW p \in Text
        PROVE  made'[p] + Cardinality(Using(p)') <= DailyLimit[p] + Cardinality(Callers) - 1
    <3>1. made'[p] = 0 /\ DailyLimit[p] \in Nat \ {0} /\ Using(p)' = Using(p)
      BY <2>1, RouterAssumption DEF Text, Using
    <3> QED
      BY <3>1, UsersCount
  <2> QED
    BY <2>2, <2>3 DEF UnderWayCounts, Text
<1>2. CASE ChooseProvider(c)
  <2>1. made' = made /\ unseen' = unseen
    BY <1>2 DEF ChooseProvider, Give, GiveUp
  <2>2. CASE using' = using
    <3>1. RouterTypes'
      BY <2>1, <2>2 DEF RouterTypes
    <3>2. \A p \in Text : Using(p)' = Using(p)
      BY <2>2 DEF Using
    <3> QED
      BY <2>1, <3>1, <3>2, NoneIsAdded DEF UnderWayCounts, Text
  <2>3. CASE \E p \in provider_order : using' = [using EXCEPT ![c] = {p}]
    <3>1. PICK p \in provider_order : using' = [using EXCEPT ![c] = {p}]
      BY <2>3
    <3>2. p \in Providers /\ Remaining(p) > 0
      BY DEF provider_order, Listed
    <3>3. RouterTypes'
      BY <2>1, <3>1, <3>2 DEF RouterTypes
    <3>4. ASSUME NEW q \in Text, q # p
          PROVE  made'[q] + Cardinality(Using(q)') <= DailyLimit[q] + Cardinality(Callers) - 1
      <4>1. Using(q)' \subseteq Using(q)
        BY <3>1, <3>4 DEF Using, RouterTypes
      <4> QED
        BY <2>1, <4>1, NoneIsAdded
    <3>5. ASSUME p \in Text
          PROVE  made'[p] + Cardinality(Using(p)') <= DailyLimit[p] + Cardinality(Callers) - 1
      <4>1. made'[p] < DailyLimit[p] /\ made'[p] \in Nat /\ DailyLimit[p] \in Nat
        BY <2>1, <3>2, RouterAssumption DEF Remaining, RouterTypes
      <4>2. IsFiniteSet(Callers) /\ Using(p)' \subseteq Callers
        BY RouterAssumption DEF Using
      <4>3. /\ Cardinality(Using(p)') \in Nat /\ Cardinality(Callers) \in Nat
            /\ Cardinality(Using(p)') <= Cardinality(Callers)
        BY <4>2, FS_Subset, FS_CardinalityType
      <4> QED
        BY <4>1, <4>3
    <3> QED
      BY <3>3, <3>4, <3>5 DEF UnderWayCounts, Text
  <2> QED
    BY <1>2, <2>2, <2>3 DEF ChooseProvider, Give, GiveUp, At
<1> QED
  BY <1>1, <1>2

(* A call ends, and with it what was under way.                            *)
LEMMA CallStep ==
  ASSUME RouterInv, NEW c \in Callers, CallEnds(c)
  PROVE  RouterInv'
<1> USE DEF RouterInv
<1>1. using' = [using EXCEPT ![c] = {}] /\ unseen' = unseen
  BY DEF CallEnds, Succeed, Fail
<1>2. \A p \in Text : Using(p)' = Using(p) \ {c}
  BY <1>1 DEF Using, RouterTypes
<1>3. CASE made' = made
  <2>1. RouterTypes'
    BY <1>1, <1>3 DEF RouterTypes
  <2> QED
    BY <1>2, <1>3, <2>1, NoneIsAdded DEF UnderWayCounts, Text
<1>4. CASE Succeed(c)
  <2>1. PICK p \in using[c] : Count(p)
    BY <1>4 DEF Succeed
  <2>2. made' = [made EXCEPT ![p] = IF @ < MaxMade(p) THEN @ + 1 ELSE @]
    BY <2>1 DEF Count
  <2>3. p \in Providers /\ c \in Using(p)
    BY <2>1 DEF RouterTypes, Using
  <2>4. RouterTypes'
    BY <1>1, <2>2, <2>3 DEF RouterTypes
  <2>5. ASSUME NEW q \in Text, q # p
        PROVE  made'[q] + Cardinality(Using(q)') <= DailyLimit[q] + Cardinality(Callers) - 1
    <3>1. made'[q] = made[q]
      BY <2>2, <2>5 DEF RouterTypes, Text
    <3> QED
      BY <1>2, <3>1, NoneIsAdded
  <2>6. ASSUME p \in Text
        PROVE  made'[p] + Cardinality(Using(p)') <= DailyLimit[p] + Cardinality(Callers) - 1
    <3>1. Cardinality(Using(p)') = Cardinality(Using(p)) - 1
      <4>1. Cardinality(Using(p) \ {c}) = Cardinality(Using(p)) - 1
        BY <2>3, UsersCount, FS_RemoveElement
      <4> QED
        BY <1>2, <2>6, <4>1
    <3>2. made'[p] <= made[p] + 1 /\ made[p] \in Nat /\ made'[p] \in Nat
      BY <2>2, <2>3 DEF RouterTypes
    <3>3. /\ made[p] + Cardinality(Using(p)) <= DailyLimit[p] + Cardinality(Callers) - 1
          /\ DailyLimit[p] \in Nat
      BY <2>3, <2>6, RouterAssumption DEF UnderWayCounts
    <3> QED
      BY <3>1, <3>2, <3>3, UsersCount
  <2> QED
    BY <2>4, <2>5, <2>6 DEF UnderWayCounts, Text
<1> QED
  BY <1>3, <1>4 DEF CallEnds, Fail

(* Vision requests count for vision providers only.                        *)
LEMMA VisionStep ==
  ASSUME RouterInv, NEW c \in Callers,
         SendVision(c) \/ TryVision(c)
  PROVE  RouterInv'
<1> USE DEF RouterInv
<1>1. using' = using
  BY DEF SendVision, TryVision
<1>2. /\ unseen' \in [Callers -> Seq(Range(Vision))]
      /\ \/ made' = made
         \/ /\ unseen[c] # <<>>
            /\ Count(Head(unseen[c]))
  <2>1. CASE SendVision(c)
    <3>1. Vision \in Seq(Range(Vision))
      BY SeqOfRange, RouterAssumption DEF Range
    <3> QED
      BY <2>1, <3>1 DEF SendVision, books, RouterTypes
  <2>2. CASE TryVision(c)
    <3>1. unseen[c] \in Seq(Range(Vision)) /\ unseen[c] # <<>>
      BY <2>2 DEF TryVision, RouterTypes
    <3>2. Tail(unseen[c]) \in Seq(Range(Vision)) /\ <<>> \in Seq(Range(Vision))
      BY <3>1
    <3> QED
      BY <2>2, <3>1, <3>2 DEF TryVision, RouterTypes
  <2> QED
    BY <2>1, <2>2
<1>3. \A p \in Text : Using(p)' = Using(p)
  BY <1>1 DEF Using
<1>4. CASE made' = made
  <2>1. RouterTypes'
    BY <1>1, <1>2, <1>4 DEF RouterTypes
  <2> QED
    BY <1>3, <1>4, <2>1, NoneIsAdded DEF UnderWayCounts, Text
<1>5. CASE unseen[c] # <<>> /\ Count(Head(unseen[c]))
  <2> DEFINE p == Head(unseen[c])
  <2>1. p \in Range(Vision) /\ p \in Providers
    <3>1. p \in Range(Vision)
      BY <1>5 DEF RouterTypes
    <3>2. Range(Vision) \subseteq Providers
      BY RouterAssumption DEF Range
    <3> QED
      BY <3>1, <3>2
  <2>2. made' = [made EXCEPT ![p] = IF @ < MaxMade(p) THEN @ + 1 ELSE @]
    BY <1>5 DEF Count
  <2> HIDE DEF p
  <2>3. RouterTypes'
    <3>1. made' \in [Providers -> Nat]
      BY <2>1, <2>2 DEF RouterTypes
    <3> QED
      BY <1>1, <1>2, <3>1 DEF RouterTypes
  <2>4. \A q \in Text : made'[q] = made[q]
    BY <2>1, <2>2 DEF Text, RouterTypes
  <2> QED
    BY <1>3, <2>3, <2>4, NoneIsAdded DEF UnderWayCounts, Text
<1> QED
  BY <1>2, <1>4, <1>5

(* Every step of the router keeps the sum.                                 *)
LEMMA RouterNext == RouterInv /\ [Next]_vars => RouterInv'
<1> SUFFICES ASSUME RouterInv, [Next]_vars PROVE RouterInv'
  OBVIOUS
<1>1. CASE UNCHANGED <<made, using, unseen>>
  <2>1. RouterTypes'
    BY <1>1 DEF RouterInv, RouterTypes
  <2>2. \A p \in Text : Using(p)' = Using(p)
    BY <1>1 DEF Using
  <2> QED
    BY <1>1, <2>1, <2>2 DEF RouterInv, UnderWayCounts, Text
<1>2. ASSUME NEW c \in Callers, Send(c) \/ SendVision(c) \/ CallerStep(c)
      PROVE  RouterInv'
  <2>1. CASE Send(c) \/ FallBack(c)
    BY <1>1, <2>1 DEF Send, FallBack, books
  <2>2. CASE Reset(c) \/ ChooseProvider(c)
    BY <2>2, ChoiceStep
  <2>3. CASE CallEnds(c)
    BY <2>3, CallStep
  <2>4. CASE SendVision(c) \/ TryVision(c)
    BY <2>4, VisionStep
  <2> QED
    BY <1>2, <2>1, <2>2, <2>3, <2>4 DEF CallerStep
<1>3. ASSUME NEW p \in Providers, WaitPasses(p) PROVE RouterInv'
  BY <1>1, <1>3 DEF WaitPasses, callers
<1>4. CASE Midnight
  BY <1>1, <1>4 DEF Midnight, callers
<1> QED
  BY <1>1, <1>2, <1>3, <1>4 DEF Next, vars, books, callers

(* Text requests overrun a provider's daily limit by no more than the      *)
(* calls under way when it was reached.                                    *)
THEOREM LimitsHold == Spec => []LimitKept
<1>1. RouterInv => LimitKept
  <2> SUFFICES ASSUME RouterInv, NEW p \in Text
               PROVE  made[p] <= DailyLimit[p] + Cardinality(Callers) - 1
    BY DEF LimitKept, Text
  <2>1. made[p] \in Nat /\ DailyLimit[p] \in Nat
    BY RouterAssumption DEF RouterInv, RouterTypes, Text
  <2> QED
    BY <2>1, UsersCount DEF RouterInv, UnderWayCounts
<1> QED
  BY <1>1, RouterInit, RouterNext, PTL DEF Spec
===============================================================================
