------------------------ MODULE MappingEngineProofs ------------------------
(***************************************************************************)
(* Proofs about MappingEngine, for every configuration, every set of       *)
(* messages and every fixed-point unit: the type invariant; that additive  *)
(* channels are the clamped sum of their sources' last contributions, in   *)
(* whatever order these came, when additive mappings have names of their   *)
(* own; that the last writer wins on the other channels; that a call does  *)
(* not leak into other channels, and changes nothing when it is repeated;  *)
(* that the loop implements the call in one step; and that the report of   *)
(* the pad shows the channels.                                             *)
(***************************************************************************)
EXTENDS XusbReport, TLAPS, WellFoundedInduction, FiniteSetTheorems

-----------------------------------------------------------------------------
(* Facts about the operators.                                              *)

\* std::clamp lands between its bounds, whatever it is given.
LEMMA ClampRange ==
  ASSUME NEW v, NEW lo \in Int, NEW hi \in Int, lo <= hi
  PROVE  Clamp(v, lo, hi) \in lo..hi
  BY DEF Clamp

LEMMA ClampForRange ==
  ASSUME NEW type, NEW v
  PROVE  ClampFor(type, v) \in IF type = "Trigger" THEN 0..Unit ELSE -Unit..Unit
  <1>1. Unit \in Nat \ {0}
    BY UnitAssumption
  <1>2. CASE type = "Trigger"
    BY <1>1, <1>2, ClampRange DEF ClampFor
  <1>3. CASE type # "Trigger"
    BY <1>1, <1>3, ClampRange DEF ClampFor
  <1> QED BY <1>2, <1>3

LEMMA MappingFields ==
  ASSUME NEW k \in DOMAIN Mappings
  PROVE  Mappings[k] \in MappingDefinition
  BY MappingsAssumption

\* Whatever a sample holds, the value of a mapping is in its range.
LEMMA MappedValueRange ==
  ASSUME NEW m \in MappingDefinition, NEW raw
  PROVE  /\ MappedValue(m, raw) \in Int
         /\ ~m.additive => MappedValue(m, raw) \in RangeOf(m)
  <1>1. Unit \in Nat \ {0}
    BY UnitAssumption
  <1>2. m.channelType \in ChannelType
    BY DEF MappingDefinition
  <1>3. CASE m.channelType = "Button"
    BY <1>1, <1>3 DEF MappedValue, RangeOf
  <1>4. CASE m.channelType # "Button"
    <2> DEFINE w == ApplyDeadzone(Inverted(m, Scaled(m, raw)), m.deadzone)
    <2>1. MappedValue(m, raw) = ClampFor(m.channelType, w)
      BY <1>4 DEF MappedValue
    <2>2. MappedValue(m, raw)
            \in IF m.channelType = "Trigger" THEN 0..Unit ELSE -Unit..Unit
      BY <2>1, ClampForRange
    <2> QED BY <1>1, <1>2, <1>4, <2>2 DEF RangeOf, ChannelType
  <1> QED BY <1>3, <1>4

\* What one iteration writes is in the range of its mapping.
LEMMA OutputRange ==
  ASSUME NEW m \in MappingDefinition, NEW s, NEW a
  PROVE  Output(Mappings, s, m, a) \in RangeOf(m)
  <1>1. Unit \in Nat \ {0}
    BY UnitAssumption
  <1>2. m.channelType \in ChannelType
    BY DEF MappingDefinition
  <1>3. CASE m.additive
    <2> DEFINE sum == Total([k \in AdditiveOn(Mappings, m.target) |->
                               s[Mappings[k].name]])
    <2>1. Output(Mappings, s, m, a) = ClampFor(m.channelType, sum)
      BY <1>3 DEF Output
    <2>2. ClampFor(m.channelType, sum)
            \in IF m.channelType = "Trigger" THEN 0..Unit ELSE -Unit..Unit
      BY ClampForRange
    <2> QED BY <1>1, <1>2, <1>3, <2>1, <2>2 DEF RangeOf, ChannelType
  <1>4. CASE ~m.additive
    BY <1>4, MappedValueRange DEF Output
  <1> QED BY <1>3, <1>4

LEMMA RememberedType ==
  ASSUME NEW k \in DOMAIN Mappings, NEW a,
         NEW s \in [AdditiveNames(Mappings) -> Int]
  PROVE  Remembered(s, Mappings[k], a) \in [AdditiveNames(Mappings) -> Int]
  BY MappingFields, MappedValueRange DEF Remembered

LEMMA LenMappings == Len(Mappings) \in Nat /\ DOMAIN Mappings = 1..Len(Mappings)
  BY MappingsAssumption

\* A set of naturals that is not empty has a least element.
LEMMA LeastNatural ==
  ASSUME NEW S \in SUBSET Nat, S # {}
  PROVE  \E x \in S : \A y \in S : x <= y
  <1> DEFINE less == OpToRel(<, Nat)
  <1>1. IsWellFoundedOn(less, Nat)
    BY NatLessThanWellFounded, Zenon
  <1>2. \A x, y \in Nat : y < x => <<y, x>> \in less
    BY Zenon DEF OpToRel
  <1> HIDE DEF less
  <1>3. PICK x \in S : \A y \in S : ~(<<y, x>> \in less)
    BY <1>1, WFMin
  <1>4. \A y \in S : ~(y < x)
    BY <1>2, <1>3
  <1>5. x \in Nat /\ \A y \in S : y \in Nat
    OBVIOUS
  <1> QED BY <1>4, <1>5

\* Max is a CHOOSE: an element that no other exceeds is the one it chooses.
LEMMA MaxIsLast ==
  ASSUME NEW S \in SUBSET Int, NEW c \in S, \A j \in S : j <= c
  PROVE  Max(S) = c
  <1>1. \E x \in S : \A y \in S : x >= y
    OBVIOUS
  <1>2. Max(S) \in S /\ \A y \in S : Max(S) >= y
    BY <1>1, Zenon DEF Max
  <1>3. Max(S) \in Int /\ c \in Int /\ Max(S) >= c /\ Max(S) <= c
    BY <1>2
  <1> QED BY <1>3

\* The greatest of some indices: Max means something.
LEMMA GreatestIndex ==
  ASSUME NEW S \in SUBSET DOMAIN Mappings, S # {}
  PROVE  Max(S) \in S /\ \A i \in S : i <= Max(S)
  <1> DEFINE n == Len(Mappings)
             T == {n - i : i \in S}
  <1>1. \A i \in S : n - i \in Nat /\ i \in Int /\ n \in Int
    BY LenMappings
  <1>2. T \in SUBSET Nat
    BY <1>1
  <1>3. T # {}
    OBVIOUS
  <1>4. PICK x \in T : \A y \in T : x <= y
    <2> HIDE DEF T
    <2> QED BY <1>2, <1>3, LeastNatural
  <1>5. PICK c \in S : x = n - c
    OBVIOUS
  <1>6. \A i \in S : c >= i
    <2> SUFFICES ASSUME NEW i \in S PROVE c >= i
      OBVIOUS
    <2>1. n - c <= n - i
      BY <1>4, <1>5
    <2> QED BY <1>1, <2>1
  <1>7. Max(S) \in S /\ \A i \in S : Max(S) >= i
    BY <1>6, Zenon DEF Max
  <1> QED BY <1>1, <1>7

-----------------------------------------------------------------------------
(* The type invariant.                                                     *)

\* The two outcomes of an iteration.
LEMMA VisitOutcomes ==
  ASSUME Visit
  PROVE  LET m == Mappings[cursor]
             r == Remembered(additive_state, m, msg)
         IN  \/ /\ ~Matches(m, msg)
                /\ UNCHANGED <<additive_state, channels, updated>>
             \/ /\ Matches(m, msg)
                /\ additive_state' = r
                /\ channels' = Write(channels, m.target,
                                     Output(Mappings, r, m, msg))
                /\ updated' = TRUE
  <1>1. CASE Matches(Mappings[cursor], msg)
    BY <1>1 DEF Visit, Visited
  <1>2. CASE ~Matches(Mappings[cursor], msg)
    BY <1>2 DEF Visit, Visited
  <1> QED BY <1>1, <1>2

LEMMA VisitCursor ==
  ASSUME TypeOK, Visit
  PROVE  /\ cursor \in DOMAIN Mappings
         /\ cursor' = cursor + 1
         /\ UNCHANGED <<msg, heard, before>>
  BY LenMappings DEF TypeOK, Visit, Idle

\* Init establishes the type invariant.
LEMMA InitTypeOK == Init => TypeOK
  <1> SUFFICES ASSUME Init PROVE TypeOK
    OBVIOUS
  <1>1. additive_state \in [AdditiveNames(Mappings) -> Int]
    BY DEF Init, SeededState
  <1>2. DOMAIN channels = {}
    BY DEF Init
  <1>3. cursor \in 1..Len(Mappings) + 1
    BY LenMappings DEF Init
  <1>4. heard \in [DOMAIN Mappings -> Int \cup {Silent}]
    BY DEF Init
  <1>5. updated \in BOOLEAN /\ msg \in Messages
    BY DEF Init
  <1> QED BY <1>1, <1>2, <1>3, <1>4, <1>5 DEF TypeOK

\* Starting a call keeps the type invariant.
LEMMA CallTypeOK ==
  ASSUME TypeOK, NEW a \in Messages, Call(a)
  PROVE  TypeOK'
  <1>1. a.value \in Int
    BY MessagesAssumption DEF Message
  <1>2. heard' \in [DOMAIN Mappings -> Int \cup {Silent}]
    BY <1>1 DEF TypeOK, Call
  <1>3. cursor' \in 1..Len(Mappings) + 1
    BY LenMappings DEF Call
  <1> QED BY <1>2, <1>3 DEF TypeOK, Call

\* An iteration keeps the type invariant.
LEMMA VisitTypeOK ==
  ASSUME TypeOK, Visit
  PROVE  TypeOK'
  <1> DEFINE m == Mappings[cursor]
             r == Remembered(additive_state, m, msg)
             out == Output(Mappings, r, m, msg)
  <1>1. /\ cursor \in DOMAIN Mappings
        /\ cursor' = cursor + 1
        /\ UNCHANGED <<msg, heard, before>>
    BY VisitCursor
  <1>2. cursor' \in 1..Len(Mappings) + 1
    BY <1>1, LenMappings
  <1>3. CASE ~Matches(m, msg)
    BY <1>1, <1>2, <1>3, VisitOutcomes DEF TypeOK
  <1>4. CASE Matches(m, msg)
    <2>1. /\ additive_state' = r
          /\ channels' = Write(channels, m.target, out)
          /\ updated' = TRUE
      BY <1>4, VisitOutcomes
    <2>2. additive_state' \in [AdditiveNames(Mappings) -> Int]
      BY <1>1, <2>1, RememberedType DEF TypeOK
    <2>3. DOMAIN channels' = DOMAIN channels \cup {m.target}
      BY <2>1 DEF Write
    <2>4. DOMAIN channels' \subseteq Targets(Mappings)
      BY <1>1, <2>3 DEF TypeOK, Targets
    <2>5. out \in RangeOf(m)
      BY <1>1, MappingFields, OutputRange
    <2>6. ASSUME NEW t \in DOMAIN channels'
          PROVE  \E k \in DOMAIN Mappings :
                    Mappings[k].target = t /\ channels'[t] \in RangeOf(Mappings[k])
      <3>1. CASE t = m.target
        <4>1. channels'[t] = out
          BY <2>1, <3>1 DEF Write
        <4> QED BY <1>1, <2>5, <3>1, <4>1
      <3>2. CASE t # m.target
        <4>1. t \in DOMAIN channels /\ channels'[t] = channels[t]
          BY <2>1, <2>3, <3>2 DEF Write
        <4> QED BY <4>1 DEF TypeOK
      <3> QED BY <3>1, <3>2
    <2> QED BY <1>1, <1>2, <2>1, <2>2, <2>4, <2>6 DEF TypeOK
  <1> QED BY <1>3, <1>4

\* Type correctness, with every channel in the range of a mapping that writes
\* it, whatever the configuration's scales, ranges and deadzones are.
THEOREM TypeCorrect == Spec => []TypeOK
  <1>1. Init => TypeOK
    BY InitTypeOK
  <1>2. TypeOK /\ [Next]_vars => TypeOK'
    <2> SUFFICES ASSUME TypeOK, [Next]_vars PROVE TypeOK'
      OBVIOUS
    <2>1. CASE Visit
      BY <2>1, VisitTypeOK
    <2>2. ASSUME NEW a \in Messages, Call(a) PROVE TypeOK'
      BY <2>2, CallTypeOK
    <2>3. CASE UNCHANGED vars
      BY <2>3 DEF TypeOK, vars
    <2> QED BY <2>1, <2>2, <2>3 DEF Next
  <1> QED BY <1>1, <1>2, PTL DEF Spec

-----------------------------------------------------------------------------
(* The additive sum.                                                       *)

\* No two additive mappings of the engine share a name.  The loader does not
\* check it, so it is a hypothesis on the configuration.
UniqueAdditiveNames ==
  \A j, k \in DOMAIN Mappings :
     Mappings[j].additive /\ Mappings[k].additive
       /\ Mappings[j].name = Mappings[k].name => j = k

\* The loop has still to visit k with the current message.
Pending(k) == cursor <= k /\ Matches(Mappings[k], msg)

\* What is remembered under the name of an additive mapping is what the last
\* message sent to it contributes, unless the loop is about to store that.
Sources ==
  \A k \in DOMAIN Mappings :
     Mappings[k].additive /\ ~Pending(k)
       => additive_state[Mappings[k].name] = Contribution(k)

RememberedSum(t) ==
  Total([j \in AdditiveOn(Mappings, t) |-> additive_state[Mappings[j].name]])

\* Also in the middle of a call, a purely additive channel is the clamped sum
\* of what is remembered.
Sums ==
  \A k \in DOMAIN Mappings :
     LET t == Mappings[k].target
     IN  PurelyAdditive(t) /\ t \in DOMAIN channels
           => channels[t] = ClampFor(Mappings[k].channelType, RememberedSum(t))

\* The target of a mapping that heard a message has a channel.
Written ==
  \A k \in DOMAIN Mappings :
     heard[k] # Silent /\ ~Pending(k) => Mappings[k].target \in DOMAIN channels

\* A pending mapping was last sent the message of the running call.
Fresh == \A k \in DOMAIN Mappings : Pending(k) => heard[k] = msg.value

\* The inductive invariant of the sum.
IInv == TypeOK /\ Sources /\ Sums /\ Written /\ Fresh

LEMMA InitIInv == Init => IInv
  <1> SUFFICES ASSUME Init PROVE IInv
    OBVIOUS
  <1>1. TypeOK
    BY InitTypeOK
  <1>2. Sources
    <2> SUFFICES ASSUME NEW k \in DOMAIN Mappings, Mappings[k].additive
                 PROVE  additive_state[Mappings[k].name] = Contribution(k)
      BY DEF Sources
    <2>1. Mappings[k].name \in AdditiveNames(Mappings)
      BY DEF AdditiveNames
    <2> QED BY <2>1 DEF Init, SeededState, Contribution
  <1>3. Sums
    BY DEF Init, Sums
  <1>4. Written
    BY DEF Init, Written
  <1>5. Fresh
    BY LenMappings DEF Init, Fresh, Pending
  <1> QED BY <1>1, <1>2, <1>3, <1>4, <1>5 DEF IInv

\* Starting a call only makes sources pending.
LEMMA CallIInv ==
  ASSUME IInv, NEW a \in Messages, Call(a)
  PROVE  IInv'
  <1>1. TypeOK'
    BY CallTypeOK DEF IInv
  <1>2. ASSUME NEW k \in DOMAIN Mappings, ~Pending(k)'
        PROVE  ~Pending(k) /\ heard'[k] = heard[k]
    <2>1. ~Matches(Mappings[k], a)
      BY <1>2, LenMappings DEF Call, Pending
    <2>2. ~(cursor <= k)
      BY LenMappings DEF Call, Idle
    <2> QED BY <2>1, <2>2 DEF Call, Pending
  <1>3. Sources'
    BY <1>2 DEF IInv, Sources, Contribution, Call
  <1>4. Sums'
    BY DEF IInv, Sums, RememberedSum, Call
  <1>5. Written'
    BY <1>2 DEF IInv, Written, Call
  <1>6. Fresh'
    BY DEF Fresh, Pending, Call
  <1> QED BY <1>1, <1>3, <1>4, <1>5, <1>6 DEF IInv

\* An iteration stores and adds up exactly one source.
LEMMA VisitIInv ==
  ASSUME UniqueAdditiveNames, IInv, Visit
  PROVE  IInv'
  <1> DEFINE m == Mappings[cursor]
             r == Remembered(additive_state, m, msg)
             out == Output(Mappings, r, m, msg)
  <1>1. TypeOK'
    BY VisitTypeOK DEF IInv
  <1>2. /\ cursor \in DOMAIN Mappings
        /\ cursor \in Int
        /\ cursor' = cursor + 1
        /\ UNCHANGED <<msg, heard, before>>
    BY VisitCursor, LenMappings DEF IInv
  <1>3. ASSUME NEW k \in DOMAIN Mappings, ~Pending(k)', k # cursor
        PROVE  ~Pending(k)
    BY <1>2, <1>3, LenMappings DEF Pending
  <1>4. ASSUME NEW k \in DOMAIN Mappings
        PROVE  Contribution(k)' = Contribution(k)
    BY <1>2 DEF Contribution
  <1>5. ASSUME NEW k \in DOMAIN Mappings, Pending(k)'
        PROVE  Pending(k)
    BY <1>2, <1>5, LenMappings DEF Pending
  <1>6. Fresh'
    BY <1>2, <1>5 DEF IInv, Fresh
  <1>7. CASE ~Matches(m, msg)
    <2>1. UNCHANGED <<additive_state, channels>>
      BY <1>7, VisitOutcomes
    <2>2. ASSUME NEW k \in DOMAIN Mappings, ~Pending(k)' PROVE ~Pending(k)
      BY <1>3, <1>7, <2>2 DEF Pending
    <2>3. Sources'
      BY <1>4, <2>1, <2>2 DEF IInv, Sources
    <2>4. Sums'
      BY <2>1 DEF IInv, Sums, RememberedSum
    <2>5. Written'
      BY <1>2, <2>1, <2>2 DEF IInv, Written
    <2> QED BY <1>1, <1>6, <2>3, <2>4, <2>5 DEF IInv
  <1>8. CASE Matches(m, msg)
    <2>1. /\ additive_state' = r
          /\ channels' = Write(channels, m.target, out)
      BY <1>8, VisitOutcomes
    <2>2. Contribution(cursor) = MappedValue(m, msg.value)
      <3>1. heard[cursor] = msg.value
        BY <1>2, <1>8 DEF IInv, Fresh, Pending
      <3>2. msg.value \in Int
        BY MessagesAssumption DEF IInv, TypeOK, Message
      <3> QED BY <3>1, <3>2, SilentAssumption DEF Contribution
    <2>3. ASSUME NEW k \in DOMAIN Mappings, Mappings[k].additive, k # cursor
          PROVE  r[Mappings[k].name] = additive_state[Mappings[k].name]
      BY <1>2, <2>3 DEF Remembered, UniqueAdditiveNames, IInv, TypeOK
    <2>4. m.additive => r[m.name] = MappedValue(m, msg.value)
      <3>1. m.additive => m.name \in AdditiveNames(Mappings)
        BY <1>2 DEF AdditiveNames
      <3> QED BY <3>1 DEF Remembered, IInv, TypeOK
    <2>5. Sources'
      <3> SUFFICES ASSUME NEW k \in DOMAIN Mappings,
                          Mappings[k].additive, ~Pending(k)'
                   PROVE  r[Mappings[k].name] = Contribution(k)
        BY <1>4, <2>1 DEF Sources
      <3>1. CASE k = cursor
        BY <2>2, <2>4, <3>1
      <3>2. CASE k # cursor
        BY <1>3, <2>3, <3>2 DEF IInv, Sources
      <3> QED BY <3>1, <3>2
    <2>6. Written'
      <3> SUFFICES ASSUME NEW k \in DOMAIN Mappings,
                          heard[k] # Silent, ~Pending(k)'
                   PROVE  Mappings[k].target \in DOMAIN channels'
        BY <1>2 DEF Written
      <3>1. DOMAIN channels' = DOMAIN channels \cup {m.target}
        BY <2>1 DEF Write
      <3>2. CASE k = cursor
        BY <3>1, <3>2
      <3>3. CASE k # cursor
        BY <1>3, <3>1, <3>3 DEF IInv, Written
      <3> QED BY <3>2, <3>3
    <2>7. Sums'
      <3> SUFFICES ASSUME NEW k \in DOMAIN Mappings,
                          PurelyAdditive(Mappings[k].target),
                          Mappings[k].target \in DOMAIN channels'
                   PROVE  channels'[Mappings[k].target] =
                            ClampFor(Mappings[k].channelType,
                                     RememberedSum(Mappings[k].target)')
        BY DEF Sums
      <3> DEFINE t == Mappings[k].target
      <3>1. CASE t = m.target
        <4>1. m.additive /\ m.channelType = Mappings[k].channelType
          BY <1>2, <3>1 DEF PurelyAdditive
        <4>2. channels'[t] = out
          BY <2>1, <3>1 DEF Write
        <4> QED BY <2>1, <3>1, <4>1, <4>2 DEF Output, RememberedSum
      <3>2. CASE t # m.target
        <4>1. t \in DOMAIN channels /\ channels'[t] = channels[t]
          BY <2>1, <3>2 DEF Write
        <4>2. \A j \in AdditiveOn(Mappings, t) :
                r[Mappings[j].name] = additive_state[Mappings[j].name]
          BY <2>3, <3>2 DEF AdditiveOn
        <4>3. [j \in AdditiveOn(Mappings, t) |-> r[Mappings[j].name]] =
                [j \in AdditiveOn(Mappings, t) |->
                   additive_state[Mappings[j].name]]
          BY <4>2
        <4>4. RememberedSum(t)' = RememberedSum(t)
          BY <2>1, <4>3 DEF RememberedSum
        <4> QED BY <4>1, <4>4 DEF IInv, Sums
      <3> QED BY <3>1, <3>2
    <2> QED BY <1>1, <1>6, <2>5, <2>6, <2>7 DEF IInv
  <1> QED BY <1>7, <1>8

LEMMA SumFromInvariant == IInv => SumOfLastContributions
  <1> SUFFICES ASSUME IInv, Idle, NEW k \in DOMAIN Mappings,
                      PurelyAdditive(Mappings[k].target), heard[k] # Silent
               PROVE  LET t == Mappings[k].target
                      IN  /\ t \in DOMAIN channels
                          /\ channels[t] =
                               ClampFor(Mappings[k].channelType,
                                 Total([j \in AdditiveOn(Mappings, t) |->
                                          Contribution(j)]))
    BY DEF SumOfLastContributions
  <1> DEFINE t == Mappings[k].target
  <1>1. \A j \in DOMAIN Mappings : ~Pending(j)
    BY LenMappings DEF Idle, Pending
  <1>2. t \in DOMAIN channels
    BY <1>1 DEF IInv, Written
  <1>3. [j \in AdditiveOn(Mappings, t) |-> Contribution(j)] =
          [j \in AdditiveOn(Mappings, t) |-> additive_state[Mappings[j].name]]
    BY <1>1 DEF IInv, Sources, AdditiveOn
  <1>4. channels[t] = ClampFor(Mappings[k].channelType, RememberedSum(t))
    BY <1>2 DEF IInv, Sums
  <1> QED BY <1>2, <1>3, <1>4 DEF RememberedSum

\* Once a call returns, every purely additive channel is the clamped sum of
\* the last contribution of all its sources, for every configuration whose
\* additive mappings have names of their own.
THEOREM SumCorrect ==
  ASSUME UniqueAdditiveNames
  PROVE  Spec => []SumOfLastContributions
  <1>1. Init => IInv
    BY InitIInv
  <1>2. IInv /\ [Next]_vars => IInv'
    <2> SUFFICES ASSUME IInv, [Next]_vars PROVE IInv'
      OBVIOUS
    <2>1. CASE Visit
      BY <2>1, VisitIInv
    <2>2. ASSUME NEW a \in Messages, Call(a) PROVE IInv'
      BY <2>2, CallIInv
    <2>3. CASE UNCHANGED vars
      BY <2>3 DEF IInv, TypeOK, Sources, Sums, Written, Fresh, Pending,
                  Contribution, RememberedSum, vars
    <2> QED BY <2>1, <2>2, <2>3 DEF Next
  <1>3. IInv => SumOfLastContributions
    BY SumFromInvariant
  <1> QED BY <1>1, <1>2, <1>3, PTL DEF Spec

-----------------------------------------------------------------------------
(* Calls do not leak into other channels.                                  *)

\* A channel none of whose mappings matches the current message keeps its
\* value, and none appears or goes.
THEOREM NoCrossTalkHolds == Spec => NoCrossTalk
  <1>1. TypeOK /\ [Next]_vars => [KeepsOthers]_vars
    <2> SUFFICES ASSUME TypeOK, Next,
                        NEW k \in DOMAIN Mappings,
                        \A j \in DOMAIN Mappings :
                          Mappings[j].target = Mappings[k].target
                            => ~Matches(Mappings[j], msg')
                 PROVE  LET t == Mappings[k].target
                        IN  /\ t \in DOMAIN channels' <=> t \in DOMAIN channels
                            /\ t \in DOMAIN channels => channels'[t] = channels[t]
      BY DEF KeepsOthers
    <2>1. CASE Visit
      <3> DEFINE m == Mappings[cursor]
                 r == Remembered(additive_state, m, msg)
      <3>1. cursor \in DOMAIN Mappings /\ UNCHANGED msg
        BY <2>1, VisitCursor
      <3>2. CASE ~Matches(m, msg)
        BY <2>1, <3>2, VisitOutcomes
      <3>3. CASE Matches(m, msg)
        <4>1. m.target # Mappings[k].target
          BY <3>1, <3>3
        <4>2. channels' = Write(channels, m.target, Output(Mappings, r, m, msg))
          BY <2>1, <3>3, VisitOutcomes
        <4> QED BY <4>1, <4>2 DEF Write
      <3> QED BY <3>2, <3>3
    <2>2. ASSUME NEW a \in Messages, Call(a)
          PROVE  UNCHANGED channels
      BY <2>2 DEF Call
    <2> QED BY <2>1, <2>2 DEF Next
  <1> QED BY <1>1, TypeCorrect, PTL DEF Spec, NoCrossTalk

-----------------------------------------------------------------------------
(* The loop implements the call in one step.                               *)

LEMMA NothingVisited ==
  ASSUME NEW s, NEW ch, NEW a,
         s = [n \in DOMAIN s |-> s[n]], ch = [t \in DOMAIN ch |-> ch[t]]
  PROVE  /\ RememberedUpTo(Mappings, s, a, 0) = s
         /\ ChannelsUpTo(Mappings, s, ch, a, 0) = ch
  <1>1. \A j \in Matching(Mappings, a) : ~(j <= 0)
    BY LenMappings DEF Matching
  <1>2. \A n : Storing(Mappings, a, n, 0) = {}
    BY <1>1 DEF Storing
  <1>3. \A t : Writing(Mappings, a, t, 0) = {}
    BY <1>1 DEF Writing
  <1>4. {Mappings[j].target : j \in {i \in Matching(Mappings, a) : i <= 0}} = {}
    BY <1>1
  <1>5. RememberedUpTo(Mappings, s, a, 0) = s
    BY <1>2 DEF RememberedUpTo
  <1>6. ChannelsUpTo(Mappings, s, ch, a, 0) = ch
    BY <1>3, <1>4 DEF ChannelsUpTo
  <1> QED BY <1>5, <1>6

\* Visiting a mapping that does not match adds nothing to the closed form.
LEMMA SkipStep ==
  ASSUME NEW c \in DOMAIN Mappings, NEW s, NEW ch, NEW a,
         ~Matches(Mappings[c], a)
  PROVE  /\ RememberedUpTo(Mappings, s, a, c) = RememberedUpTo(Mappings, s, a, c - 1)
         /\ ChannelsUpTo(Mappings, s, ch, a, c) = ChannelsUpTo(Mappings, s, ch, a, c - 1)
  <1>1. \A j \in Matching(Mappings, a) : j <= c <=> j <= c - 1
    BY LenMappings DEF Matching
  <1>2. \A n : Storing(Mappings, a, n, c) = Storing(Mappings, a, n, c - 1)
    BY <1>1 DEF Storing
  <1>3. \A t : Writing(Mappings, a, t, c) = Writing(Mappings, a, t, c - 1)
    BY <1>1 DEF Writing
  <1>4. {i \in Matching(Mappings, a) : i <= c} = {i \in Matching(Mappings, a) : i <= c - 1}
    BY <1>1
  <1> QED BY <1>2, <1>3, <1>4 DEF RememberedUpTo, ChannelsUpTo

\* Visiting one that does is one iteration's worth of the closed form.
LEMMA MatchStep ==
  ASSUME NEW c \in DOMAIN Mappings, NEW s, NEW ch, NEW a,
         Matches(Mappings[c], a)
  PROVE  LET m == Mappings[c]
             r == Remembered(RememberedUpTo(Mappings, s, a, c - 1), m, a)
         IN  /\ RememberedUpTo(Mappings, s, a, c) = r
             /\ ChannelsUpTo(Mappings, s, ch, a, c) =
                  Write(ChannelsUpTo(Mappings, s, ch, a, c - 1), m.target,
                        Output(Mappings, r, m, a))
  <1> DEFINE m == Mappings[c]
             old == RememberedUpTo(Mappings, s, a, c - 1)
             oldCh == ChannelsUpTo(Mappings, s, ch, a, c - 1)
             r == Remembered(old, m, a)
  <1>1. c \in Matching(Mappings, a) /\ c \in Int
    BY LenMappings DEF Matching
  <1>2. \A j \in Matching(Mappings, a) :
          j \in Int /\ (j <= c <=> j <= c - 1 \/ j = c)
    BY LenMappings DEF Matching
  <1>3. ASSUME NEW n, ~(m.additive /\ m.name = n)
        PROVE  Storing(Mappings, a, n, c) = Storing(Mappings, a, n, c - 1)
    BY <1>2, <1>3 DEF Storing
  <1>4. ASSUME m.additive
        PROVE  /\ Storing(Mappings, a, m.name, c) # {}
               /\ Max(Storing(Mappings, a, m.name, c)) = c
    <2>1. c \in Storing(Mappings, a, m.name, c)
      BY <1>1, <1>4 DEF Storing
    <2>2. Storing(Mappings, a, m.name, c) \in SUBSET Int
      BY <1>2 DEF Storing
    <2>3. \A j \in Storing(Mappings, a, m.name, c) : j <= c
      BY DEF Storing
    <2> QED BY <2>1, <2>2, <2>3, MaxIsLast
  <1>5. RememberedUpTo(Mappings, s, a, c) = r
    <2>1. DOMAIN old = DOMAIN s
      BY DEF RememberedUpTo
    <2>2. DOMAIN r = DOMAIN s
      BY <2>1 DEF Remembered
    <2>3. ASSUME NEW n \in DOMAIN s
          PROVE  RememberedUpTo(Mappings, s, a, c)[n] = r[n]
      <3>1. CASE m.additive /\ m.name = n
        <4>1. RememberedUpTo(Mappings, s, a, c)[n] = MappedValue(m, a.value)
          BY <1>4, <3>1 DEF RememberedUpTo
        <4>2. r[n] = MappedValue(m, a.value)
          BY <2>1, <3>1 DEF Remembered
        <4> QED BY <4>1, <4>2
      <3>2. CASE ~(m.additive /\ m.name = n)
        <4>1. RememberedUpTo(Mappings, s, a, c)[n] = old[n]
          BY <1>3, <3>2 DEF RememberedUpTo
        <4>2. r[n] = old[n]
          BY <2>1, <3>2 DEF Remembered
        <4> QED BY <4>1, <4>2
      <3> QED BY <3>1, <3>2
    <2>4. r = [n \in DOMAIN s |-> r[n]]
      BY <2>2 DEF Remembered, RememberedUpTo
    <2> QED BY <2>3, <2>4 DEF RememberedUpTo
  <1>6. ASSUME NEW t, t # m.target
        PROVE  Writing(Mappings, a, t, c) = Writing(Mappings, a, t, c - 1)
    BY <1>2, <1>6 DEF Writing
  <1>7. /\ Writing(Mappings, a, m.target, c) # {}
        /\ Max(Writing(Mappings, a, m.target, c)) = c
    <2>1. c \in Writing(Mappings, a, m.target, c)
      BY <1>1 DEF Writing
    <2>2. Writing(Mappings, a, m.target, c) \in SUBSET Int
      BY <1>2 DEF Writing
    <2>3. \A j \in Writing(Mappings, a, m.target, c) : j <= c
      BY DEF Writing
    <2> QED BY <2>1, <2>2, <2>3, MaxIsLast
  <1>8. ChannelsUpTo(Mappings, s, ch, a, c) =
          Write(oldCh, m.target, Output(Mappings, r, m, a))
    <2> DEFINE new == ChannelsUpTo(Mappings, s, ch, a, c)
               w == Write(oldCh, m.target, Output(Mappings, r, m, a))
    <2>1. DOMAIN new = DOMAIN oldCh \cup {m.target}
      <3>1. {i \in Matching(Mappings, a) : i <= c} =
              {i \in Matching(Mappings, a) : i <= c - 1} \cup {c}
        BY <1>1, <1>2
      <3> QED BY <3>1 DEF ChannelsUpTo
    <2>2. DOMAIN w = DOMAIN oldCh \cup {m.target}
      BY DEF Write
    <2>3. ASSUME NEW t \in DOMAIN new
          PROVE  new[t] = w[t]
      <3>1. CASE t = m.target
        <4>1. new[t] = Output(Mappings, RememberedUpTo(Mappings, s, a, c), m, a)
          BY <1>7, <3>1 DEF ChannelsUpTo
        <4>2. w[t] = Output(Mappings, r, m, a)
          BY <3>1 DEF Write
        <4> QED BY <1>5, <4>1, <4>2
      <3>2. CASE t # m.target
        <4>1. t \in DOMAIN oldCh
          BY <2>1, <3>2
        <4>2. new[t] = oldCh[t]
          BY <1>6, <3>2, <4>1 DEF ChannelsUpTo
        <4>3. w[t] = oldCh[t]
          BY <3>2, <4>1 DEF Write
        <4> QED BY <4>2, <4>3
      <3> QED BY <3>1, <3>2
    <2>4. new = [t \in DOMAIN new |-> new[t]]
      BY DEF ChannelsUpTo
    <2>5. w = [t \in DOMAIN w |-> w[t]]
      BY DEF Write
    <2> QED BY <2>1, <2>2, <2>3, <2>4, <2>5
  <1> QED BY <1>5, <1>8

\* In the middle of a call the state is the closed form of the mappings
\* visited so far, from what the call started with.
LInv ==
  /\ TypeOK
  /\ channels = [t \in DOMAIN channels |-> channels[t]]
  /\ ~Idle =>
       /\ additive_state =
            RememberedUpTo(Mappings, before.additive_state, msg, cursor - 1)
       /\ channels = ChannelsUpTo(Mappings, before.additive_state,
                                  before.channels, msg, cursor - 1)
       /\ updated = (\E k \in Matching(Mappings, msg) : k <= cursor - 1)

LEMMA InitLInv == Init => LInv
  BY InitTypeOK DEF Init, LInv, Idle

LEMMA CallLInv ==
  ASSUME LInv, NEW a \in Messages, Call(a)
  PROVE  LInv'
  <1>1. TypeOK'
    BY CallTypeOK DEF LInv
  <1>2. cursor' - 1 = 0 /\ msg' = a /\ updated' = FALSE
    BY DEF Call
  <1>3. /\ before'.additive_state = additive_state
        /\ before'.channels = channels
        /\ UNCHANGED <<additive_state, channels>>
    BY DEF Call
  <1>4. additive_state = [n \in DOMAIN additive_state |-> additive_state[n]]
    BY DEF LInv, TypeOK
  <1>5. /\ RememberedUpTo(Mappings, additive_state, a, 0) = additive_state
        /\ ChannelsUpTo(Mappings, additive_state, channels, a, 0) = channels
    BY <1>4, NothingVisited DEF LInv
  <1>6. \A k \in Matching(Mappings, a) : ~(k <= 0)
    BY LenMappings DEF Matching
  <1> QED BY <1>1, <1>2, <1>3, <1>5, <1>6 DEF LInv

LEMMA VisitLInv ==
  ASSUME LInv, Visit
  PROVE  /\ TypeOK'
         /\ channels' = [t \in DOMAIN channels' |-> channels'[t]]
         /\ additive_state' =
              RememberedUpTo(Mappings, before.additive_state, msg, cursor)
         /\ channels' = ChannelsUpTo(Mappings, before.additive_state,
                                     before.channels, msg, cursor)
         /\ updated' = (\E k \in Matching(Mappings, msg) : k <= cursor)
  <1> DEFINE m == Mappings[cursor]
             r == Remembered(additive_state, m, msg)
  <1>1. TypeOK'
    BY VisitTypeOK DEF LInv
  <1>2. cursor \in DOMAIN Mappings /\ cursor \in Int /\ ~Idle
    BY VisitCursor, LenMappings DEF LInv, Visit
  <1>3. \A k \in Matching(Mappings, msg) :
          k \in Int /\ (k <= cursor <=> k <= cursor - 1 \/ k = cursor)
    BY <1>2, LenMappings DEF Matching
  <1>4. CASE ~Matches(m, msg)
    <2>1. UNCHANGED <<additive_state, channels, updated>>
      BY <1>4, VisitOutcomes
    <2>2. cursor \notin Matching(Mappings, msg)
      BY <1>4 DEF Matching
    <2> QED BY <1>1, <1>2, <1>3, <1>4, <2>1, <2>2, SkipStep DEF LInv
  <1>5. CASE Matches(m, msg)
    <2>1. /\ additive_state' = r
          /\ channels' = Write(channels, m.target, Output(Mappings, r, m, msg))
          /\ updated' = TRUE
      BY <1>5, VisitOutcomes
    <2>2. cursor \in Matching(Mappings, msg)
      BY <1>2, <1>5 DEF Matching
    <2>3. channels' = [t \in DOMAIN channels' |-> channels'[t]]
      BY <2>1 DEF Write
    <2> QED BY <1>1, <1>2, <1>3, <1>5, <2>1, <2>2, <2>3, MatchStep DEF LInv
  <1> QED BY <1>4, <1>5

LEMMA VisitKeepsLInv ==
  ASSUME LInv, Visit
  PROVE  LInv'
  <1>1. cursor' - 1 = cursor /\ UNCHANGED <<msg, before>>
    BY LenMappings DEF LInv, TypeOK, Visit
  <1> QED BY <1>1, VisitLInv DEF LInv

LEMMA SpecLInv == Spec => []LInv
  <1>1. LInv /\ [Next]_vars => LInv'
    <2> SUFFICES ASSUME LInv, [Next]_vars PROVE LInv'
      OBVIOUS
    <2>1. CASE Visit
      BY <2>1, VisitKeepsLInv
    <2>2. ASSUME NEW a \in Messages, Call(a) PROVE LInv'
      BY <2>2, CallLInv
    <2>3. CASE UNCHANGED vars
      BY <2>3 DEF LInv, TypeOK, Idle, vars
    <2> QED BY <2>1, <2>2, <2>3 DEF Next
  <1> QED BY <1>1, InitLInv, PTL DEF Spec

\* The step that leaves the engine idle is the one-step call.
LEMMA LastVisit ==
  ASSUME LInv, Visit, Idle'
  PROVE  LET s == Apply(Mappings, before.additive_state, before.channels, msg)
         IN  /\ additive_state' = s.additive_state
             /\ channels' = s.channels
             /\ updated' = s.updated
  <1>1. cursor = Len(Mappings)
    BY LenMappings DEF LInv, TypeOK, Visit, Idle
  <1>2. (\E k \in Matching(Mappings, msg) : k <= Len(Mappings))
          <=> Matching(Mappings, msg) # {}
    BY LenMappings DEF Matching
  <1> QED BY <1>1, <1>2, VisitLInv DEF Apply

\* MappingEngine's loop implements AtomicEngine: a caller that waits for
\* Apply to return sees one step, for every configuration.
THEOREM LoopImplementsAtomicEngine == Spec => AtomicSpec
  <1>1. Init => Atomic!Init
    BY DEF Init, Idle, Atomic!Init
  <1>2. LInv /\ [Next]_vars => [Atomic!Next]_(Atomic!vars)
    <2> SUFFICES ASSUME LInv, [Next]_vars
                 PROVE  Atomic!Next \/ UNCHANGED Atomic!vars
      OBVIOUS
    <2>1. CASE Visit
      <3>1. ~Idle /\ UNCHANGED <<msg, before>>
        BY <2>1 DEF Visit
      <3>2. CASE ~Idle'
        BY <3>1, <3>2 DEF Atomic!vars
      <3>3. CASE Idle'
        <4>1. Atomic!Receive(msg)
          BY <2>1, <3>1, <3>3, LastVisit DEF Atomic!Receive, AppliedTo
        <4> QED BY <4>1 DEF Atomic!Next, LInv, TypeOK
      <3> QED BY <3>2, <3>3
    <2>2. ASSUME NEW a \in Messages, Call(a)
          PROVE  Atomic!Next \/ UNCHANGED Atomic!vars
      <3>1. CASE ~Idle'
        BY <2>2, <3>1 DEF Call, Atomic!vars
      <3>2. CASE Idle'
        <4>1. Len(Mappings) = 0
          BY <2>2, <3>2, LenMappings DEF Call, Idle
        <4>2. additive_state = [n \in DOMAIN additive_state |-> additive_state[n]]
          BY DEF LInv, TypeOK
        <4>3. Matching(Mappings, a) = {}
          BY <4>1, LenMappings DEF Matching
        <4>4. /\ RememberedUpTo(Mappings, additive_state, a, 0) = additive_state
              /\ ChannelsUpTo(Mappings, additive_state, channels, a, 0) = channels
          BY <4>2, NothingVisited DEF LInv
        <4>5. Idle /\ UNCHANGED <<additive_state, channels>> /\ updated' = FALSE
          BY <2>2 DEF Call
        <4>6. LET s == Apply(Mappings, additive_state, channels, a)
              IN  /\ additive_state' = s.additive_state
                  /\ channels' = s.channels
                  /\ updated' = s.updated
          BY <4>1, <4>3, <4>4, <4>5 DEF Apply
        <4>7. Atomic!Receive(a)
          BY <3>2, <4>5, <4>6 DEF Atomic!Receive, AppliedTo
        <4> QED BY <4>7 DEF Atomic!Next
      <3> QED BY <3>1, <3>2
    <2>3. CASE UNCHANGED vars
      BY <2>3 DEF vars, Idle, Atomic!vars
    <2> QED BY <2>1, <2>2, <2>3 DEF Next
  <1> QED BY <1>1, <1>2, SpecLInv, PTL DEF Spec, AtomicSpec, Atomic!Spec
-----------------------------------------------------------------------------
(* What a call leaves behind.                                              *)

\* An additive mapping whose name is its own: what is remembered under it
\* after the first n mappings.
LEMMA RememberedIs ==
  ASSUME UniqueAdditiveNames, NEW s, NEW a, NEW n \in Int,
         NEW k \in DOMAIN Mappings, Mappings[k].additive,
         Mappings[k].name \in DOMAIN s
  PROVE  RememberedUpTo(Mappings, s, a, n)[Mappings[k].name] =
           IF Matches(Mappings[k], a) /\ k <= n
           THEN MappedValue(Mappings[k], a.value) ELSE s[Mappings[k].name]
  <1> DEFINE S == Storing(Mappings, a, Mappings[k].name, n)
  <1>1. S = IF Matches(Mappings[k], a) /\ k <= n THEN {k} ELSE {}
    BY DEF Storing, Matching, UniqueAdditiveNames
  <1>2. Max({k}) = k
    <2>1. {k} \in SUBSET Int /\ \A j \in {k} : j <= k
      BY LenMappings
    <2> QED BY <2>1, MaxIsLast
  <1>3. RememberedUpTo(Mappings, s, a, n)[Mappings[k].name] =
          IF S = {} THEN s[Mappings[k].name]
          ELSE MappedValue(Mappings[Max(S)], a.value)
    BY DEF RememberedUpTo
  <1> HIDE DEF S
  <1>4. CASE Matches(Mappings[k], a) /\ k <= n
    BY <1>1, <1>2, <1>3, <1>4
  <1>5. CASE ~(Matches(Mappings[k], a) /\ k <= n)
    BY <1>1, <1>3, <1>5
  <1> QED BY <1>4, <1>5

\* What a call remembers is of the type of what there was.
LEMMA RememberedUpToType ==
  ASSUME NEW s \in [AdditiveNames(Mappings) -> Int], NEW a
  PROVE  RememberedUpTo(Mappings, s, a, Len(Mappings))
           \in [AdditiveNames(Mappings) -> Int]
  <1> DEFINE last == Len(Mappings)
  <1>1. ASSUME NEW n, Storing(Mappings, a, n, last) # {}
        PROVE  MappedValue(Mappings[Max(Storing(Mappings, a, n, last))], a.value)
                 \in Int
    <2> DEFINE k == Max(Storing(Mappings, a, n, last))
    <2>1. Storing(Mappings, a, n, last) \in SUBSET DOMAIN Mappings
      BY DEF Storing, Matching
    <2>2. k \in DOMAIN Mappings
      BY <1>1, <2>1, GreatestIndex
    <2> HIDE DEF k
    <2> QED BY <2>2, MappingFields, MappedValueRange DEF k
  <1> QED BY <1>1 DEF RememberedUpTo

\* Additive mappings that share a name write the same target.
NamesKeepToTargets ==
  \A j, k \in DOMAIN Mappings :
     Mappings[j].additive /\ Mappings[k].additive
       /\ Mappings[j].name = Mappings[k].name
       => Mappings[j].target = Mappings[k].target

\* The mapping that writes a target last decides with what is remembered at
\* the end of the call: no additive mapping of that target comes later.
LEMMA LastWriterOf ==
  ASSUME NamesKeepToTargets, NEW s \in [AdditiveNames(Mappings) -> Int],
         NEW ch, NEW a, NEW t,
         Writing(Mappings, a, t, Len(Mappings)) # {}
  PROVE  LET w == Max(Writing(Mappings, a, t, Len(Mappings)))
         IN  /\ w \in Matching(Mappings, a)
             /\ Mappings[w].target = t
             /\ ChannelsUpTo(Mappings, s, ch, a, Len(Mappings))[t] =
                  Output(Mappings,
                         RememberedUpTo(Mappings, s, a, Len(Mappings)),
                         Mappings[w], a)
  <1> DEFINE last == Len(Mappings)
             W == Writing(Mappings, a, t, last)
             w == Max(W)
             now == RememberedUpTo(Mappings, s, a, w)
             end == RememberedUpTo(Mappings, s, a, last)
  <1>1. W \in SUBSET DOMAIN Mappings
    BY DEF Writing, Matching
  <1>2. w \in W /\ \A i \in W : i <= w
    BY <1>1, GreatestIndex
  <1>3. w \in Matching(Mappings, a) /\ Mappings[w].target = t
    BY <1>2 DEF Writing
  <1>4. t \in {Mappings[j].target : j \in {i \in Matching(Mappings, a) : i <= last}}
    BY <1>2 DEF Writing
  <1>5. ChannelsUpTo(Mappings, s, ch, a, last)[t] =
          Output(Mappings, now, Mappings[w], a)
    BY <1>4 DEF ChannelsUpTo
  <1>6. \A j \in AdditiveOn(Mappings, t) :
          now[Mappings[j].name] = end[Mappings[j].name]
    <2> SUFFICES ASSUME NEW j \in AdditiveOn(Mappings, t)
                 PROVE  now[Mappings[j].name] = end[Mappings[j].name]
      OBVIOUS
    <2> DEFINE n == Mappings[j].name
    <2>1. /\ j \in DOMAIN Mappings /\ Mappings[j].additive
          /\ Mappings[j].target = t /\ n \in DOMAIN s
      BY DEF AdditiveOn, AdditiveNames
    <2>2. \A i \in Matching(Mappings, a) :
            Mappings[i].additive /\ Mappings[i].name = n => i \in W
      BY <2>1, LenMappings DEF NamesKeepToTargets, Writing, Matching
    <2>3. Storing(Mappings, a, n, w) = Storing(Mappings, a, n, last)
      <3> HIDE DEF w, W
      <3>1. \A i \in Matching(Mappings, a) : i <= last
        BY LenMappings DEF Matching
      <3> QED BY <1>2, <2>2, <3>1 DEF Storing
    <2> QED BY <2>1, <2>3 DEF RememberedUpTo
  <1>7. Output(Mappings, now, Mappings[w], a) =
          Output(Mappings, end, Mappings[w], a)
    <2> HIDE DEF now, end, w
    <2>1. [j \in AdditiveOn(Mappings, Mappings[w].target) |->
             now[Mappings[j].name]] =
          [j \in AdditiveOn(Mappings, Mappings[w].target) |->
             end[Mappings[j].name]]
      BY <1>3, <1>6
    <2> QED BY <2>1 DEF Output
  <1> QED BY <1>3, <1>5, <1>7

\* A sample that DDS delivers twice changes nothing the second time.  A name
\* shared across targets would let the first of them see, when the call is
\* repeated, what the second one's mapping stored.
THEOREM RedeliveryIsHarmless ==
  ASSUME NamesKeepToTargets
  PROVE  Spec => []RedeliveryHarmless
  <1>1. LInv => RedeliveryHarmless
    <2> SUFFICES ASSUME LInv, NEW a \in Messages
                 PROVE  AfterBoth(a, a) = After(a)
      BY DEF RedeliveryHarmless
    <2> DEFINE last == Len(Mappings)
               s1 == RememberedUpTo(Mappings, additive_state, a, last)
               c1 == ChannelsUpTo(Mappings, additive_state, channels, a, last)
               s2 == RememberedUpTo(Mappings, s1, a, last)
               c2 == ChannelsUpTo(Mappings, s1, c1, a, last)
               written == {Mappings[j].target :
                             j \in {i \in Matching(Mappings, a) : i <= last}}
    <2>1. /\ additive_state \in [AdditiveNames(Mappings) -> Int]
          /\ s1 \in [AdditiveNames(Mappings) -> Int]
      <3>1. additive_state \in [AdditiveNames(Mappings) -> Int]
        BY DEF LInv, TypeOK
      <3> QED BY <3>1, RememberedUpToType
    <2>2. s2 = s1
      <3>1. DOMAIN s2 = DOMAIN additive_state /\ DOMAIN s1 = DOMAIN additive_state
        BY DEF RememberedUpTo
      <3>2. \A n \in DOMAIN additive_state : s2[n] = s1[n]
        BY DEF RememberedUpTo
      <3>3. s1 = [n \in DOMAIN s1 |-> s1[n]] /\ s2 = [n \in DOMAIN s2 |-> s2[n]]
        BY DEF RememberedUpTo
      <3> QED BY <3>1, <3>2, <3>3
    <2>3. c2 = c1
      <3>1. DOMAIN c1 = DOMAIN channels \cup written
        BY DEF ChannelsUpTo
      <3>2. DOMAIN c2 = DOMAIN c1
        BY <3>1 DEF ChannelsUpTo
      <3>3. ASSUME NEW t \in DOMAIN c1 PROVE c2[t] = c1[t]
        <4>1. CASE Writing(Mappings, a, t, last) = {}
          BY <3>2, <3>3, <4>1 DEF ChannelsUpTo
        <4>2. CASE Writing(Mappings, a, t, last) # {}
          <5> DEFINE w == Max(Writing(Mappings, a, t, last))
          <5> HIDE DEF s1, s2, w
          <5>1. c1[t] = Output(Mappings, s1, Mappings[w], a)
            BY <2>1, <4>2, LastWriterOf DEF s1, w
          <5>2. c2[t] = Output(Mappings, s2, Mappings[w], a)
            BY <2>1, <4>2, LastWriterOf DEF s2, w
          <5> QED BY <2>2, <5>1, <5>2
        <4> QED BY <4>1, <4>2
      <3>4. c1 = [t \in DOMAIN c1 |-> c1[t]] /\ c2 = [t \in DOMAIN c2 |-> c2[t]]
        BY DEF ChannelsUpTo
      <3> QED BY <3>2, <3>3, <3>4
    <2> QED BY <2>2, <2>3 DEF AfterBoth, After, Apply
  <1> QED BY <1>1, SpecLInv, PTL

-----------------------------------------------------------------------------
(* Two calls in one order and in the other.                                *)

\* The sum of what is remembered, as a purely additive target shows it.
SumShown(k, s) ==
  ClampFor(Mappings[k].channelType,
           Total([j \in AdditiveOn(Mappings, Mappings[k].target) |->
                    s[Mappings[j].name]]))

\* Some mapping of the target matches the message.
HitBy(a, t) == \E j \in Matching(Mappings, a) : Mappings[j].target = t

\* A call shows the new sum on the purely additive targets it writes.
LEMMA PurelyAdditiveAfter ==
  ASSUME UniqueAdditiveNames, NEW s \in [AdditiveNames(Mappings) -> Int],
         NEW ch, NEW a, NEW k \in DOMAIN Mappings,
         PurelyAdditive(Mappings[k].target),
         Mappings[k].target
           \in DOMAIN ChannelsUpTo(Mappings, s, ch, a, Len(Mappings))
  PROVE  LET t == Mappings[k].target
         IN  ChannelsUpTo(Mappings, s, ch, a, Len(Mappings))[t] =
               IF HitBy(a, t)
               THEN SumShown(k, RememberedUpTo(Mappings, s, a, Len(Mappings)))
               ELSE ch[t]
  <1> DEFINE t == Mappings[k].target
             last == Len(Mappings)
             W == Writing(Mappings, a, t, last)
             c == ChannelsUpTo(Mappings, s, ch, a, last)
  <1>1. W # {} <=> HitBy(a, t)
    BY LenMappings DEF Writing, HitBy, Matching
  <1>2. CASE W = {}
    BY <1>1, <1>2 DEF ChannelsUpTo
  <1>3. CASE W # {}
    <2> DEFINE w == Max(W)
               end == RememberedUpTo(Mappings, s, a, last)
    <2>1. /\ w \in Matching(Mappings, a) /\ Mappings[w].target = t
          /\ c[t] = Output(Mappings, end, Mappings[w], a)
      BY <1>3, LastWriterOf DEF NamesKeepToTargets, UniqueAdditiveNames
    <2> HIDE DEF w, end, c
    <2>2. Mappings[w].additive /\ Mappings[w].channelType = Mappings[k].channelType
      BY <2>1 DEF PurelyAdditive, Matching
    <2>3. c[t] = SumShown(k, end)
      BY <2>1, <2>2 DEF Output, SumShown
    <2> QED BY <1>1, <1>3, <2>3 DEF c, end
  <1> QED BY <1>2, <1>3

\* What additive mappings of a target have remembered after two calls of
\* different sources.
LEMMA RememberedAfterBoth ==
  ASSUME UniqueAdditiveNames, NEW s \in [AdditiveNames(Mappings) -> Int],
         NEW a, NEW b, NEW j \in DOMAIN Mappings, Mappings[j].additive
  PROVE  LET n == Mappings[j].name
             last == Len(Mappings)
             sa == RememberedUpTo(Mappings, s, a, last)
         IN  RememberedUpTo(Mappings, sa, b, last)[n] =
               IF Matches(Mappings[j], b) THEN MappedValue(Mappings[j], b.value)
               ELSE IF Matches(Mappings[j], a)
               THEN MappedValue(Mappings[j], a.value) ELSE s[n]
  <1> DEFINE n == Mappings[j].name
             last == Len(Mappings)
             sa == RememberedUpTo(Mappings, s, a, last)
  <1>1. n \in DOMAIN s /\ n \in DOMAIN sa
    BY DEF AdditiveNames, RememberedUpTo
  <1>2. last \in Int /\ j <= last
    BY LenMappings
  <1>3. sa[n] = IF Matches(Mappings[j], a)
                THEN MappedValue(Mappings[j], a.value) ELSE s[n]
    BY <1>1, <1>2, RememberedIs
  <1> HIDE DEF sa
  <1>4. RememberedUpTo(Mappings, sa, b, last)[n] =
          IF Matches(Mappings[j], b)
          THEN MappedValue(Mappings[j], b.value) ELSE sa[n]
    BY <1>1, <1>2, RememberedIs
  <1> QED BY <1>3, <1>4 DEF sa

\* Samples of two sources may reach the engine in either order: purely
\* additive channels are the same.
THEOREM OrderDoesNotMatter ==
  ASSUME UniqueAdditiveNames
  PROVE  Spec => []OrderIndependent
  <1>1. TypeOK => OrderIndependent
    <2> DEFINE last == Len(Mappings)
               s == additive_state
               Rem(x, a) == RememberedUpTo(Mappings, x, a, last)
               Chs(x, c, a) == ChannelsUpTo(Mappings, x, c, a, last)
               Both(a, b) == Chs(Rem(s, a), Chs(s, channels, a), b)
    <2> SUFFICES ASSUME TypeOK, NEW a \in Messages, NEW b \in Messages,
                        a.id # b.id,
                        NEW t \in DOMAIN Both(a, b), PurelyAdditive(t)
                 PROVE  Both(a, b)[t] = Both(b, a)[t]
      BY DEF OrderIndependent, AfterBoth, After, Apply
    <2>1. s \in [AdditiveNames(Mappings) -> Int]
          /\ \A x \in Messages : Rem(s, x) \in [AdditiveNames(Mappings) -> Int]
      BY RememberedUpToType DEF TypeOK
    <2>2. PICK k \in DOMAIN Mappings : Mappings[k].target = t
      BY DEF TypeOK, Targets, ChannelsUpTo, Matching
    <2>3. \A x \in Messages : \A c, y :
            t \in DOMAIN Chs(y, c, x) <=> t \in DOMAIN c \/ HitBy(x, t)
      BY LenMappings DEF ChannelsUpTo, HitBy, Matching
    <2> HIDE DEF Rem, Chs
    <2>4. \A x \in Messages, y \in [AdditiveNames(Mappings) -> Int] : \A c :
             t \in DOMAIN Chs(y, c, x) =>
               Chs(y, c, x)[t] = IF HitBy(x, t) THEN SumShown(k, Rem(y, x)) ELSE c[t]
      BY <2>2, PurelyAdditiveAfter DEF Rem, Chs
    <2>5. SumShown(k, Rem(Rem(s, a), b)) = SumShown(k, Rem(Rem(s, b), a))
      <3>1. ASSUME NEW j \in AdditiveOn(Mappings, t)
            PROVE  Rem(Rem(s, a), b)[Mappings[j].name] =
                     Rem(Rem(s, b), a)[Mappings[j].name]
        <4>1. j \in DOMAIN Mappings /\ Mappings[j].additive
          BY DEF AdditiveOn
        <4>2. ~(Matches(Mappings[j], a) /\ Matches(Mappings[j], b))
          BY DEF Matches
        <4>3. \A x, y \in Messages :
                Rem(Rem(s, x), y)[Mappings[j].name] =
                  IF Matches(Mappings[j], y)
                  THEN MappedValue(Mappings[j], y.value)
                  ELSE IF Matches(Mappings[j], x)
                  THEN MappedValue(Mappings[j], x.value)
                  ELSE s[Mappings[j].name]
          BY <2>1, <4>1, RememberedAfterBoth DEF Rem
        <4> QED BY <4>2, <4>3
      <3> QED BY <2>2, <3>1 DEF SumShown
    <2>6. ASSUME NEW x \in Messages, NEW y \in Messages, ~HitBy(y, t)
          PROVE  SumShown(k, Rem(Rem(s, x), y)) = SumShown(k, Rem(s, x))
      <3>1. ASSUME NEW j \in AdditiveOn(Mappings, t)
            PROVE  Rem(Rem(s, x), y)[Mappings[j].name] =
                     Rem(s, x)[Mappings[j].name]
        <4>1. /\ j \in DOMAIN Mappings /\ Mappings[j].additive
              /\ Mappings[j].target = t /\ Mappings[j].name \in DOMAIN s
              /\ Mappings[j].name \in DOMAIN Rem(s, x)
          BY <2>1 DEF AdditiveOn, AdditiveNames
        <4>2. ~Matches(Mappings[j], y)
          BY <2>6, <4>1 DEF HitBy, Matching
        <4> QED BY <4>1, <4>2, RememberedIs, LenMappings DEF Rem
      <3> QED BY <2>2, <3>1 DEF SumShown
    <2>7. ASSUME NEW x \in Messages, NEW y \in Messages,
                 t \in DOMAIN channels \/ HitBy(x, t) \/ HitBy(y, t)
          PROVE  Both(x, y)[t] = IF HitBy(x, t) \/ HitBy(y, t)
                                 THEN SumShown(k, Rem(Rem(s, x), y))
                                 ELSE channels[t]
      <3>1. t \in DOMAIN Both(x, y)
        BY <2>3, <2>7
      <3>2. Both(x, y)[t] = IF HitBy(y, t) THEN SumShown(k, Rem(Rem(s, x), y))
                            ELSE Chs(s, channels, x)[t]
        BY <2>1, <2>4, <3>1
      <3>3. CASE HitBy(y, t)
        BY <3>2, <3>3
      <3>4. CASE ~HitBy(y, t)
        <4>1. t \in DOMAIN Chs(s, channels, x)
          BY <2>3, <2>7, <3>4
        <4>2. Chs(s, channels, x)[t] =
                IF HitBy(x, t) THEN SumShown(k, Rem(s, x)) ELSE channels[t]
          BY <2>1, <2>4, <4>1
        <4> QED BY <2>6, <3>2, <3>4, <4>2
      <3> QED BY <3>3, <3>4
    <2>8. t \in DOMAIN channels \/ HitBy(a, t) \/ HitBy(b, t)
      BY <2>3
    <2> QED BY <2>5, <2>7, <2>8
  <1> QED BY <1>1, TypeCorrect, PTL

-----------------------------------------------------------------------------
(* The last writer wins.                                                   *)

\* Among the mappings visited with the current message, the last one of a
\* target is what the target shows, unless it adds.
LastShown ==
  \A k \in Matching(Mappings, msg) :
     (/\ k < cursor
      /\ ~Mappings[k].additive
      /\ \A j \in Matching(Mappings, msg) :
           j > k /\ Mappings[j].target = Mappings[k].target => cursor <= j)
     => /\ Mappings[k].target \in DOMAIN channels
        /\ channels[Mappings[k].target] = MappedValue(Mappings[k], msg.value)

\* It holds from the first call on.
WInv == TypeOK /\ (~Idle \/ updated => LastShown)

\* An iteration either writes the target of its mapping, or none.
LEMMA VisitWInv ==
  ASSUME WInv, Visit
  PROVE  WInv'
  <1> DEFINE m == Mappings[cursor]
             r == Remembered(additive_state, m, msg)
             out == Output(Mappings, r, m, msg)
  <1>1. TypeOK'
    BY VisitTypeOK DEF WInv
  <1>2. /\ cursor \in DOMAIN Mappings /\ cursor \in Int
        /\ cursor' = cursor + 1 /\ UNCHANGED <<msg, heard, before>>
    BY VisitCursor, LenMappings DEF WInv
  <1>3. LastShown
    BY DEF WInv, Visit
  <1>4. ASSUME NEW k \in Matching(Mappings, msg),
               k < cursor', ~Mappings[k].additive,
               \A j \in Matching(Mappings, msg) :
                 j > k /\ Mappings[j].target = Mappings[k].target => cursor' <= j
        PROVE  /\ Mappings[k].target \in DOMAIN channels'
               /\ channels'[Mappings[k].target] = MappedValue(Mappings[k], msg.value)
    <2>1. /\ k \in Int /\ (k < cursor \/ k = cursor)
          /\ \A j \in Matching(Mappings, msg) : j \in Int
          /\ Matches(Mappings[k], msg)
      BY <1>2, <1>4, LenMappings DEF Matching
    <2>2. CASE k = cursor
      <3>1. channels' = Write(channels, m.target, out)
        BY <2>1, <2>2, VisitOutcomes
      <3>2. out = MappedValue(m, msg.value)
        BY <1>4, <2>2 DEF Output
      <3> QED BY <2>2, <3>1, <3>2 DEF Write
    <2>3. CASE k < cursor
      <3>1. /\ Mappings[k].target \in DOMAIN channels
            /\ channels[Mappings[k].target] = MappedValue(Mappings[k], msg.value)
        BY <1>2, <1>3, <1>4, <2>1, <2>3 DEF LastShown
      <3>2. CASE ~Matches(m, msg)
        BY <3>1, <3>2, VisitOutcomes
      <3>3. CASE Matches(m, msg)
        <4>1. m.target # Mappings[k].target
          BY <1>2, <1>4, <2>3, <3>3 DEF Matching
        <4>2. channels' = Write(channels, m.target, out)
          BY <3>3, VisitOutcomes
        <4> QED BY <3>1, <4>1, <4>2 DEF Write
      <3> QED BY <3>2, <3>3
    <2> QED BY <2>1, <2>2, <2>3
  <1>5. LastShown'
    BY <1>2, <1>4 DEF LastShown
  <1> QED BY <1>1, <1>5 DEF WInv

\* When a call starts, nothing is visited.
LEMMA CallWInv ==
  ASSUME WInv, NEW a \in Messages, Call(a)
  PROVE  WInv'
  <1>1. TypeOK'
    BY CallTypeOK DEF WInv
  <1>2. LastShown'
    BY LenMappings DEF Call, LastShown, Matching
  <1> QED BY <1>1, <1>2 DEF WInv

\* The mapping that comes last in the configuration wins its target, unless it
\* is additive.
THEOREM LastWriterAlwaysWins == Spec => []LastWriterWins
  <1>1. Init => WInv
    BY InitTypeOK DEF Init, WInv, Idle
  <1>2. WInv /\ [Next]_vars => WInv'
    <2> SUFFICES ASSUME WInv, [Next]_vars PROVE WInv'
      OBVIOUS
    <2>1. CASE Visit
      BY <2>1, VisitWInv
    <2>2. ASSUME NEW a \in Messages, Call(a) PROVE WInv'
      BY <2>2, CallWInv
    <2>3. CASE UNCHANGED vars
      BY <2>3 DEF WInv, TypeOK, Idle, LastShown, vars
    <2> QED BY <2>1, <2>2, <2>3 DEF Next
  <1>3. WInv => LastWriterWins
    BY LenMappings DEF WInv, Idle, LastShown, LastWriterWins, Matching
  <1> QED BY <1>1, <1>2, <1>3, PTL DEF Spec

-----------------------------------------------------------------------------
(* The report that VigemClient makes of the channels.                      *)

\* An order of the map visits every key.
LEMMA VisitOrders ==
  ASSUME NEW S, IsFiniteSet(S), NEW keys \in SetToSeqs(S)
  PROVE  /\ Len(keys) \in Nat /\ keys \in Seq(S)
         /\ \A x \in S : \E i \in 1..Len(keys) : keys[i] = x
  <1> DEFINE D == 1..Cardinality(S)
  <1>1. keys \in [D -> S] /\ \A i,j \in D : i # j => keys[i] # keys[j]
    BY Zenon DEF SetToSeqs
  <1>2. Cardinality(S) \in Nat
    BY FS_CardinalityType
  <1>3. keys \in Injection(D, S)
    BY <1>1 DEF Injection, IsInjective
  <1>4. IsFiniteSet(D) /\ Cardinality(D) = Cardinality(S)
    BY <1>2, FS_Interval
  <1>5. keys \in Surjection(D, S)
    BY <1>3, <1>4, FS_Injection
  <1>6. \A x \in S : \E i \in D : keys[i] = x
    BY <1>5 DEF Surjection
  <1>7. keys \in Seq(S) /\ Len(keys) = Cardinality(S)
    BY <1>1, <1>2
  <1> QED BY <1>2, <1>6, <1>7

\* The fields of the report that are numbers.
Analog == {"bLeftTrigger", "bRightTrigger", "sThumbLX", "sThumbLY", "sThumbRX", "sThumbRY"}

\* Every control has a field or a bit of its own.
LEMMA AxisFields ==
  /\ AxisField \in [DOMAIN AxisField -> Analog]
  /\ \A j, k \in DOMAIN AxisField : AxisField[j] = AxisField[k] => j = k
  BY DEF AxisField, Analog

\* The same of the triggers.
LEMMA TriggerFields ==
  /\ TriggerField \in [DOMAIN TriggerField -> Analog]
  /\ \A j, k \in DOMAIN TriggerField : TriggerField[j] = TriggerField[k] => j = k
  BY DEF TriggerField, Analog

\* No axis is a trigger.
LEMMA TriggersApart ==
  \A j \in DOMAIN AxisField, k \in DOMAIN TriggerField : AxisField[j] # TriggerField[k] /\ j # k
  BY DEF AxisField, TriggerField

\* No button is either.
LEMMA ButtonsApart ==
  /\ \A j \in DOMAIN AxisField, k \in DOMAIN Mask : j # k
  /\ \A j \in DOMAIN TriggerField, k \in DOMAIN Mask : j # k
  BY DEF AxisField, TriggerField, Mask

\* No two buttons share a bit.
LEMMA MaskBits ==
  \A j, k \in DOMAIN Mask : Mask[j] = Mask[k] => j = k
  BY DEF Mask

\* At rest the fields are 0 ...
LEMMA RestFields == \A f \in Analog : AtRest[f] = 0
  BY DEF AtRest, Analog

\* ... and no button is down.
LEMMA RestButtons == AtRest.wButtons = {}
  BY DEF AtRest

\* XUSB_REPORT.
Report ==
  [wButtons : SUBSET Int, bLeftTrigger : Int, bRightTrigger : Int,
   sThumbLX : Int, sThumbLY : Int, sThumbRX : Int, sThumbRY : Int]

\* It begins as one.
LEMMA RestReport == AtRest \in Report
  BY DEF AtRest, Report

\* A report with one field set.
With(r, f, v) == [r EXCEPT ![f] = v]

\* The other fields stay.
LEMMA OneField ==
  ASSUME NEW r \in Report, NEW f \in Analog, NEW v \in Int
  PROVE  /\ With(r, f, v) \in Report /\ With(r, f, v).wButtons = r.wButtons
         /\ \A g \in Analog : With(r, f, v)[g] = IF g = f THEN v ELSE r[g]
  <1> USE DEF With
  <1>1. CASE f = "bLeftTrigger"
    BY <1>1 DEF Report, Analog
  <1>2. CASE f = "bRightTrigger"
    BY <1>2 DEF Report, Analog
  <1>3. CASE f = "sThumbLX"
    BY <1>3 DEF Report, Analog
  <1>4. CASE f = "sThumbLY"
    BY <1>4 DEF Report, Analog
  <1>5. CASE f = "sThumbRX"
    BY <1>5 DEF Report, Analog
  <1>6. CASE f = "sThumbRY"
    BY <1>6 DEF Report, Analog
  <1> QED BY <1>1, <1>2, <1>3, <1>4, <1>5, <1>6 DEF Analog

\* The same of the buttons.
LEMMA OnlyBits ==
  ASSUME NEW r \in Report, NEW b \in SUBSET Int
  PROVE  LET s == [r EXCEPT !.wButtons = b]
         IN  /\ s \in Report /\ s.wButtons = b
             /\ \A g \in Analog : s[g] = r[g]
  BY DEF Report, Analog

\* LRound is no more than half a step off.
LEMMA Nearest ==
  ASSUME NEW n \in Int, NEW d \in Nat \ {0}
  PROVE  /\ LRound(n, d) \in Int
         /\ 2 * (LRound(n, d) * d - n) \in -d..d
  <1> DEFINE q == (2 * n + d) \div (2 * d)
             p == (d - 2 * n) \div (2 * d)
  <1>1. CASE n < 0
    <2>1. p \in Int /\ (d - 2 * n) - (2 * d) * p \in 0..2 * d - 1
      OBVIOUS
    <2> QED BY <1>1, <2>1 DEF LRound
  <1>2. CASE ~(n < 0)
    <2>1. q \in Int /\ (2 * n + d) - (2 * d) * q \in 0..2 * d - 1
      OBVIOUS
    <2> QED BY <1>2, <2>1 DEF LRound
  <1> QED BY <1>1, <1>2

\* The conversions give whole numbers.
LEMMA Conversions ==
  ASSUME NEW v \in Int
  PROVE  AxisFromNormalized(v) \in Int /\ TriggerFromNormalized(v) \in Int
  <1>1. Unit \in Nat \ {0} /\ v * Int16Max \in Int /\ Int16Max \in Int /\ Int16Min \in Int
    BY UnitAssumption DEF Int16Max, Int16Min
  <1>2. LRound(v * Int16Max, Unit) \in Int
    BY <1>1, Nearest
  <1>3. AxisFromNormalized(v) \in Int
    BY <1>1, <1>2 DEF AxisFromNormalized
  <1>4. Clamp(v, 0, Unit) * 255 \in Int
    BY <1>1 DEF Clamp
  <1> QED BY <1>1, <1>3, <1>4, Nearest DEF TriggerFromNormalized

\* An axis shows its channel.
LEMMA AxisShows ==
  ASSUME NEW v \in -Unit..Unit
  PROVE  Shows(AxisFromNormalized(v), v, Int16Max)
  <1>1. Unit \in Nat \ {0} /\ v \in Int
    BY UnitAssumption
  <1>2. CASE v <= -Unit
    <2>1. v = -Unit /\ AxisFromNormalized(v) = -32768
      BY <1>1, <1>2 DEF AxisFromNormalized, Int16Min
    <2> QED BY <1>1, <2>1 DEF Shows, Int16Max
  <1>3. CASE v >= Unit
    <2>1. v = Unit /\ AxisFromNormalized(v) = 32767
      BY <1>1, <1>3 DEF AxisFromNormalized, Int16Max
    <2> QED BY <1>1, <2>1 DEF Shows, Int16Max
  <1>4. CASE ~(v <= -Unit) /\ ~(v >= Unit)
    <2> DEFINE n == v * 32767
               w == LRound(n, Unit)
    <2>1. n \in Int
      BY <1>1
    <2>2. AxisFromNormalized(v) = w
      BY <1>1, <1>4 DEF AxisFromNormalized, Int16Max
    <2> HIDE DEF n
    <2>3. w \in Int /\ 2 * (w * Unit - n) \in -Unit..Unit
      BY <1>1, <2>1, Nearest
    <2> HIDE DEF w
    <2> QED BY <2>2, <2>3 DEF Shows, Int16Max, n
  <1> QED BY <1>1, <1>2, <1>3, <1>4

\* A trigger shows its channel.
LEMMA TriggerShows ==
  ASSUME NEW v \in 0..Unit
  PROVE  Shows(TriggerFromNormalized(v), v, 255)
  <1>1. Unit \in Nat \ {0} /\ v \in Int
    BY UnitAssumption
  <1> DEFINE n == v * 255
             w == LRound(n, Unit)
  <1>2. n \in Int /\ TriggerFromNormalized(v) = w
    BY <1>1 DEF TriggerFromNormalized, Clamp
  <1> HIDE DEF n
  <1>3. w \in Int /\ 2 * (w * Unit - n) \in -Unit..Unit
    BY <1>1, <1>2, Nearest
  <1> HIDE DEF w
  <1> QED BY <1>2, <1>3 DEF Shows, n

\* A control at rest shows 0.
LEMMA RestShows ==
  ASSUME NEW steps \in Int
  PROVE  Shows(0, 0, steps)
  BY UnitAssumption DEF Shows

\* A button at 0 is up.
LEMMA Unpressed == ~Pressed(0)
  BY UnitAssumption DEF Pressed

\* What one iteration of BuildReport's loop makes of a report.
Changed(s, r, key, v) ==
  /\ s \in Report
  /\ \A k \in DOMAIN AxisField :
       s[AxisField[k]] = IF k = key THEN AxisFromNormalized(v) ELSE r[AxisField[k]]
  /\ \A k \in DOMAIN TriggerField :
       s[TriggerField[k]] = IF k = key THEN TriggerFromNormalized(v) ELSE r[TriggerField[k]]
  /\ s.wButtons = IF key \in DOMAIN Mask
                  THEN IF Pressed(v) THEN r.wButtons \cup {Mask[key]}
                       ELSE r.wButtons \ {Mask[key]}
                  ELSE r.wButtons

\* It sets the field of its key, or its bit.
LEMMA OneShown ==
  ASSUME NEW r \in Report, NEW key, NEW v \in Int
  PROVE  Changed(Shown(r, key, v), r, key, v)
  <1> DEFINE s == Shown(r, key, v)
             a == AxisFromNormalized(v)
             t == TriggerFromNormalized(v)
  <1>1. a \in Int /\ t \in Int
    BY Conversions
  <1> HIDE DEF a, t
  <1>2. CASE key \in DOMAIN TriggerField
    <2> DEFINE f == TriggerField[key]
    <2>1. key \notin DOMAIN Mask /\ key \notin DOMAIN AxisField
      BY <1>2, TriggersApart, ButtonsApart
    <2>2. s = With(r, f, t)
      BY <1>2, <2>1, Zenon DEF Shown, With, t
    <2>3. \A k \in DOMAIN AxisField : AxisField[k] \in Analog /\ AxisField[k] # f
      BY <1>2, TriggersApart, AxisFields
    <2>4. \A k \in DOMAIN TriggerField :
            TriggerField[k] \in Analog /\ (TriggerField[k] = f <=> k = key)
      BY <1>2, TriggerFields
    <2>5. f \in Analog
      BY <1>2, TriggerFields
    <2> HIDE DEF f, s
    <2>6. /\ s \in Report /\ s.wButtons = r.wButtons
          /\ \A g \in Analog : s[g] = IF g = f THEN t ELSE r[g]
      BY <1>1, <2>2, <2>5, OneField
    <2> QED BY <2>1, <2>3, <2>4, <2>6 DEF s, t, a, Changed
  <1>3. CASE key \in DOMAIN AxisField
    <2> DEFINE f == AxisField[key]
    <2>1. key \notin DOMAIN Mask /\ key \notin DOMAIN TriggerField
      BY <1>3, TriggersApart, ButtonsApart
    <2>2. s = With(r, f, a)
      BY <1>3, <2>1, Zenon DEF Shown, With, a
    <2>3. \A k \in DOMAIN TriggerField : TriggerField[k] \in Analog /\ TriggerField[k] # f
      BY <1>3, TriggersApart, TriggerFields
    <2>4. \A k \in DOMAIN AxisField :
            AxisField[k] \in Analog /\ (AxisField[k] = f <=> k = key)
      BY <1>3, AxisFields
    <2>5. f \in Analog
      BY <1>3, AxisFields
    <2> HIDE DEF f, s
    <2>6. /\ s \in Report /\ s.wButtons = r.wButtons
          /\ \A g \in Analog : s[g] = IF g = f THEN a ELSE r[g]
      BY <1>1, <2>2, <2>5, OneField
    <2> QED BY <2>1, <2>3, <2>4, <2>6 DEF s, t, a, Changed
  <1>4. CASE key \in DOMAIN Mask
    <2> DEFINE b == IF Pressed(v) THEN r.wButtons \cup {Mask[key]} ELSE r.wButtons \ {Mask[key]}
    <2>1. key \notin DOMAIN AxisField /\ key \notin DOMAIN TriggerField
      BY <1>4, ButtonsApart
    <2>2. s = [r EXCEPT !.wButtons = b]
      BY <1>4, <2>1 DEF Shown
    <2>3. r.wButtons \in SUBSET Int /\ Mask[key] \in Int
      BY <1>4 DEF Report, Mask
    <2>4. b \in SUBSET Int
      BY <2>3
    <2> HIDE DEF b, s
    <2>5. s \in Report /\ s.wButtons = b /\ \A g \in Analog : s[g] = r[g]
      BY <2>2, <2>4, OnlyBits
    <2> QED BY <1>4, <2>1, <2>5, AxisFields, TriggerFields DEF s, b, Changed
  <1>5. CASE key \notin DOMAIN TriggerField \cup DOMAIN AxisField \cup DOMAIN Mask
    <2>1. s = r
      BY <1>5, Zenon DEF Shown
    <2> HIDE DEF s
    <2> QED BY <1>5, <2>1 DEF s, Changed
  <1> QED BY <1>2, <1>3, <1>4, <1>5

\* What BuildReport has made of the first n keys.
Visits(f, state, keys, n) ==
  f = [i \in 0..n |-> IF i = 0 THEN AtRest ELSE Shown(f[i - 1], keys[i], state[keys[i]])]

\* There is such a function, by a least n that would have none.
LEMMA VisitsExist ==
  ASSUME NEW state, NEW keys, NEW n \in Nat
  PROVE  \E f : Visits(f, state, keys, n)
  <1> DEFINE Wrong == {m \in Nat : ~ \E f : Visits(f, state, keys, m)}
  <1>1. SUFFICES ASSUME Wrong # {} PROVE FALSE
    OBVIOUS
  <1>2. PICK x \in Wrong : \A y \in Wrong : x <= y
    <2>1. Wrong \in SUBSET Nat
      OBVIOUS
    <2> HIDE DEF Wrong
    <2> QED BY <1>1, <2>1, LeastNatural
  <1>3. x \in Nat /\ ~ \E f : Visits(f, state, keys, x)
    BY <1>2
  <1>4. CASE x = 0
    <2> DEFINE g == [i \in 0..0 |-> AtRest]
    <2>1. g = [i \in 0..0 |-> IF i = 0 THEN AtRest
                              ELSE Shown(g[i - 1], keys[i], state[keys[i]])]
      OBVIOUS
    <2> HIDE DEF g
    <2>2. Visits(g, state, keys, 0)
      BY <2>1 DEF Visits
    <2> QED BY <1>3, <1>4, <2>2
  <1>5. CASE x # 0
    <2>1. x - 1 \in Nat /\ x - 1 \notin Wrong
      BY <1>2, <1>3, <1>5
    <2>2. PICK f : Visits(f, state, keys, x - 1)
      BY <2>1
    <2> DEFINE g == [i \in 0..x |-> IF i = x THEN Shown(f[x - 1], keys[x], state[keys[x]])
                                   ELSE f[i]]
    <2>3. /\ \A i \in 0..x - 1 :
               f[i] = IF i = 0 THEN AtRest ELSE Shown(f[i - 1], keys[i], state[keys[i]])
      BY <2>2, Zenon DEF Visits
    <2>4. g[x] = Shown(f[x - 1], keys[x], state[keys[x]]) /\ \A i \in 0..x - 1 : g[i] = f[i]
      BY <1>3
    <2>5. \A i \in 0..x : i = x \/ i \in 0..x - 1
      BY <1>3
    <2>6. \A i \in 0..x : i # 0 => i - 1 \in 0..x - 1
      BY <1>3
    <2>7. DOMAIN g = 0..x /\ g = [i \in 0..x |-> g[i]]
      OBVIOUS
    <2> HIDE DEF g
    <2>8. ASSUME NEW i \in 0..x
          PROVE  g[i] = IF i = 0 THEN AtRest ELSE Shown(g[i - 1], keys[i], state[keys[i]])
      <3>1. CASE i = x
        BY <1>5, <2>4, <2>6, <3>1
      <3>2. CASE i \in 0..x - 1 /\ i = 0
        BY <2>3, <2>4, <3>2
      <3>3. CASE i \in 0..x - 1 /\ i # 0
        <4>1. g[i - 1] = f[i - 1] /\ g[i] = f[i]
          BY <2>4, <2>6, <3>3
        <4> QED BY <2>3, <3>3, <4>1
      <3> QED BY <2>5, <3>1, <3>2, <3>3
    <2>9. g = [i \in 0..x |-> IF i = 0 THEN AtRest
                              ELSE Shown(g[i - 1], keys[i], state[keys[i]])]
      BY <2>7, <2>8
    <2> QED BY <1>3, <2>9 DEF Visits
  <1> QED BY <1>4, <1>5

\* BuildReport is the value it ends with.
LEMMA BuildReportIs ==
  ASSUME NEW state, NEW keys, Len(keys) \in Nat
  PROVE  \E f : /\ DOMAIN f = 0..Len(keys) /\ f[0] = AtRest
                /\ \A i \in 1..Len(keys) :
                     f[i] = Shown(f[i - 1], keys[i], state[keys[i]])
                /\ BuildReport(state, keys) = f[Len(keys)]
  <1> DEFINE n == Len(keys)
             f == CHOOSE f : f = [i \in 0..n |->
                    IF i = 0 THEN AtRest ELSE Shown(f[i - 1], keys[i], state[keys[i]])]
  <1>1. BuildReport(state, keys) = f[n]
    BY Zenon DEF BuildReport
  <1>2. f = [i \in 0..n |-> IF i = 0 THEN AtRest
                            ELSE Shown(f[i - 1], keys[i], state[keys[i]])]
    <2>1. \E g : g = [i \in 0..n |-> IF i = 0 THEN AtRest
                                     ELSE Shown(g[i - 1], keys[i], state[keys[i]])]
      <3>1. PICK g : Visits(g, state, keys, n)
        BY VisitsExist
      <3> QED BY <3>1, Zenon DEF Visits
    <2> QED BY <2>1, Zenon
  <1> HIDE DEF f
  <1>3. DOMAIN f = 0..n
    BY <1>2, Zenon
  <1>4. \A i \in 0..n : f[i] = IF i = 0 THEN AtRest
                               ELSE Shown(f[i - 1], keys[i], state[keys[i]])
    BY <1>2, Zenon
  <1>5. 0 \in 0..n /\ \A i \in 1..n : i \in 0..n /\ i # 0
    OBVIOUS
  <1>6. f[0] = AtRest
    BY <1>4, <1>5
  <1>7. \A i \in 1..n : f[i] = Shown(f[i - 1], keys[i], state[keys[i]])
    BY <1>4, <1>5
  <1> QED BY <1>1, <1>3, <1>6, <1>7

\* Every control of a report is as its key's value says.
Reports(r, state, keys) ==
  LET Has(k) == \E i \in 1..Len(keys) : keys[i] = k
  IN  /\ \A k \in DOMAIN AxisField :
           r[AxisField[k]] = IF Has(k) THEN AxisFromNormalized(state[k]) ELSE 0
      /\ \A k \in DOMAIN TriggerField :
           r[TriggerField[k]] = IF Has(k) THEN TriggerFromNormalized(state[k]) ELSE 0
      /\ r.wButtons = {Mask[k] : k \in {j \in DOMAIN Mask : Has(j) /\ Pressed(state[j])}}

\* BuildReport makes such a report, in any order of the keys.
LEMMA ReportFields ==
  ASSUME NEW state, NEW keys \in Seq(DOMAIN state), \A k \in DOMAIN state : state[k] \in Int
  PROVE  Reports(BuildReport(state, keys), state, keys)
  <1> DEFINE N == Len(keys)
             Upto(n, k) == \E i \in 1..n : keys[i] = k
             Down(n) == {Mask[k] : k \in {j \in DOMAIN Mask : Upto(n, j) /\ Pressed(state[j])}}
  <1>1. N \in Nat /\ \A i \in 1..N : keys[i] \in DOMAIN state /\ state[keys[i]] \in Int
    OBVIOUS
  <1>2. PICK f : /\ DOMAIN f = 0..N /\ f[0] = AtRest
                 /\ \A i \in 1..N : f[i] = Shown(f[i - 1], keys[i], state[keys[i]])
                 /\ BuildReport(state, keys) = f[N]
    BY <1>1, BuildReportIs
  <1> DEFINE P(n) ==
               /\ f[n] \in Report
               /\ \A k \in DOMAIN AxisField :
                    f[n][AxisField[k]] = IF Upto(n, k) THEN AxisFromNormalized(state[k]) ELSE 0
               /\ \A k \in DOMAIN TriggerField :
                    f[n][TriggerField[k]] =
                      IF Upto(n, k) THEN TriggerFromNormalized(state[k]) ELSE 0
               /\ f[n].wButtons = Down(n)
  <1>3. P(0)
    <2>1. \A k : ~Upto(0, k)
      OBVIOUS
    <2>2. Down(0) = {}
      BY <2>1
    <2> HIDE DEF Upto, Down
    <2> QED BY <1>2, <2>1, <2>2, RestReport, RestFields, RestButtons, AxisFields, TriggerFields
  <1>4. ASSUME NEW n \in 0..N, n > 0, P(n - 1) PROVE P(n)
    <2> DEFINE key == keys[n]
               v == state[key]
    <2>1. n \in 1..N /\ v \in Int
      BY <1>1, <1>4
    <2>2. f[n] = Shown(f[n - 1], key, v)
      BY <1>2, <2>1
    <2>3. \A k : Upto(n, k) <=> (Upto(n - 1, k) \/ k = key)
      <3>1. \A i \in 1..n : i \in 1..n - 1 \/ i = n
        BY <2>1
      <3>2. n \in 1..n /\ \A i \in 1..n - 1 : i \in 1..n
        BY <2>1
      <3> QED BY <3>1, <3>2
    <2>4. f[n - 1] \in Report
      BY <1>4
    <2>5. state[key] = v
      OBVIOUS
    <2> DEFINE old == f[n - 1]
               s == Shown(old, key, v)
    <2> HIDE DEF v, key, old
    <2>6. s = f[n]
      BY <2>2 DEF old
    <2>7. old \in Report
      BY <2>4 DEF old
    <2>8. Changed(s, old, key, v)
      BY <2>1, <2>7, OneShown
    <2> HIDE DEF s
    <2>9. /\ f[n] \in Report
          /\ \A k \in DOMAIN AxisField :
               f[n][AxisField[k]] = IF k = key THEN AxisFromNormalized(v)
                                    ELSE f[n - 1][AxisField[k]]
          /\ \A k \in DOMAIN TriggerField :
               f[n][TriggerField[k]] = IF k = key THEN TriggerFromNormalized(v)
                                       ELSE f[n - 1][TriggerField[k]]
          /\ f[n].wButtons =
               IF key \in DOMAIN Mask
               THEN IF Pressed(v) THEN f[n - 1].wButtons \cup {Mask[key]}
                    ELSE f[n - 1].wButtons \ {Mask[key]}
               ELSE f[n - 1].wButtons
      BY <2>6, <2>8, Zenon DEF old, Changed
    <2> HIDE DEF Upto
    <2>10. f[n].wButtons = Down(n)
      <3>1. f[n - 1].wButtons = Down(n - 1)
        BY <1>4
      <3>2. CASE key \notin DOMAIN Mask
        <4>1. Down(n) = Down(n - 1)
          BY <2>3, <3>2
        <4> QED BY <2>9, <3>1, <3>2, <4>1
      <3>3. CASE key \in DOMAIN Mask /\ Pressed(v)
        <4>1. Down(n) = Down(n - 1) \cup {Mask[key]}
          BY <2>3, <2>5, <3>3
        <4> QED BY <2>9, <3>1, <3>3, <4>1
      <3>4. CASE key \in DOMAIN Mask /\ ~Pressed(v)
        <4>1. Down(n) = Down(n - 1) \ {Mask[key]}
          BY <2>3, <2>5, <3>4, MaskBits
        <4> QED BY <2>9, <3>1, <3>4, <4>1
      <3> QED BY <3>2, <3>3, <3>4
    <2> HIDE DEF Down
    <2> QED BY <1>4, <2>3, <2>5, <2>9, <2>10
  <1>5. P(N)
    <2> HIDE DEF P
    <2> DEFINE Wrong == {m \in 0..N : ~P(m)}
    <2>1. ASSUME Wrong # {} PROVE FALSE
      <3>1. Wrong \in SUBSET Nat
        BY <1>1
      <3>2. PICK x \in Wrong : \A y \in Wrong : x <= y
        <4> HIDE DEF Wrong
        <4> QED BY <2>1, <3>1, LeastNatural
      <3>3. x \in 0..N /\ ~P(x) /\ x # 0 /\ x > 0
        BY <1>1, <1>3, <3>2
      <3>4. x - 1 \in 0..N /\ x - 1 \notin Wrong
        BY <1>1, <3>2, <3>3
      <3> QED BY <1>4, <3>3, <3>4
    <2> QED BY <1>1, <2>1
  <1> QED BY <1>2, <1>5 DEF Reports

\* The type that the loader infers from a target's name.
TriggersAreTriggers ==
  \A k \in DOMAIN Mappings :
    Mappings[k].target \in DOMAIN TriggerField => Mappings[k].channelType = "Trigger"

\* The types of the channels are enough.
LEMMA ReportFromTypes ==
  ASSUME TypeOK, TriggersAreTriggers
  PROVE  ReportShowsState
  <1> SUFFICES ASSUME NEW keys \in SetToSeqs(DOMAIN channels)
               PROVE  LET r == BuildReport(channels, keys)
                          Value(key) == IF key \in DOMAIN channels THEN channels[key] ELSE 0
                      IN  /\ \A key \in DOMAIN AxisField :
                               Shows(r[AxisField[key]], Value(key), Int16Max)
                          /\ \A key \in DOMAIN TriggerField :
                               Shows(r[TriggerField[key]], Value(key), 255)
                          /\ r.wButtons =
                               {Mask[key] : key \in {k \in DOMAIN Mask : Pressed(Value(k))}}
    BY DEF ReportShowsState
  <1> DEFINE r == BuildReport(channels, keys)
             Value(key) == IF key \in DOMAIN channels THEN channels[key] ELSE 0
             Has(k) == \E i \in 1..Len(keys) : keys[i] = k
  <1>1. IsFiniteSet(DOMAIN channels)
    <2>1. DOMAIN Mappings = 1..Len(Mappings) /\ Len(Mappings) \in Nat
      BY LenMappings
    <2>2. IsFiniteSet(DOMAIN Mappings)
      BY <2>1, FS_Interval
    <2>3. IsFiniteSet(Targets(Mappings))
      <3> DEFINE g == [k \in DOMAIN Mappings |-> Mappings[k].target]
      <3>1. g \in Surjection(DOMAIN Mappings, Targets(Mappings))
        BY DEF Surjection, Targets
      <3> QED BY <2>2, <3>1, FS_Surjection
    <2> QED BY <2>3, FS_Subset DEF TypeOK
  <1>2. keys \in Seq(DOMAIN channels) /\ \A k : Has(k) <=> k \in DOMAIN channels
    <2>1. /\ keys \in Seq(DOMAIN channels)
          /\ \A x \in DOMAIN channels : \E i \in 1..Len(keys) : keys[i] = x
      BY <1>1, VisitOrders
    <2> QED BY <2>1
  <1>3. \A t \in DOMAIN channels :
          /\ channels[t] \in -Unit..Unit
          /\ t \in DOMAIN TriggerField => channels[t] \in 0..Unit
    <2> SUFFICES ASSUME NEW t \in DOMAIN channels
                 PROVE  /\ channels[t] \in -Unit..Unit
                        /\ t \in DOMAIN TriggerField => channels[t] \in 0..Unit
      OBVIOUS
    <2>1. PICK k \in DOMAIN Mappings :
            Mappings[k].target = t /\ channels[t] \in RangeOf(Mappings[k])
      BY DEF TypeOK
    <2>2. t \in DOMAIN TriggerField => Mappings[k].channelType = "Trigger"
      BY <2>1 DEF TriggersAreTriggers
    <2> QED BY <2>1, <2>2, UnitAssumption DEF RangeOf
  <1>4. \A k \in DOMAIN channels : channels[k] \in Int
    BY <1>3, UnitAssumption
  <1>5. Reports(r, channels, keys)
    BY <1>2, <1>4, ReportFields
  <1> HIDE DEF r
  <1>6. /\ \A k \in DOMAIN AxisField :
             r[AxisField[k]] = IF Has(k) THEN AxisFromNormalized(channels[k]) ELSE 0
        /\ \A k \in DOMAIN TriggerField :
             r[TriggerField[k]] = IF Has(k) THEN TriggerFromNormalized(channels[k]) ELSE 0
        /\ r.wButtons = {Mask[k] : k \in {j \in DOMAIN Mask : Has(j) /\ Pressed(channels[j])}}
    BY <1>5, Zenon DEF Reports
  <1> HIDE DEF Has
  <1>7. \A key \in DOMAIN AxisField : Shows(r[AxisField[key]], Value(key), Int16Max)
    <2>1. Int16Max \in Int
      BY DEF Int16Max
    <2> QED BY <1>2, <1>3, <1>6, <2>1, AxisShows, RestShows
  <1>8. \A key \in DOMAIN TriggerField : Shows(r[TriggerField[key]], Value(key), 255)
    <2>1. 255 \in Int
      OBVIOUS
    <2> QED BY <1>2, <1>3, <1>6, <2>1, TriggerShows, RestShows
  <1>9. \A k : Pressed(Value(k)) <=> (Has(k) /\ Pressed(channels[k]))
    BY <1>2, Unpressed
  <1>10. r.wButtons = {Mask[key] : key \in {k \in DOMAIN Mask : Pressed(Value(k))}}
    BY <1>6, <1>9
  <1> QED BY <1>7, <1>8, <1>10 DEF r

\* Whatever the engine did and in whatever order the map is visited, the pad's
\* report shows every channel to the nearest step, and the rest at rest.  A target
\* named as a trigger must have that type: an explicit type of axis would let it
\* go below 0, where the report stays at 0.
THEOREM ReportAlwaysShowsState ==
  ASSUME TriggersAreTriggers
  PROVE  Spec => []ReportShowsState
  <1>1. TypeOK => ReportShowsState
    BY ReportFromTypes
  <1> QED BY <1>1, TypeCorrect, PTL
=============================================================================
