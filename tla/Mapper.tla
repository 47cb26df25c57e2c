------------------------------- MODULE Mapper -------------------------------
(***************************************************************************)
(* The operators of mapper::MappingEngine: how one raw DDS value becomes a *)
(* normalised channel value, and what one iteration of the loop in         *)
(* MappingEngine::Apply does to the engine's additive_state_ and to the    *)
(* shared OutputState.                                                     *)
(*                                                                         *)
(* A float is an integer number of 1/Unit: Unit stands for 1.0f.  A        *)
(* mapping sequence  ms  is the vector mappings_ of one engine.            *)
(***************************************************************************)
EXTENDS Integers, Sequences, FiniteSetsExt
LOCAL INSTANCE Functions

CONSTANT Unit   \* the fixed-point representation of 1.0f

ASSUME UnitAssumption == Unit \in Nat \ {0}

ChannelType == {"Axis", "Trigger", "Button"}

MappingDefinition ==
  [name : STRING, id : Int, field : STRING, target : STRING,
   channelType : ChannelType, scale : Int, deadzone : Nat, invert : BOOLEAN,
   has_input_range : BOOLEAN, input_min : Int, input_max : Int,
   additive : BOOLEAN]

\* A call Apply(field, message_id, value, state), without the state.
Message == [field : STRING, id : Int, value : Int]

-----------------------------------------------------------------------------

\* std::clamp
Clamp(v, lo, hi) == IF v \in lo..hi THEN v ELSE IF v < lo THEN lo ELSE hi

\* The clamp of the Trigger branches, and of every other branch.
ClampFor(type, v) == Clamp(v, IF type = "Trigger" THEN 0 ELSE -Unit, Unit)

Quotient(a, b) == IF b > 0 THEN a \div b ELSE (-a) \div (-b)

ApplyDeadzone(v, deadzone) ==
  IF deadzone > 0 /\ v \in -deadzone..deadzone THEN 0 ELSE v

\* The input range, when there is one: onto 0..1 for a trigger and onto -1..1
\* for every other type (buttons included); an empty range gives 0.
Normalised(m, raw) ==
  LET t == Quotient((raw - m.input_min) * Unit, m.input_max - m.input_min)
  IN  CASE ~m.has_input_range         -> raw
        [] m.has_input_range /\ m.input_max = m.input_min -> 0
        [] OTHER -> IF m.channelType = "Trigger" THEN t ELSE 2 * t - Unit

Scaled(m, raw) == Quotient(Normalised(m, raw) * m.scale, Unit)

Inverted(m, v) ==
  CASE ~m.invert -> v
    [] m.invert /\ m.channelType = "Trigger" -> Unit - v
    [] OTHER -> -v

\* The value of one mapping for one raw sample value: normalise, scale,
\* invert, deadzone, clamp; a button is a threshold at one half.
MappedValue(m, raw) ==
  LET scaled == Scaled(m, raw)
  IN  IF m.channelType = "Button"
      THEN IF 2 * scaled > Unit THEN Unit ELSE 0
      ELSE ClampFor(m.channelType,
                    ApplyDeadzone(Inverted(m, scaled), m.deadzone))

-----------------------------------------------------------------------------

Targets(ms) == {ms[k].target : k \in DOMAIN ms}

AdditiveOn(ms, target) ==
  {k \in DOMAIN ms : ms[k].additive /\ ms[k].target = target}

AdditiveNames(ms) == {ms[k].name : k \in {j \in DOMAIN ms : ms[j].additive}}

\* The constructor's seed: no additive source contributes before it speaks.
SeededState(ms) == [n \in AdditiveNames(ms) |-> 0]

Matches(m, msg) == m.field = msg.field /\ m.id = msg.id

\* The unclamped sum of a family of contributions.
Total(contribution) == SumFunction(contribution)

\* Slips that the checks must notice: a map rebuilt for every sample, and an
\* insertion that keeps the first value.
WriteFresh(channels, target, v) == [t \in {target} |-> v]
WriteOnce(channels, target, v) ==
  [t \in DOMAIN channels \cup {target} |->
     IF t \in DOMAIN channels THEN channels[t] ELSE v]

\* OutputState::channels gains an entry for a target at its first write.
Write(channels, target, v) ==
  [t \in DOMAIN channels \cup {target} |->
     IF t = target THEN v ELSE channels[t]]

\* A slip: the contribution accumulates instead of replacing the last one.
RememberedAdds(additive_state, m, msg) ==
  IF m.additive
  THEN [additive_state EXCEPT ![m.name] = @ + MappedValue(m, msg.value)]
  ELSE additive_state

\* What a matching mapping remembers of the value ...
Remembered(additive_state, m, msg) ==
  IF m.additive
  THEN [additive_state EXCEPT ![m.name] = MappedValue(m, msg.value)]
  ELSE additive_state

\* Slips: the sum is written as it is, or left out.
OutputUnclamped(ms, additive_state, m, msg) ==
  IF m.additive
  THEN Total([k \in AdditiveOn(ms, m.target) |-> additive_state[ms[k].name]])
  ELSE MappedValue(m, msg.value)
OutputAlone(ms, additive_state, m, msg) == MappedValue(m, msg.value)

\* ... and what it writes to its target, given what is remembered by then.
Output(ms, additive_state, m, msg) ==
  IF m.additive
  THEN ClampFor(m.channelType,
                Total([k \in AdditiveOn(ms, m.target) |->
                         additive_state[ms[k].name]]))
  ELSE MappedValue(m, msg.value)

\* A slip: the last mapping visited decides the loop's flag.
VisitedLastFlag(ms, s, m, msg) ==
  LET remembered == Remembered(s.additive_state, m, msg)
  IN  IF Matches(m, msg)
      THEN [additive_state |-> remembered,
            channels |-> Write(s.channels, m.target,
                               Output(ms, remembered, m, msg)),
            updated |-> TRUE]
      ELSE [s EXCEPT !.updated = FALSE]

\* One iteration of the loop of Apply over  s , a record of the engine's
\* additive state, the channels and the loop's flag  updated .
Visited(ms, s, m, msg) ==
  LET remembered == Remembered(s.additive_state, m, msg)
  IN  IF Matches(m, msg)
      THEN [additive_state |-> remembered,
            channels |-> Write(s.channels, m.target,
                               Output(ms, remembered, m, msg)),
            updated |-> TRUE]
      ELSE s

\* The whole call as one step.  The last mapping that stores under a name or
\* writes a target decides what is left there.
Matching(ms, msg) == {k \in DOMAIN ms : Matches(ms[k], msg)}

Storing(ms, msg, name, k) ==
  {j \in Matching(ms, msg) : j <= k /\ ms[j].additive /\ ms[j].name = name}

\* A slip: as in RememberedAdds.
RememberedUpToAdds(ms, additive_state, msg, k) ==
  [n \in DOMAIN additive_state |->
     IF Storing(ms, msg, n, k) = {}
     THEN additive_state[n]
     ELSE additive_state[n]
            + MappedValue(ms[Max(Storing(ms, msg, n, k))], msg.value)]

RememberedUpTo(ms, additive_state, msg, k) ==
  [n \in DOMAIN additive_state |->
     IF Storing(ms, msg, n, k) = {}
     THEN additive_state[n]
     ELSE MappedValue(ms[Max(Storing(ms, msg, n, k))], msg.value)]

Writing(ms, msg, target, k) ==
  {j \in Matching(ms, msg) : j <= k /\ ms[j].target = target}

ChannelsUpTo(ms, additive_state, channels, msg, k) ==
  [t \in DOMAIN channels
         \cup {ms[j].target : j \in {i \in Matching(ms, msg) : i <= k}} |->
     IF Writing(ms, msg, t, k) = {}
     THEN channels[t]
     ELSE LET last == Max(Writing(ms, msg, t, k))
          IN  Output(ms, RememberedUpTo(ms, additive_state, msg, last),
                     ms[last], msg)]

\* A slip: the result of the last mapping is the result of the call.
ApplyLastFlag(ms, additive_state, channels, msg) ==
  [additive_state |-> RememberedUpTo(ms, additive_state, msg, Len(ms)),
   channels |-> ChannelsUpTo(ms, additive_state, channels, msg, Len(ms)),
   updated |-> Len(ms) \in Matching(ms, msg)]

Apply(ms, additive_state, channels, msg) ==
  [additive_state |-> RememberedUpTo(ms, additive_state, msg, Len(ms)),
   channels |-> ChannelsUpTo(ms, additive_state, channels, msg, Len(ms)),
   updated |-> Matching(ms, msg) # {}]
=============================================================================
