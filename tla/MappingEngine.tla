--------------------------- MODULE MappingEngine ---------------------------
(***************************************************************************)
(* One mapper::MappingEngine and the OutputState it writes, as the state   *)
(* machine of MappingEngine::Apply: a call starts the loop over mappings_, *)
(* each step is one iteration, and the engine is idle again when the loop  *)
(* is done.  The history variables  heard  and  before  hold what each     *)
(* mapping was last sent and what the current call started from; no action *)
(* reads them.                                                             *)
(***************************************************************************)
EXTENDS Mapper

CONSTANTS
  Mappings,   \* mappings_, in the order of the configuration
  Messages,   \* the calls that DDS samples can cause
  Silent      \* what  heard  says of a mapping no message matched yet

ASSUME MappingsAssumption == Mappings \in Seq(MappingDefinition)
ASSUME MessagesAssumption == Messages \subseteq Message
ASSUME SilentAssumption == Silent \notin Int

VARIABLES
  additive_state,   \* additive_state_: last contribution, keyed by name
  channels,         \* OutputState::channels
  updated,          \* Apply's local flag, its result once the loop is done
  msg,              \* the arguments of the current, or last, call
  cursor,           \* index of the mapping the loop visits next
  heard,            \* history: the last raw value sent to each mapping
  before            \* history: the state the current call started from

vars == <<additive_state, channels, updated, msg, cursor, heard, before>>

Idle == cursor = Len(Mappings) + 1

Init ==
  /\ additive_state = SeededState(Mappings)
  /\ channels = [t \in {} |-> 0]
  /\ updated = FALSE
  /\ msg \in Messages
  /\ cursor = Len(Mappings) + 1
  /\ heard = [k \in DOMAIN Mappings |-> Silent]
  /\ before = [additive_state |-> additive_state, channels |-> channels,
               updated |-> updated]

Call(a) ==
  /\ Idle
  /\ msg' = a
  /\ cursor' = 1
  /\ updated' = FALSE
  /\ heard' = [k \in DOMAIN Mappings |->
                 IF Matches(Mappings[k], a) THEN a.value ELSE heard[k]]
  /\ before' = [additive_state |-> additive_state, channels |-> channels,
                updated |-> updated]
  /\ UNCHANGED <<additive_state, channels>>

Visit ==
  /\ ~Idle
  /\ LET s == Visited(Mappings,
                      [additive_state |-> additive_state,
                       channels |-> channels, updated |-> updated],
                      Mappings[cursor], msg)
     IN  /\ additive_state' = s.additive_state
         /\ channels' = s.channels
         /\ updated' = s.updated
  /\ cursor' = cursor + 1
  /\ UNCHANGED <<msg, heard, before>>

Next == Visit \/ \E a \in Messages : Call(a)

Spec == Init /\ [][Next]_vars

-----------------------------------------------------------------------------

\* The values a mapping can write to its target.
RangeOf(m) ==
  CASE m.channelType = "Trigger" -> 0..Unit
    [] m.channelType = "Button" /\ ~m.additive -> {0, Unit}
    [] OTHER -> -Unit..Unit

\* Type invariant.  Every channel holds a value in the range of a mapping that
\* writes it: no sum, scale or input range takes a channel out of range.
TypeOK ==
  /\ additive_state \in [AdditiveNames(Mappings) -> Int]
  /\ DOMAIN channels \subseteq Targets(Mappings)
  /\ \A t \in DOMAIN channels :
       \E k \in DOMAIN Mappings :
         Mappings[k].target = t /\ channels[t] \in RangeOf(Mappings[k])
  /\ updated \in BOOLEAN
  /\ msg \in Messages
  /\ cursor \in 1..Len(Mappings) + 1
  /\ heard \in [DOMAIN Mappings -> Int \cup {Silent}]

\* A target that additive mappings of one type share, and nothing else writes.
PurelyAdditive(t) ==
  \A j, k \in DOMAIN Mappings :
     Mappings[j].target = t /\ Mappings[k].target = t
       => Mappings[j].additive
          /\ Mappings[j].channelType = Mappings[k].channelType

Contribution(k) ==
  IF heard[k] = Silent THEN 0 ELSE MappedValue(Mappings[k], heard[k])

\* "Messages from different sources do not interfere": once Apply returns, an
\* additive channel is the clamped sum of the last contribution of EVERY
\* source, however old, and of nothing else.
SumOfLastContributions ==
  Idle =>
    \A k \in DOMAIN Mappings :
      LET t == Mappings[k].target
      IN  PurelyAdditive(t) /\ heard[k] # Silent =>
            /\ t \in DOMAIN channels
            /\ channels[t] =
                 ClampFor(Mappings[k].channelType,
                          Total([j \in AdditiveOn(Mappings, t) |->
                                   Contribution(j)]))

\* A target no additive mapping writes shows the value last sent to one of its
\* sources; when the message just applied matched several, the last of them in
\* configuration order wins.
LastWriterWins ==
  Idle /\ updated =>
    \A k \in DOMAIN Mappings :
      (/\ Matches(Mappings[k], msg)
       /\ ~Mappings[k].additive
       /\ \A j \in DOMAIN Mappings :
            /\ j > k
            /\ Mappings[j].target = Mappings[k].target
            => ~Matches(Mappings[j], msg))
      => channels[Mappings[k].target] = MappedValue(Mappings[k], msg.value)

AppliedTo(s, ch, a) == Apply(Mappings, s, ch, a)

\* The loop implements the one-step call: seen by a caller, who waits for it
\* to return, Apply is the closed form that the other modules use.
Atomic ==
  INSTANCE AtomicEngine WITH
    Seed <- SeededState(Mappings),
    Applied <- AppliedTo,
    additive_state <- IF Idle THEN additive_state ELSE before.additive_state,
    channels <- IF Idle THEN channels ELSE before.channels,
    updated <- IF Idle THEN updated ELSE before.updated

AtomicSpec == Atomic!Spec

After(a) == Apply(Mappings, additive_state, channels, a)
AfterBoth(a, b) ==
  LET s == After(a) IN Apply(Mappings, s.additive_state, s.channels, b)

\* Samples of different sources reach the engine in any order (they wait in
\* the caches of different instances): a purely additive channel does not
\* depend on it.
OrderIndependent ==
  Idle =>
    \A a, b \in Messages :
      (a.id # b.id) =>
        LET ab == AfterBoth(a, b).channels
            ba == AfterBoth(b, a).channels
        IN  \A t \in DOMAIN ab : PurelyAdditive(t) => ab[t] = ba[t]

\* A sample that DDS delivers twice changes nothing the second time: a
\* contribution replaces the source's last one and is never added to it.
RedeliveryHarmless ==
  Idle => \A a \in Messages : AfterBoth(a, a) = After(a)

\* A channel none of whose mappings matches the message that is being applied
\* keeps its value, and none appears or goes: OutputState is never cleared.
KeepsOthers ==
  \A k \in DOMAIN Mappings :
    (\A j \in DOMAIN Mappings :
       Mappings[j].target = Mappings[k].target => ~Matches(Mappings[j], msg'))
    => LET t == Mappings[k].target
       IN  /\ t \in DOMAIN channels' <=> t \in DOMAIN channels
           /\ t \in DOMAIN channels => channels'[t] = channels[t]

NoCrossTalk == [][KeepsOthers]_vars
=============================================================================
