--------------------------- MODULE ReadLoopProofs ---------------------------
(***************************************************************************)
(* Proofs about ReadLoop, for every set of subscriptions, mappings,        *)
(* sources and values, every depth of the caches and any number of         *)
(* arrivals: no change of a channel is left unsubmitted, a run ends        *)
(* cleanly or says why it failed, every queue keeps its bound and its      *)
(* types, every change of the device is one source's doing, and once all   *)
(* samples are processed the channels are what their sources last asked    *)
(* for.                                                                    *)
(***************************************************************************)
EXTENDS ReadLoop, TLAPS, WellFoundedInduction

-----------------------------------------------------------------------------
(* Calls of the engine.                                                    *)

\* A value that is a function, and nothing else.
IsFunction(f) == f = [t \in DOMAIN f |-> f[t]]

\* A message that no mapping matches leaves the channels alone.
LEMMA ApplyUnmatched ==
  ASSUME NEW ms, NEW s, NEW ch, NEW a, IsFunction(ch), Matching(ms, a) = {}
  PROVE  Apply(ms, s, ch, a).channels = ch
  <1>1. \A t : Writing(ms, a, t, Len(ms)) = {}
    BY DEF Writing
  <1>2. {ms[j].target : j \in {i \in Matching(ms, a) : i <= Len(ms)}} = {}
    OBVIOUS
  <1>3. ChannelsUpTo(ms, s, ch, a, Len(ms)) = ch
    BY <1>1, <1>2 DEF ChannelsUpTo, IsFunction
  <1> QED BY <1>3 DEF Apply

\* Whatever a call does, it leaves a map of channels.
LEMMA ApplyChannels ==
  ASSUME NEW ms, NEW s, NEW ch, NEW a
  PROVE  IsFunction(Apply(ms, s, ch, a).channels)
  BY DEF Apply, ChannelsUpTo, IsFunction

LEMMA CallFields ==
  ASSUME NEW ms, NEW s, NEW field, NEW role, NEW value
  PROVE  LET a == [field |-> field, id |-> role, value |-> value]
             n == Call(ms, s, field, role, value)
         IN  /\ n.channels = Apply(ms, s.additive_state, s.channels, a).channels
             /\ n.updated = (Matching(ms, a) # {} \/ s.updated)
  BY DEF Call, Apply

\* A call that does not report an update is not the first of a sample to have
\* changed a channel: it changed none, and none did before.
LEMMA QuietCall ==
  ASSUME NEW ms, NEW s, NEW field, NEW role, NEW value,
         IsFunction(s.channels), ~Call(ms, s, field, role, value).updated
  PROVE  Call(ms, s, field, role, value).channels = s.channels /\ ~s.updated
  <1> DEFINE a == [field |-> field, id |-> role, value |-> value]
  <1>1. ~(Matching(ms, a) # {} \/ s.updated)
    BY CallFields
  <1>2. Matching(ms, a) = {} /\ ~s.updated
    BY <1>1
  <1>3. Call(ms, s, field, role, value).channels =
          Apply(ms, s.additive_state, s.channels, a).channels
    BY CallFields
  <1>4. Apply(ms, s.additive_state, s.channels, a).channels = s.channels
    BY <1>2, ApplyUnmatched
  <1> QED BY <1>2, <1>3, <1>4

LEMMA CallChannels ==
  ASSUME NEW ms, NEW s, NEW field, NEW role, NEW value
  PROVE  IsFunction(Call(ms, s, field, role, value).channels)
  <1> DEFINE a == [field |-> field, id |-> role, value |-> value]
  <1>1. Call(ms, s, field, role, value).channels =
          Apply(ms, s.additive_state, s.channels, a).channels
    BY CallFields
  <1>2. IsFunction(Apply(ms, s.additive_state, s.channels, a).channels)
    BY ApplyChannels
  <1> QED BY <1>1, <1>2

-----------------------------------------------------------------------------
(* Samples.                                                                *)

LEMMA HandlerFields ==
  ASSUME NEW h \in DOMAIN Handlers
  PROVE  /\ Handlers[h].type \in TopicType
         /\ Handlers[h].mappings \in Seq(MappingDefinition)
  <1>1. Handlers[h] \in Subscription
    BY HandlersAssumption
  <1> QED BY <1>1 DEF Subscription

\* The channels stay a map, and a sample that is not reported as an update has
\* changed none: neither of a stick's two calls is forgotten.
LEMMA TraitsApplyChannels ==
  ASSUME NEW h \in DOMAIN Handlers, NEW role, NEW data, IsFunction(channels)
  PROVE  LET n == TraitsApply(h, role, data)
         IN  /\ IsFunction(n.channels)
             /\ ~n.updated => n.channels = channels
  <1> DEFINE ms == Handlers[h].mappings
             s == [additive_state |-> additive_state[h], channels |-> channels,
                   updated |-> FALSE]
             n == TraitsApply(h, role, data)
  <1>1. Handlers[h].type \in TopicType
    BY HandlerFields
  <1>2. s.channels = channels /\ IsFunction(s.channels)
    OBVIOUS
  <1>3. CASE Handlers[h].type = "Analog"
    <2>1. n = Call(ms, s, "value", role, data.value)
      BY <1>3 DEF TraitsApply
    <2> QED BY <1>2, <2>1, CallChannels, QuietCall
  <1>4. CASE Handlers[h].type = "Stick"
    <2> DEFINE x == Call(ms, s, "x", role, data.x)
    <2>1. n = Call(ms, x, "y", role, data.y)
      BY <1>4 DEF TraitsApply, ApplyStick
    <2>2. IsFunction(x.channels)
      BY CallChannels
    <2>3. IsFunction(n.channels)
      BY <2>1, CallChannels
    <2>4. ASSUME ~n.updated
          PROVE  n.channels = x.channels /\ ~x.updated
      BY <2>1, <2>2, <2>4, QuietCall
    <2>5. ~x.updated => x.channels = channels
      BY <1>2, QuietCall
    <2> QED BY <2>3, <2>4, <2>5
  <1>5. CASE Handlers[h].type = "Button"
    <2>1. n = Call(ms, s, "btnState", role, FieldValue(data, "btnState"))
      BY <1>5 DEF TraitsApply
    <2> QED BY <1>2, <2>1, CallChannels, QuietCall
  <1> QED BY <1>1, <1>3, <1>4, <1>5 DEF TopicType

-----------------------------------------------------------------------------
(* The loop.                                                               *)

NothingTaken == \A i \in Instances : taken[i] = <<>>

\* Where the loop is, and what that says of its handler, of the samples it has
\* taken and of the result of the run.
Position ==
  /\ pc \in {"top", "take", "sample", "update", "sleep", "exit"}
  /\ pc \in {"sample", "update"} => handler \in DOMAIN Handlers
  /\ pc \notin {"sample", "update"} => NothingTaken
  /\ pc # "exit" => exitCode = "none" /\ lastError = ""
  /\ pc = "exit" => exitCode \in {"success", "failure"}

\* The inductive invariant: the two properties need to know that the channels
\* are a map, and where the loop can be.
RInv == IsFunction(channels) /\ Position /\ DeviceInSync /\ ExitsAreClean

LEMMA InitRInv == Init => RInv
  <1> SUFFICES ASSUME Init PROVE RInv
    OBVIOUS
  <1>1. IsFunction(channels) /\ device = channels
    BY DEF Init, IsFunction
  <1>2. Position
    BY DEF Init, Position, NothingTaken
  <1>3. DeviceInSync
    BY <1>1 DEF DeviceInSync
  <1>4. ExitsAreClean
    BY DEF Init, ExitsAreClean
  <1> QED BY <1>1, <1>2, <1>3, <1>4 DEF RInv

\* The environment touches nothing that the invariant speaks of, but the stop
\* flag, which it only sets.
LEMMA EnvironmentRInv ==
  ASSUME RInv, Environment
  PROVE  RInv'
  <1>1. UNCHANGED <<pc, handler, taken, channels, device, exitCode, lastError>>
    BY DEF Environment, Move, Edge, Hold, Arrive, Dispose, RequestStop,
           dataVars, exitVars
  <1>2. stop => stop'
    BY DEF Environment, Move, Edge, Hold, Arrive, Dispose, RequestStop
  <1> QED BY <1>1, <1>2 DEF RInv, Position, NothingTaken, DeviceInSync,
                            ExitsAreClean, IsFunction

LEMMA TopRInv ==
  ASSUME RInv, Top
  PROVE  RInv'
  <1>1. UNCHANGED <<stop, taken, channels, device>>
    BY DEF Top, dataVars
  <1>2. NothingTaken /\ exitCode = "none" /\ lastError = "" /\ device = channels
    BY DEF RInv, Position, DeviceInSync, Top
  <1>3. CASE stop /\ Exit("success", lastError)
    BY <1>1, <1>2, <1>3 DEF RInv, Position, NothingTaken, DeviceInSync,
                            ExitsAreClean, IsFunction, Exit
  <1>4. CASE pc' = "take" /\ UNCHANGED exitVars
    BY <1>1, <1>2, <1>4 DEF RInv, Position, NothingTaken, DeviceInSync,
                            ExitsAreClean, IsFunction, exitVars
  <1> QED BY <1>3, <1>4 DEF Top

LEMMA TakeRInv ==
  ASSUME RInv, Take
  PROVE  RInv'
  <1>1. UNCHANGED <<stop, handler, channels, device, exitCode, lastError>>
    BY DEF Take, dataVars, exitVars
  <1>2. pc = "take" /\ pc' = "sample" /\ handler \in DOMAIN Handlers
    BY DEF Take
  <1>3. IsFunction(channels)' /\ Position'
    BY <1>1, <1>2 DEF RInv, Position, IsFunction
  <1>4. DeviceInSync' /\ ExitsAreClean'
    BY <1>1, <1>2 DEF RInv, Position, DeviceInSync, ExitsAreClean
  <1> QED BY <1>3, <1>4 DEF RInv

\* Whatever ends the run with a failure leaves nothing taken and an error.
LEMMA FailureRInv ==
  ASSUME RInv, NEW error, error # "", Exit("failure", error),
         NothingTaken', UNCHANGED <<stop, channels>>
  PROVE  RInv'
  <1>1. pc' = "exit" /\ exitCode' = "failure" /\ lastError' # ""
    BY DEF Exit
  <1>2. IsFunction(channels)' /\ Position'
    BY <1>1 DEF RInv, Position, IsFunction
  <1>3. DeviceInSync' /\ ExitsAreClean'
    BY <1>1 DEF DeviceInSync, ExitsAreClean
  <1> QED BY <1>2, <1>3 DEF RInv

LEMMA TakeThrowsRInv ==
  ASSUME RInv, TakeThrows
  PROVE  RInv'
  <1>1. NothingTaken'
    BY DEF RInv, Position, NothingTaken, TakeThrows
  <1> QED BY <1>1, FailureRInv DEF TakeThrows, dataVars

LEMMA UpdateFailsRInv ==
  ASSUME RInv, UpdateFails
  PROVE  RInv'
  <1>1. NothingTaken'
    BY DEF NothingTaken, UpdateFails
  <1> QED BY <1>1, FailureRInv DEF UpdateFails, dataVars

LEMMA UpdateSucceedsRInv ==
  ASSUME RInv, UpdateSucceeds
  PROVE  RInv'
  <1>1. /\ UNCHANGED <<stop, handler, taken, channels, exitCode, lastError>>
        /\ pc = "update" /\ pc' = "sample" /\ device' = channels
    BY DEF UpdateSucceeds, dataVars, exitVars
  <1> QED BY <1>1 DEF RInv, Position, DeviceInSync, ExitsAreClean, IsFunction

LEMMA SkipSampleRInv ==
  ASSUME RInv, NEW i \in Instances, SkipSample(i)
  PROVE  RInv'
  <1>1. /\ UNCHANGED <<stop, pc, handler, channels, device, exitCode, lastError>>
        /\ pc = "sample"
    BY DEF SkipSample, dataVars, exitVars
  <1> QED BY <1>1 DEF RInv, Position, DeviceInSync, ExitsAreClean, IsFunction

\* The step the device's synchrony rests on: a sample whose channels the device
\* has yet to see is followed by an update.
LEMMA ApplySampleRInv ==
  ASSUME RInv, NEW i \in Instances, ApplySample(i)
  PROVE  RInv'
  <1> DEFINE x == Head(taken[i])
             n == TraitsApply(handler, ResolveRoleFromData(x.source), x.data)
  <1>1. /\ UNCHANGED <<stop, handler, device, exitCode, lastError>>
        /\ pc = "sample"
        /\ channels' = n.channels
        /\ pc' = IF n.updated THEN "update" ELSE "sample"
    BY DEF ApplySample, exitVars
  <1>2. /\ handler \in DOMAIN Handlers /\ IsFunction(channels)
        /\ exitCode = "none" /\ lastError = "" /\ device = channels
    BY <1>1 DEF RInv, Position, DeviceInSync
  <1>3. IsFunction(n.channels) /\ (~n.updated => n.channels = channels)
    BY <1>2, TraitsApplyChannels
  <1>4. IsFunction(channels)'
    BY <1>1, <1>3 DEF IsFunction
  <1>5. Position'
    BY <1>1, <1>2 DEF Position
  <1>6. DeviceInSync'
    BY <1>1, <1>2, <1>3 DEF DeviceInSync
  <1>7. ExitsAreClean'
    BY <1>1, <1>2 DEF ExitsAreClean
  <1> QED BY <1>4, <1>5, <1>6, <1>7 DEF RInv

\* The steps that only move the loop on, with nothing taken.
LEMMA MoveOnRInv ==
  ASSUME RInv, NextHandler \/ Sleep \/ Wake
  PROVE  RInv'
  <1>1. UNCHANGED <<stop, taken, channels, device, exitCode, lastError>>
    BY DEF NextHandler, Sleep, Wake, dataVars, exitVars
  <1>2. NothingTaken
    BY DEF RInv, Position, NothingTaken, NextHandler, Sleep, Wake
  <1>3. pc \in {"take", "sample", "sleep"} /\ pc' \in {"take", "sleep", "top"}
    BY DEF NextHandler, Sleep, Wake
  <1>4. IsFunction(channels)' /\ Position'
    BY <1>1, <1>2, <1>3 DEF RInv, Position, NothingTaken, IsFunction
  <1>5. DeviceInSync' /\ ExitsAreClean'
    BY <1>1, <1>3 DEF RInv, Position, DeviceInSync, ExitsAreClean
  <1> QED BY <1>4, <1>5 DEF RInv

LEMMA NextRInv ==
  ASSUME RInv, [Next]_vars
  PROVE  RInv'
  <1>1. CASE Environment
    BY <1>1, EnvironmentRInv
  <1>2. CASE Top
    BY <1>2, TopRInv
  <1>3. CASE Take
    BY <1>3, TakeRInv
  <1>4. CASE TakeThrows
    BY <1>4, TakeThrowsRInv
  <1>5. CASE UpdateSucceeds
    BY <1>5, UpdateSucceedsRInv
  <1>6. CASE UpdateFails
    BY <1>6, UpdateFailsRInv
  <1>7. CASE NextHandler \/ Sleep \/ Wake
    BY <1>7, MoveOnRInv
  <1>8. ASSUME NEW i \in Instances, SkipSample(i)
        PROVE  RInv'
    BY <1>8, SkipSampleRInv
  <1>9. ASSUME NEW i \in Instances, ApplySample(i)
        PROVE  RInv'
    BY <1>9, ApplySampleRInv
  <1>10. CASE UNCHANGED vars
    BY <1>10 DEF RInv, Position, NothingTaken, DeviceInSync, ExitsAreClean,
                 IsFunction, vars, dataVars, exitVars
  <1> QED BY <1>1, <1>2, <1>3, <1>4, <1>5, <1>6, <1>7, <1>8, <1>9, <1>10
          DEF Next, Loop, Update

LEMMA Invariance == Spec => []RInv
  BY InitRInv, NextRInv, PTL DEF Spec

\* No sample that changes a channel is left unsubmitted, whatever the number of
\* subscriptions and the mappings a sample matches.
THEOREM DeviceStaysInSync == Spec => []DeviceInSync
  <1>1. RInv => DeviceInSync
    BY DEF RInv
  <1> QED BY <1>1, Invariance, PTL

\* A run ends well only when asked to, with nothing taken left unprocessed and
\* its last state on the device; a run that fails has an error to show.
THEOREM ExitsStayClean == Spec => []ExitsAreClean
  <1>1. RInv => ExitsAreClean
    BY DEF RInv
  <1> QED BY <1>1, Invariance, PTL

-----------------------------------------------------------------------------
(* Samples and sources.                                                    *)

LEMMA SourceFields ==
  ASSUME NEW s \in Sources
  PROVE  /\ s.reader \in DOMAIN Handlers
         /\ TypeOf(s) \in TopicType
         /\ InstanceOf(s) \in Instances /\ InstanceOf(s)[1] = s.reader
  <1>1. s.reader \in DOMAIN Handlers
    BY SourcesAssumption
  <1> QED BY <1>1, HandlerFields DEF TypeOf, InstanceOf, Instances

\* The sources of an instance share its reader.
LEMMA SameInstance ==
  ASSUME NEW r \in Sources, NEW s \in Sources, InstanceOf(r) = InstanceOf(s)
  PROVE  TypeOf(r) = TypeOf(s)
  BY DEF InstanceOf, TypeOf

LEMMA SampleFields ==
  ASSUME NEW x \in Sample
  PROVE  /\ x.source \in Sources /\ x.valid \in BOOLEAN
         /\ x.data \in DataOf(TypeOf(x.source))
  BY DEF Sample

LEMMA NewSample ==
  ASSUME NEW s \in Sources, NEW valid \in BOOLEAN, NEW data \in DataOf(TypeOf(s))
  PROVE  [source |-> s, valid |-> valid, data |-> data] \in Sample
  BY DEF Sample

LEMMA SeqGrows ==
  ASSUME NEW A, NEW B, A \subseteq B, NEW q \in Seq(A)
  PROVE  q \in Seq(B)
  OBVIOUS

\* A cache keeps what it held, less its oldest sample, and its bound.
LEMMA StoredType ==
  ASSUME NEW S, NEW q \in Seq(S), NEW x \in S, Len(q) <= Depth
  PROVE  Stored(q, x) \in Seq(S) /\ Len(Stored(q, x)) <= Depth
  <1>1. Depth \in Nat \ {0}
    BY BoundsAssumption
  <1>2. CASE Len(q) = Depth
    <2>1. q # <<>>
      BY <1>1, <1>2
    <2>2. Tail(q) \in Seq(S) /\ Len(Tail(q)) = Len(q) - 1
      BY <2>1
    <2>3. Stored(q, x) = Append(Tail(q), x)
      BY <1>2 DEF Stored
    <2> HIDE DEF Stored
    <2> QED BY <1>1, <1>2, <2>2, <2>3
  <1>3. CASE Len(q) # Depth
    <2>1. Stored(q, x) = Append(q, x)
      BY <1>3 DEF Stored
    <2> QED BY <1>1, <1>3, <2>1
  <1> QED BY <1>2, <1>3

-----------------------------------------------------------------------------
(* Types.                                                                  *)

\* What an instance's queues can hold: its own samples, and usable ones only
\* of sources that were heard.
SamplesOf(i) ==
  {x \in Sample : /\ InstanceOf(x.source) = i
                  /\ x.valid /\ Usable(TypeOf(x.source), x.data)
                       => latest[x.source] # Unheard}

Queues ==
  /\ DOMAIN cache = Instances /\ IsFunction(cache)
  /\ DOMAIN taken = Instances /\ IsFunction(taken)
  /\ \A i \in Instances : /\ cache[i] \in Seq(SamplesOf(i))
                          /\ Len(cache[i]) <= Depth
                          /\ taken[i] \in Seq(SamplesOf(i))
                          /\ taken[i] # <<>> => i \in InstancesOf(handler)

\* What was heard of a source is data of its type.
Heard ==
  /\ DOMAIN latest = Sources
  /\ \A s \in Sources : latest[s] \in DataOf(TypeOf(s)) \cup {Unheard}

\* An instance that ends had a source with something to say.
Ends ==
  /\ gone \subseteq Instances
  /\ \A i \in gone : \E s \in Sources :
       InstanceOf(s) = i /\ DataOf(TypeOf(s)) # {}

Engines ==
  /\ DOMAIN additive_state = DOMAIN Handlers
  /\ \A h \in DOMAIN Handlers :
       additive_state[h] \in [AdditiveNames(Handlers[h].mappings) -> Int]

Scalars ==
  /\ arrivals \in 0..MaxArrivals
  /\ pressed \in [Sources -> BOOLEAN]
  /\ stop \in BOOLEAN
  /\ handler \in 1..Len(Handlers) + 1
  /\ exitCode \in {"none", "success", "failure"}
  /\ lastError \in {"", "Runtime error", "Unhandled exception"}
  /\ overrun \subseteq Sources

TInv == RInv /\ Queues /\ Heard /\ Ends /\ Engines /\ Scalars

LEMMA TypesFromTInv == TInv => TypeOK
  <1> SUFFICES ASSUME TInv PROVE TypeOK
    OBVIOUS
  <1>1. ASSUME NEW i \in Instances
        PROVE  cache[i] \in Seq(Sample) /\ taken[i] \in Seq(Sample)
    <2>1. SamplesOf(i) \subseteq Sample
      BY DEF SamplesOf
    <2> QED BY <2>1, SeqGrows DEF TInv, Queues
  <1>2. cache \in [Instances -> Seq(Sample)] /\ taken \in [Instances -> Seq(Sample)]
    BY <1>1 DEF TInv, Queues, IsFunction
  <1> QED BY <1>2 DEF TInv, RInv, Position, Queues, Ends, Engines, Scalars, TypeOK

LEMMA LenHandlers == Len(Handlers) \in Nat /\ DOMAIN Handlers = 1..Len(Handlers)
  BY HandlersAssumption

LEMMA InitTInv == Init => TInv
  <1> SUFFICES ASSUME Init PROVE TInv
    OBVIOUS
  <1>1. Queues
    <2>1. \A i \in Instances : <<>> \in Seq(SamplesOf(i)) /\ Len(<<>>) = 0
      OBVIOUS
    <2>2. 0 <= Depth
      BY BoundsAssumption
    <2> QED BY <2>1, <2>2 DEF Init, Queues, IsFunction
  <1>2. Heard /\ Ends
    BY DEF Init, Heard, Ends
  <1>3. Engines
    <2>1. additive_state = [h \in DOMAIN Handlers |->
                              SeededState(Handlers[h].mappings)]
      BY DEF Init
    <2> QED BY <2>1 DEF Engines, SeededState
  <1>4. Scalars
    <2>1. 0 \in 0..MaxArrivals /\ 1 \in 1..Len(Handlers) + 1
      BY LenHandlers, BoundsAssumption
    <2>2. [s \in Sources |-> FALSE] \in [Sources -> BOOLEAN]
      OBVIOUS
    <2> QED BY <2>1, <2>2 DEF Init, Scalars
  <1> QED BY <1>1, <1>2, <1>3, <1>4, InitRInv DEF TInv

\* The steps that touch neither queues nor what was heard.
LEMMA QueuesKept ==
  ASSUME Queues, UNCHANGED <<cache, latest>>,
         \/ UNCHANGED <<taken, handler>>
         \/ NothingTaken /\ UNCHANGED taken
  PROVE  Queues'
  <1>1. \A i : SamplesOf(i)' = SamplesOf(i)
    BY DEF SamplesOf
  <1> QED BY <1>1 DEF Queues, IsFunction, NothingTaken, InstancesOf

LEMMA OneMoreArrival ==
  ASSUME arrivals \in 0..MaxArrivals, arrivals < MaxArrivals
  PROVE  arrivals + 1 \in 0..MaxArrivals
  BY BoundsAssumption

\* A sample arrives.
LEMMA ArriveTInv ==
  ASSUME Queues, Heard, Ends, Scalars, NEW s \in Sources,
         NEW data \in DataOf(TypeOf(s)), Arrive(s, data)
  PROVE  Queues' /\ Heard' /\ Ends' /\ arrivals' \in 0..MaxArrivals
         /\ overrun' \subseteq Sources
  <1> DEFINE i == InstanceOf(s)
             x == [source |-> s, valid |-> TRUE, data |-> data]
  <1>1. /\ arrivals < MaxArrivals /\ arrivals' = arrivals + 1
        /\ cache' = [cache EXCEPT ![i] = Stored(cache[i], x)]
        /\ overrun' = IF Len(cache[i]) = Depth
                      THEN overrun \cup {Head(cache[i]).source} ELSE overrun
        /\ latest' = IF Usable(TypeOf(s), data)
                     THEN [latest EXCEPT ![s] = data] ELSE latest
        /\ UNCHANGED <<gone, handler, taken>>
    BY DEF Arrive
  <1>2. i \in Instances /\ TypeOf(s) \in TopicType
    BY SourceFields
  <1>3. x \in Sample /\ x.source = s /\ x.data = data /\ data # Unheard
    BY <1>2, NewSample, UnheardAssumption
  <1>4. Heard' /\ \A r \in Sources : latest[r] # Unheard => latest'[r] # Unheard
    BY <1>1, <1>3 DEF Heard
  <1>5. \A j : SamplesOf(j) \subseteq SamplesOf(j)'
    BY <1>4, SampleFields DEF SamplesOf
  <1>6. x \in SamplesOf(i)'
    BY <1>1, <1>3 DEF SamplesOf, Heard
  <1>7. ASSUME NEW j \in Instances
        PROVE  /\ cache'[j] \in Seq(SamplesOf(j)') /\ Len(cache'[j]) <= Depth
               /\ taken'[j] \in Seq(SamplesOf(j)')
    <2>1. cache[j] \in Seq(SamplesOf(j)') /\ taken[j] \in Seq(SamplesOf(j)')
      BY <1>5, SeqGrows DEF Queues
    <2>2. CASE j = i
      <3>1. cache'[j] = Stored(cache[i], x)
        BY <1>1, <1>2, <2>2 DEF Queues
      <3> QED BY <1>1, <1>6, <2>1, <2>2, <3>1, StoredType DEF Queues
    <2>3. CASE j # i
      BY <1>1, <2>1, <2>3 DEF Queues
    <2> QED BY <2>2, <2>3
  <1>8. Queues'
    BY <1>1, <1>7 DEF Queues, IsFunction, InstancesOf
  <1>9. overrun' \subseteq Sources
    <2>1. CASE Len(cache[i]) = Depth
      <3>1. cache[i] \in Seq(SamplesOf(i)) /\ cache[i] # <<>>
        BY <1>2, <2>1, BoundsAssumption DEF Queues
      <3>2. Head(cache[i]) \in SamplesOf(i)
        BY <3>1
      <3>3. Head(cache[i]).source \in Sources
        BY <3>2, SampleFields DEF SamplesOf
      <3> QED BY <1>1, <2>1, <3>3 DEF Scalars
    <2>2. CASE Len(cache[i]) # Depth
      BY <1>1, <2>2 DEF Scalars
    <2> QED BY <2>1, <2>2
  <1>10. Ends'
    BY <1>1 DEF Ends
  <1>11. arrivals' \in 0..MaxArrivals
    BY <1>1, OneMoreArrival DEF Scalars
  <1> QED BY <1>4, <1>8, <1>9, <1>10, <1>11

LEMMA EnvironmentTInv ==
  ASSUME TInv, Environment
  PROVE  TInv'
  <1>1. RInv'
    BY EnvironmentRInv DEF TInv
  <1>2. UNCHANGED <<additive_state, handler, exitCode, lastError, taken>>
    BY DEF Environment, Move, Edge, Hold, Arrive, Dispose, RequestStop,
           dataVars, exitVars
  <1>3. Engines'
    BY <1>2 DEF TInv, Engines
  <1>4. ASSUME NEW s \in Sources, NEW data \in DataOf(TypeOf(s)),
               Arrive(s, data), pressed' \in [Sources -> BOOLEAN]
        PROVE  TInv'
    <2>1. Queues' /\ Heard' /\ Ends' /\ arrivals' \in 0..MaxArrivals
          /\ overrun' \subseteq Sources
      BY <1>4, ArriveTInv DEF TInv
    <2>2. stop' = stop
      BY <1>4 DEF Arrive
    <2> QED BY <1>1, <1>2, <1>3, <1>4, <2>1, <2>2 DEF TInv, Scalars
  <1>5. ASSUME NEW s \in Sources, Move(s) PROVE TInv'
    <2>1. PICK data \in DataOf(TypeOf(s)) : Arrive(s, data)
      BY <1>5 DEF Move
    <2> QED BY <1>4, <1>5, <2>1 DEF Move, TInv, Scalars
  <1>6. ASSUME NEW s \in Sources, Edge(s) \/ Hold(s) PROVE TInv'
    <2> DEFINE Report(state, changing) ==
                 [btnState |-> state, btnChanging |-> changing]
    <2>1. PICK state \in {"Up", "Down"}, changing \in {"true", "false"} :
            Arrive(s, Report(state, changing))
      BY <1>6 DEF Edge, Hold
    <2>2. TypeOf(s) = "Button" /\ pressed' \in [Sources -> BOOLEAN]
      BY <1>6 DEF Edge, Hold, TInv, Scalars
    <2>3. Report(state, changing) \in DataOf(TypeOf(s))
      BY <2>2 DEF DataOf, ButtonData
    <2> QED BY <1>4, <2>1, <2>2, <2>3
  <1>7. ASSUME NEW s \in Sources, Dispose(s) PROVE TInv'
    <2>1. UNCHANGED <<cache, pressed, latest, overrun, stop>>
      BY <1>7 DEF Dispose
    <2>2. Queues'
      BY <1>2, <2>1, QueuesKept DEF TInv
    <2>3. Ends'
      <3>1. InstanceOf(s) \in Instances /\ DataOf(TypeOf(s)) # {}
        BY <1>7, SourceFields DEF Dispose, TInv, Heard
      <3> QED BY <1>7, <3>1 DEF Dispose, TInv, Ends
    <2>4. arrivals' \in 0..MaxArrivals
      BY <1>7, OneMoreArrival DEF Dispose, TInv, Scalars
    <2> QED BY <1>1, <1>2, <1>3, <2>1, <2>2, <2>3, <2>4 DEF TInv, Heard, Scalars
  <1>8. CASE RequestStop
    <2>1. UNCHANGED <<cache, gone, arrivals, pressed, latest, overrun>> /\ stop' = TRUE
      BY <1>8 DEF RequestStop, envVars
    <2>2. Queues'
      BY <1>2, <2>1, QueuesKept DEF TInv
    <2> QED BY <1>1, <1>2, <1>3, <2>1, <2>2 DEF TInv, Heard, Ends, Scalars
  <1> QED BY <1>5, <1>6, <1>7, <1>8 DEF Environment

-----------------------------------------------------------------------------
(* The loop's steps.                                                       *)

\* A call of an engine keeps its additive state's type: whatever a mapping
\* makes of a value is a number.
LEMMA MappedValueInt ==
  ASSUME NEW m, NEW raw
  PROVE  MappedValue(m, raw) \in Int
  <1>1. Unit \in Nat \ {0}
    BY UnitAssumption
  <1>2. \A v, lo, hi : lo \in Int /\ hi \in Int /\ lo <= hi => Clamp(v, lo, hi) \in Int
    BY DEF Clamp
  <1>3. \A type, v : ClampFor(type, v) \in Int
    BY <1>1, <1>2 DEF ClampFor
  <1> QED BY <1>1, <1>3 DEF MappedValue

LEMMA CallState ==
  ASSUME NEW ms, NEW s, NEW field, NEW role, NEW value,
         s.additive_state \in [AdditiveNames(ms) -> Int]
  PROVE  Call(ms, s, field, role, value).additive_state
           \in [AdditiveNames(ms) -> Int]
  <1> DEFINE a == [field |-> field, id |-> role, value |-> value]
  <1>1. Call(ms, s, field, role, value).additive_state =
          RememberedUpTo(ms, s.additive_state, a, Len(ms))
    BY DEF Call, Apply
  <1> QED BY <1>1, MappedValueInt DEF RememberedUpTo

LEMMA TraitsApplyState ==
  ASSUME Engines, NEW h \in DOMAIN Handlers, NEW role, NEW data
  PROVE  TraitsApply(h, role, data).additive_state
           \in [AdditiveNames(Handlers[h].mappings) -> Int]
  <1> DEFINE ms == Handlers[h].mappings
             s == [additive_state |-> additive_state[h], channels |-> channels,
                   updated |-> FALSE]
             n == TraitsApply(h, role, data)
  <1>1. s.additive_state \in [AdditiveNames(ms) -> Int]
    BY DEF Engines
  <1>2. Handlers[h].type \in TopicType
    BY HandlerFields
  <1>3. CASE Handlers[h].type = "Analog"
    <2>1. n = Call(ms, s, "value", role, data.value)
      BY <1>3 DEF TraitsApply
    <2> QED BY <1>1, <2>1, CallState
  <1>4. CASE Handlers[h].type = "Stick"
    <2>1. n = Call(ms, Call(ms, s, "x", role, data.x), "y", role, data.y)
      BY <1>4 DEF TraitsApply, ApplyStick
    <2>2. Call(ms, s, "x", role, data.x).additive_state \in [AdditiveNames(ms) -> Int]
      BY <1>1, CallState
    <2> QED BY <2>1, <2>2, CallState
  <1>5. CASE Handlers[h].type = "Button"
    <2>1. n = Call(ms, s, "btnState", role, FieldValue(data, "btnState"))
      BY <1>5 DEF TraitsApply
    <2> QED BY <1>1, <2>1, CallState
  <1> QED BY <1>2, <1>3, <1>4, <1>5 DEF TopicType

\* The sample that tells of an instance's end is one of the instance, and none
\* that is processed.
LEMMA EndOfType ==
  ASSUME Ends, NEW i \in gone
  PROVE  EndOf(i) \in SamplesOf(i)
  <1> DEFINE s == CHOOSE r \in Sources : InstanceOf(r) = i
             d == CHOOSE data \in DataOf(TypeOf(s)) : TRUE
  <1>1. PICK r \in Sources : InstanceOf(r) = i /\ DataOf(TypeOf(r)) # {}
    BY DEF Ends
  <1>2. s \in Sources /\ InstanceOf(s) = i
    BY <1>1
  <1>3. TypeOf(s) = TypeOf(r)
    BY <1>1, <1>2, SameInstance
  <1>4. d \in DataOf(TypeOf(s))
    BY <1>1, <1>3
  <1>5. EndOf(i) = [source |-> s, valid |-> FALSE, data |-> d]
    BY DEF EndOf
  <1> HIDE DEF s, d
  <1>6. [source |-> s, valid |-> FALSE, data |-> d] \in Sample
    BY <1>2, <1>4, NewSample
  <1>7. EndOf(i) \in Sample /\ EndOf(i).source = s /\ ~EndOf(i).valid
    BY <1>5, <1>6
  <1> QED BY <1>2, <1>7 DEF SamplesOf

LEMMA TakeTInv ==
  ASSUME TInv, Take
  PROVE  TInv'
  <1>1. /\ UNCHANGED <<arrivals, pressed, latest, overrun, stop, handler,
                       additive_state, exitCode, lastError>>
        /\ gone' = gone \ InstancesOf(handler)
    BY DEF Take, envVars, dataVars, exitVars
  <1>2. \A i : SamplesOf(i)' = SamplesOf(i)
    BY <1>1 DEF SamplesOf
  <1>3. ASSUME NEW i \in Instances
        PROVE  /\ cache'[i] \in Seq(SamplesOf(i)) /\ Len(cache'[i]) <= Depth
               /\ taken'[i] \in Seq(SamplesOf(i))
               /\ taken'[i] # <<>> => i \in InstancesOf(handler)
    <2>1. cache[i] \in Seq(SamplesOf(i)) /\ Len(cache[i]) <= Depth
      BY DEF TInv, Queues
    <2>2. <<>> \in Seq(SamplesOf(i)) /\ Len(<<>>) <= Depth
      BY BoundsAssumption
    <2>3. cache'[i] = IF i \in InstancesOf(handler) THEN <<>> ELSE cache[i]
      BY DEF Take
    <2>4. taken'[i] = IF i \in InstancesOf(handler)
                      THEN cache[i] \o (IF i \in gone THEN <<EndOf(i)>> ELSE <<>>)
                      ELSE <<>>
      BY DEF Take
    <2>5. i \in gone => <<EndOf(i)>> \in Seq(SamplesOf(i))
      BY EndOfType DEF TInv
    <2> QED BY <2>1, <2>2, <2>3, <2>4, <2>5
  <1>4. Queues'
    <2>1. DOMAIN cache' = Instances /\ IsFunction(cache')
      BY DEF Take, IsFunction
    <2>2. DOMAIN taken' = Instances /\ IsFunction(taken')
      BY DEF Take, IsFunction
    <2> QED BY <1>1, <1>2, <1>3, <2>1, <2>2 DEF Queues, IsFunction, InstancesOf
  <1>5. Heard' /\ Ends' /\ Engines' /\ Scalars'
    BY <1>1 DEF TInv, Heard, Ends, Engines, Scalars
  <1> QED BY <1>4, <1>5, TakeRInv DEF TInv

\* Removing the sample at the head of a queue.
LEMMA RemoveQueues ==
  ASSUME Queues, NEW i \in Instances, taken[i] # <<>>, Remove(i),
         UNCHANGED <<cache, latest, handler>>
  PROVE  Queues' /\ Head(taken[i]) \in SamplesOf(i)
  <1>1. \A j : SamplesOf(j)' = SamplesOf(j)
    BY DEF SamplesOf
  <1>2. taken[i] \in Seq(SamplesOf(i))
    BY DEF Queues
  <1>3. Tail(taken[i]) \in Seq(SamplesOf(i)) /\ Head(taken[i]) \in SamplesOf(i)
    BY <1>2
  <1>4. taken' = [taken EXCEPT ![i] = Tail(taken[i])]
    BY DEF Remove
  <1> QED BY <1>1, <1>3, <1>4 DEF Queues, IsFunction, InstancesOf

LEMMA SampleTInv ==
  ASSUME TInv, NEW i \in Instances, SkipSample(i) \/ ApplySample(i)
  PROVE  TInv'
  <1>1. /\ taken[i] # <<>> /\ Remove(i)
        /\ UNCHANGED <<cache, gone, arrivals, pressed, latest, overrun, stop,
                       handler, exitCode, lastError>>
    BY DEF SkipSample, ApplySample, envVars, exitVars
  <1>2. Queues'
    BY <1>1, RemoveQueues DEF TInv
  <1>3. Engines'
    <2>1. CASE SkipSample(i)
      BY <2>1 DEF SkipSample, dataVars, TInv, Engines
    <2>2. CASE ApplySample(i)
      <3> DEFINE x == Head(taken[i])
                 n == TraitsApply(handler, ResolveRoleFromData(x.source), x.data)
      <3>1. additive_state' = [additive_state EXCEPT ![handler] = n.additive_state]
        BY <2>2 DEF ApplySample
      <3>2. handler \in DOMAIN Handlers
        BY <2>2 DEF ApplySample, TInv, RInv, Position
      <3>3. n.additive_state \in [AdditiveNames(Handlers[handler].mappings) -> Int]
        BY <3>2, TraitsApplyState DEF TInv
      <3> HIDE DEF n
      <3> QED BY <3>1, <3>2, <3>3 DEF TInv, Engines
    <2> QED BY <2>1, <2>2
  <1>4. Heard' /\ Ends' /\ Scalars'
    BY <1>1 DEF TInv, Heard, Ends, Scalars
  <1>5. RInv'
    BY SkipSampleRInv, ApplySampleRInv DEF TInv
  <1> QED BY <1>2, <1>3, <1>4, <1>5 DEF TInv

\* The other steps of the loop take nothing and process nothing.
LEMMA OtherTInv ==
  ASSUME TInv, Top \/ TakeThrows \/ Update \/ NextHandler \/ Sleep \/ Wake
  PROVE  TInv'
  <1>1. UNCHANGED <<cache, gone, arrivals, pressed, latest, overrun, stop,
                    additive_state>>
    BY DEF Top, TakeThrows, Update, UpdateSucceeds, UpdateFails, NextHandler,
           Sleep, Wake, envVars, dataVars
  <1>2. RInv'
    BY TopRInv, TakeThrowsRInv, UpdateSucceedsRInv, UpdateFailsRInv, MoveOnRInv
    DEF TInv, Update
  <1>3. Queues'
    <2>1. CASE UpdateFails
      <3>1. \A i : SamplesOf(i)' = SamplesOf(i)
        BY <1>1 DEF SamplesOf
      <3>2. \A i \in Instances : <<>> \in Seq(SamplesOf(i))
        OBVIOUS
      <3>3. taken' = [i \in Instances |-> <<>>]
        BY <2>1 DEF UpdateFails
      <3> QED BY <1>1, <3>1, <3>2, <3>3 DEF TInv, Queues, IsFunction
    <2>2. CASE UpdateSucceeds
      <3>1. UNCHANGED <<taken, handler>>
        BY <2>2 DEF UpdateSucceeds
      <3> QED BY <1>1, <3>1, QueuesKept DEF TInv
    <2>3. CASE Top \/ TakeThrows \/ NextHandler \/ Sleep \/ Wake
      <3>1. UNCHANGED taken
        BY <2>3 DEF Top, TakeThrows, NextHandler, Sleep, Wake
      <3>2. NothingTaken
        BY <2>3 DEF Top, TakeThrows, NextHandler, Sleep, Wake, TInv, RInv,
                    Position, NothingTaken
      <3> QED BY <1>1, <3>1, <3>2, QueuesKept DEF TInv
    <2> QED BY <2>1, <2>2, <2>3 DEF Update
  <1>4. handler' \in 1..Len(Handlers) + 1
    <2>1. CASE NextHandler
      <3>1. handler \in DOMAIN Handlers /\ handler' = handler + 1
        BY <2>1 DEF NextHandler, TInv, RInv, Position
      <3> QED BY <3>1, LenHandlers
    <2>2. CASE Top
      <3>1. handler' \in {1, handler}
        BY <2>2 DEF Top
      <3>2. handler \in 1..Len(Handlers) + 1
        BY DEF TInv, Scalars
      <3> QED BY <3>1, <3>2, LenHandlers
    <2>3. CASE TakeThrows \/ Update \/ Sleep \/ Wake
      BY <2>3 DEF TakeThrows, Update, UpdateSucceeds, UpdateFails, Sleep, Wake,
                  TInv, Scalars
    <2> QED BY <2>1, <2>2, <2>3
  <1>5. /\ exitCode' \in {"none", "success", "failure"}
        /\ lastError' \in {"", "Runtime error", "Unhandled exception"}
    <2>1. exitCode \in {"none", "success", "failure"}
          /\ lastError \in {"", "Runtime error", "Unhandled exception"}
      BY DEF TInv, Scalars
    <2> QED BY <2>1 DEF Top, TakeThrows, Update, UpdateSucceeds, UpdateFails,
                        NextHandler, Sleep, Wake, Exit, exitVars
  <1>6. Heard' /\ Ends' /\ Engines' /\ Scalars'
    BY <1>1, <1>4, <1>5 DEF TInv, Heard, Ends, Engines, Scalars
  <1> QED BY <1>2, <1>3, <1>6 DEF TInv

LEMMA NextTInv ==
  ASSUME TInv, [Next]_vars
  PROVE  TInv'
  <1>1. CASE Environment
    BY <1>1, EnvironmentTInv
  <1>2. CASE Take
    BY <1>2, TakeTInv
  <1>3. ASSUME NEW i \in Instances, SkipSample(i) \/ ApplySample(i)
        PROVE  TInv'
    BY <1>3, SampleTInv
  <1>4. CASE Top \/ TakeThrows \/ Update \/ NextHandler \/ Sleep \/ Wake
    BY <1>4, OtherTInv
  <1>5. CASE UNCHANGED vars
    <2>1. UNCHANGED <<cache, latest, taken, handler>>
      BY <1>5 DEF vars, envVars
    <2>2. Queues'
      BY <2>1, QueuesKept DEF TInv
    <2>3. RInv'
      BY <1>5, NextRInv DEF TInv
    <2>4. Heard' /\ Ends' /\ Engines' /\ Scalars'
      BY <1>5 DEF TInv, Heard, Ends, Engines, Scalars, vars, envVars, dataVars,
                  exitVars
    <2> QED BY <2>2, <2>3, <2>4 DEF TInv
  <1> QED BY <1>1, <1>2, <1>3, <1>4, <1>5 DEF Next, Loop

LEMMA TInvariance == Spec => []TInv
  BY InitTInv, NextTInv, PTL DEF Spec

\* The read loop is type-correct: no cache holds more than it may of an
\* instance, whatever arrives and whenever the loop takes it.
THEOREM LoopTypeCorrect == Spec => []TypeOK
  BY TInvariance, TypesFromTInv, PTL

-----------------------------------------------------------------------------
(* Whose doing a change of the device is.                                  *)

\* A source's samples can only have changed what its own mappings name.
MovedBy(s, new, old) ==
  /\ MatchesYokeId(s)
  /\ \A t \in AllTargets :
       Shown(new, t) # Shown(old, t) => \E f \in Feeders[t] : s \in SourcesOf[f]

\* A call changes only targets of the mappings it matches.
LEMMA ApplyShown ==
  ASSUME NEW ms, NEW a, NEW st, NEW ch, NEW t,
         Shown(Apply(ms, st, ch, a).channels, t) # Shown(ch, t)
  PROVE  \E j \in DOMAIN ms : Matches(ms[j], a) /\ ms[j].target = t
  <1> SUFFICES ASSUME \A j \in Matching(ms, a) : ms[j].target # t
               PROVE  Shown(Apply(ms, st, ch, a).channels, t) = Shown(ch, t)
    BY DEF Matching
  <1> DEFINE new == ChannelsUpTo(ms, st, ch, a, Len(ms))
  <1>1. Writing(ms, a, t, Len(ms)) = {}
    BY DEF Writing
  <1>2. t \in DOMAIN new <=> t \in DOMAIN ch
    BY DEF ChannelsUpTo
  <1>3. t \in DOMAIN ch => new[t] = ch[t]
    BY <1>1 DEF ChannelsUpTo
  <1> HIDE DEF new
  <1>4. Apply(ms, st, ch, a).channels = new
    BY DEF Apply, new
  <1> QED BY <1>2, <1>3, <1>4 DEF Shown

LEMMA CallShown ==
  ASSUME NEW s \in Sources, MatchesYokeId(s), NEW field \in FieldsOf(TypeOf(s)),
         NEW st, NEW value, NEW t \in AllTargets,
         Shown(Call(Handlers[s.reader].mappings, st, field,
                    ResolveRoleFromData(s), value).channels, t)
           # Shown(st.channels, t)
  PROVE  \E f \in Feeders[t] : s \in SourcesOf[f]
  <1> DEFINE h == s.reader
             ms == Handlers[h].mappings
             a == [field |-> field, id |-> ResolveRoleFromData(s), value |-> value]
  <1>1. Shown(Apply(ms, st.additive_state, st.channels, a).channels, t)
          # Shown(st.channels, t)
    BY CallFields
  <1>2. PICK j \in DOMAIN ms : Matches(ms[j], a) /\ ms[j].target = t
    BY <1>1, ApplyShown
  <1>3. ms[j].field = field /\ ms[j].id = ResolveRoleFromData(s)
    BY <1>2 DEF Matches
  <1>4. h \in DOMAIN Handlers
    BY SourceFields
  <1> DEFINE f == <<h, j>>
  <1>5. f \in AllMappings /\ f[1] = h /\ Mapping(f) = ms[j]
    BY <1>4 DEF AllMappings, Mapping
  <1> HIDE DEF f
  <1>6. f \in Feeders[t]
    BY <1>2, <1>5 DEF Feeders
  <1>7. s \in SourcesOf[f]
    BY <1>3, <1>5 DEF SourcesOf
  <1> QED BY <1>6, <1>7

LEMMA TraitsApplyShown ==
  ASSUME NEW s \in Sources, MatchesYokeId(s), NEW data
  PROVE  MovedBy(s, TraitsApply(s.reader, ResolveRoleFromData(s), data).channels,
                 channels)
  <1> DEFINE h == s.reader
             role == ResolveRoleFromData(s)
             ms == Handlers[h].mappings
             st == [additive_state |-> additive_state[h], channels |-> channels,
                    updated |-> FALSE]
             n == TraitsApply(h, role, data)
  <1> SUFFICES ASSUME NEW t \in AllTargets, Shown(n.channels, t) # Shown(channels, t)
               PROVE  \E f \in Feeders[t] : s \in SourcesOf[f]
    BY DEF MovedBy
  <1>1. TypeOf(s) = Handlers[h].type /\ TypeOf(s) \in TopicType
    BY SourceFields DEF TypeOf
  <1>2. st.channels = channels
    OBVIOUS
  <1>3. CASE TypeOf(s) = "Analog"
    <2>1. n = Call(ms, st, "value", role, data.value)
      BY <1>1, <1>3 DEF TraitsApply
    <2>2. "value" \in FieldsOf(TypeOf(s))
      BY <1>3 DEF FieldsOf
    <2> QED BY <1>2, <2>1, <2>2, CallShown
  <1>4. CASE TypeOf(s) = "Stick"
    <2> DEFINE x == Call(ms, st, "x", role, data.x)
    <2>1. n = Call(ms, x, "y", role, data.y)
      BY <1>1, <1>4 DEF TraitsApply, ApplyStick
    <2>2. "x" \in FieldsOf(TypeOf(s)) /\ "y" \in FieldsOf(TypeOf(s))
      BY <1>4 DEF FieldsOf
    <2>3. CASE Shown(x.channels, t) # Shown(channels, t)
      <3>1. Shown(x.channels, t) # Shown(st.channels, t)
        BY <1>2, <2>3
      <3> HIDE DEF st
      <3> QED BY <2>2, <3>1, CallShown
    <2>4. CASE Shown(n.channels, t) # Shown(x.channels, t)
      <3> HIDE DEF x
      <3> QED BY <2>1, <2>2, <2>4, CallShown
    <2> QED BY <2>3, <2>4
  <1>5. CASE TypeOf(s) = "Button"
    <2>1. n = Call(ms, st, "btnState", role, FieldValue(data, "btnState"))
      BY <1>1, <1>5 DEF TraitsApply
    <2>2. "btnState" \in FieldsOf(TypeOf(s))
      BY <1>5 DEF FieldsOf
    <2> QED BY <1>2, <2>1, <2>2, CallShown
  <1> QED BY <1>1, <1>3, <1>4, <1>5 DEF TopicType

\* Between Apply and UpdateState the channels are ahead of the device by what
\* one source, that was heard, asks for.
Ahead ==
  pc = "update" =>
    \E s \in Sources : latest[s] # Unheard /\ MovedBy(s, channels, device)

LEMMA ApplySampleAhead ==
  ASSUME TInv, NEW i \in Instances, ApplySample(i)
  PROVE  Ahead'
  <1> DEFINE x == Head(taken[i])
             s == x.source
             n == TraitsApply(handler, ResolveRoleFromData(x.source), x.data)
  <1>1. /\ pc = "sample" /\ taken[i] # <<>> /\ Accepted(x) /\ Remove(i)
        /\ UNCHANGED <<cache, latest, handler, device>>
        /\ channels' = n.channels
    BY DEF ApplySample, envVars
  <1>2. x \in SamplesOf(i)
    BY <1>1, RemoveQueues DEF TInv
  <1>3. s \in Sources /\ InstanceOf(s) = i /\ MatchesYokeId(s) /\ latest[s] # Unheard
    BY <1>1, <1>2, SampleFields DEF SamplesOf, Accepted
  <1>4. i[1] = handler
    BY <1>1 DEF TInv, Queues, InstancesOf
  <1>5. s.reader = handler
    BY <1>3, <1>4, SourceFields
  <1>6. device = channels
    BY <1>1 DEF TInv, RInv, DeviceInSync, ExitsAreClean
  <1> HIDE DEF x
  <1>7. MovedBy(s, n.channels, channels)
    BY <1>3, <1>5, TraitsApplyShown
  <1>8. MovedBy(s, channels', device')
    BY <1>1, <1>6, <1>7
  <1> HIDE DEF n
  <1> QED BY <1>1, <1>3, <1>8 DEF Ahead, MovedBy

LEMMA NextAhead ==
  ASSUME TInv, Ahead, [Next]_vars
  PROVE  Ahead'
  <1>1. CASE Environment
    <2>1. UNCHANGED <<pc, channels, device>>
      BY <1>1 DEF Environment, Move, Edge, Hold, Arrive, Dispose, RequestStop,
             dataVars
    <2>2. \A s \in Sources : latest[s] # Unheard => latest'[s] # Unheard
      <3>1. ASSUME NEW s \in Sources, NEW data \in DataOf(TypeOf(s)), Arrive(s, data)
            PROVE  \A r \in Sources : latest[r] # Unheard => latest'[r] # Unheard
        <4>1. data # Unheard
          BY SourceFields, UnheardAssumption
        <4> QED BY <3>1, <4>1 DEF Arrive, TInv, Heard
      <3>2. ASSUME NEW s \in Sources, Move(s)
            PROVE  \A r \in Sources : latest[r] # Unheard => latest'[r] # Unheard
        BY <3>1, <3>2 DEF Move
      <3>3. ASSUME NEW s \in Sources, Edge(s) \/ Hold(s)
            PROVE  \A r \in Sources : latest[r] # Unheard => latest'[r] # Unheard
        <4> DEFINE Report(state, changing) ==
                     [btnState |-> state, btnChanging |-> changing]
        <4>1. PICK state \in {"Up", "Down"}, changing \in {"true", "false"} :
                Arrive(s, Report(state, changing))
          BY <3>3 DEF Edge, Hold
        <4>2. Report(state, changing) \in DataOf(TypeOf(s))
          BY <3>3 DEF Edge, Hold, DataOf, ButtonData
        <4> QED BY <3>1, <4>1, <4>2
      <3>4. ASSUME NEW s \in Sources, Dispose(s) PROVE UNCHANGED latest
        BY <3>4 DEF Dispose
      <3>5. CASE RequestStop
        BY <3>5 DEF RequestStop, envVars
      <3> QED BY <1>1, <3>2, <3>3, <3>4, <3>5 DEF Environment
    <2> QED BY <2>1, <2>2 DEF Ahead, MovedBy
  <1>2. ASSUME NEW i \in Instances, ApplySample(i)
        PROVE  Ahead'
    BY <1>2, ApplySampleAhead
  <1>3. CASE Top \/ Take \/ TakeThrows \/ Update \/ NextHandler \/ Sleep \/ Wake
    <2>1. pc' # "update"
      BY <1>3 DEF Top, Take, TakeThrows, Update, UpdateSucceeds, UpdateFails,
             NextHandler, Sleep, Wake, Exit
    <2> QED BY <2>1 DEF Ahead
  <1>4. ASSUME NEW i \in Instances, SkipSample(i)
        PROVE  Ahead'
    <2>1. pc' = "sample"
      BY <1>4 DEF SkipSample
    <2> QED BY <2>1 DEF Ahead
  <1>5. CASE UNCHANGED vars
    BY <1>5 DEF Ahead, MovedBy, vars, envVars, dataVars
  <1> QED BY <1>1, <1>2, <1>3, <1>4, <1>5 DEF Next, Loop

LEMMA AheadInvariance == Spec => []Ahead
  <1>1. Init => Ahead
    BY DEF Init, Ahead
  <1> QED BY <1>1, TInvariance, NextAhead, PTL DEF Spec

\* Only a successful update changes what the device shows.
LEMMA DeviceStep ==
  ASSUME [Next]_vars, device' # device
  PROVE  UpdateSucceeds
  <1>1. CASE Environment
    BY <1>1 DEF Environment, Move, Edge, Hold, Arrive, Dispose, RequestStop
  <1>2. CASE Top \/ Take \/ TakeThrows \/ UpdateFails \/ NextHandler \/ Sleep \/ Wake
    BY <1>2 DEF Top, Take, TakeThrows, UpdateFails, NextHandler, Sleep, Wake
  <1>3. ASSUME NEW i \in Instances, SkipSample(i) \/ ApplySample(i)
        PROVE  device' = device
    BY <1>3 DEF SkipSample, ApplySample
  <1>4. CASE UNCHANGED vars
    BY <1>4 DEF vars
  <1> QED BY <1>1, <1>2, <1>3, <1>4 DEF Next, Loop, Update

\* Two sources never reach the device in one update, another yoke's never do,
\* and a source that was not heard moves nothing.
THEOREM EverySourceMovesItsOwn == Spec => OneSourceMoves
  <1>1. ASSUME Ahead, [Next]_vars, device' # device
        PROVE  \E s \in Sources :
                 /\ MatchesYokeId(s) /\ latest[s] # Unheard
                 /\ \A t \in AllTargets :
                      Shown(device', t) # Shown(device, t) =>
                        \E f \in Feeders[t] : s \in SourcesOf[f]
    <2>1. pc = "update" /\ device' = channels
      BY <1>1, DeviceStep DEF UpdateSucceeds
    <2> QED BY <1>1, <2>1 DEF Ahead, MovedBy
  <1> QED BY <1>1, AheadInvariance, PTL DEF Spec, OneSourceMoves

-----------------------------------------------------------------------------
(* What a call makes of the contributions.                                 *)

\* A set of naturals that is not empty has a least element.
LEMMA LeastNatural ==
  ASSUME NEW S \in SUBSET Nat, S # {}
  PROVE  \E x \in S : \A y \in S : x <= y
  <1> DEFINE less == OpToRel(<, Nat)
  <1>1. IsWellFoundedOn(less, Nat)
    BY NatLessThanWellFounded, Zenon
  <1>2. \A x, y \in Nat : y < x => <<y, x>> \in less
    BY Zenon DEF OpToRel
  <1> HIDE DEF less
  <1>3. PICK x \in S : \A y \in S : ~(<<y, x>> \in less)
    BY <1>1, WFMin
  <1>4. \A y \in S : ~(y < x)
    BY <1>2, <1>3
  <1>5. x \in Nat /\ \A y \in S : y \in Nat
    OBVIOUS
  <1> QED BY <1>4, <1>5

\* Among some mappings of a sequence, Max is the last.
LEMMA LastIndex ==
  ASSUME NEW ms \in Seq(MappingDefinition), NEW S \in SUBSET DOMAIN ms, S # {}
  PROVE  Max(S) \in S /\ \A i \in S : i <= Max(S)
  <1> DEFINE n == Len(ms)
             T == {n - i : i \in S}
  <1>1. \A i \in S : n - i \in Nat /\ i \in Int /\ n \in Int
    OBVIOUS
  <1>2. T \in SUBSET Nat /\ T # {}
    BY <1>1
  <1>3. PICK x \in T : \A y \in T : x <= y
    <2> HIDE DEF T
    <2> QED BY <1>2, LeastNatural
  <1>4. PICK c \in S : x = n - c
    OBVIOUS
  <1>5. \A i \in S : c >= i
    <2> SUFFICES ASSUME NEW i \in S PROVE c >= i
      OBVIOUS
    <2>1. n - c <= n - i
      BY <1>3, <1>4
    <2> QED BY <1>1, <2>1
  <1>6. Max(S) \in S /\ \A i \in S : Max(S) >= i
    BY <1>5, Zenon DEF Max
  <1> QED BY <1>1, <1>6

LEMMA MappingOf ==
  ASSUME NEW h \in DOMAIN Handlers, NEW k \in DOMAIN Handlers[h].mappings
  PROVE  /\ <<h, k>> \in AllMappings
         /\ Mapping(<<h, k>>) = Handlers[h].mappings[k]
         /\ Mapping(<<h, k>>) \in MappingDefinition
         /\ Mapping(<<h, k>>).target \in AllTargets
  <1>1. <<h, k>> \in AllMappings
    BY DEF AllMappings
  <1>2. Mapping(<<h, k>>) = Handlers[h].mappings[k]
    BY DEF Mapping
  <1>3. Handlers[h].mappings \in Seq(MappingDefinition)
    BY HandlerFields
  <1>4. Handlers[h].mappings[k].target \in Targets(Handlers[h].mappings)
    BY DEF Targets
  <1> QED BY <1>1, <1>2, <1>3, <1>4 DEF AllTargets

LEMMA MappingIs ==
  ASSUME NEW f \in AllMappings
  PROVE  /\ f[1] \in DOMAIN Handlers
         /\ f[2] \in DOMAIN Handlers[f[1]].mappings
         /\ f = <<f[1], f[2]>>
  BY DEF AllMappings

\* An engine remembers what each of its additive mappings contributes.
Remembers(h, state, c) ==
  \A k \in DOMAIN Handlers[h].mappings :
    Mapping(<<h, k>>).additive /\ OwnName(<<h, k>>)
      => state[Mapping(<<h, k>>).name] = c[<<h, k>>]

\* What the contributions to a mapping's target come to.
Combined(c, f) ==
  IF Mapping(f).additive
  THEN ClampFor(Mapping(f).channelType,
                Total([k \in AdditiveOn(Handlers[f[1]].mappings, Mapping(f).target) |->
                         c[<<f[1], k>>]]))
  ELSE c[f]

\* The channels are what their contributions come to; one that none of the
\* mappings in  H  writes is not there.
Combines(ch, c, H) ==
  \A t \in Followable :
    IF Feeders[t] \cap H = {}
    THEN t \notin DOMAIN ch
    ELSE t \in DOMAIN ch /\ \A f \in Feeders[t] : ch[t] = Combined(c, f)

\* The mappings that a call of an engine matches, and the contributions once
\* it is done.
Called(h, a) == {f \in AllMappings : f[1] = h /\ Matches(Mapping(f), a)}

Heeding(c, h, a) ==
  [f \in AllMappings |-> IF f \in Called(h, a) THEN MappedValue(Mapping(f), a.value)
                         ELSE c[f]]

\* What is remembered, once a call matched it or not, of a mapping.
LastStored(new, state, h, k, a) ==
  new[Mapping(<<h, k>>).name] =
    IF k \in Matching(Handlers[h].mappings, a)
    THEN MappedValue(Mapping(<<h, k>>), a.value)
    ELSE state[Mapping(<<h, k>>).name]

\* No other mapping stores under the name, so the last to store is the mapping.
LEMMA OwnNameStored ==
  ASSUME NEW h \in DOMAIN Handlers, NEW k \in DOMAIN Handlers[h].mappings,
         Mapping(<<h, k>>).additive, OwnName(<<h, k>>), NEW a, NEW state, NEW n,
         Mapping(<<h, k>>).name \in DOMAIN state,
         k \in Matching(Handlers[h].mappings, a) => k <= n
  PROVE  LastStored(RememberedUpTo(Handlers[h].mappings, state, a, n), state, h, k, a)
  <1> DEFINE ms == Handlers[h].mappings
             name == ms[k].name
             S == Storing(ms, a, name, n)
  <1>1. Mapping(<<h, k>>) = ms[k] /\ ms \in Seq(MappingDefinition)
    BY MappingOf, HandlerFields
  <1>2. ASSUME NEW j \in DOMAIN ms, ms[j].additive, ms[j].name = name
        PROVE  j = k
    <2>1. <<h, j>> \in AllMappings /\ Mapping(<<h, j>>) = ms[j] /\ <<h, j>>[1] = h
      BY MappingOf
    <2>2. <<h, k>>[1] = h
      OBVIOUS
    <2>3. <<h, j>> = <<h, k>>
      BY <1>1, <1>2, <2>1, <2>2 DEF OwnName
    <2> QED BY <2>3
  <1>3. RememberedUpTo(ms, state, a, n)[name] =
          IF S = {} THEN state[name] ELSE MappedValue(ms[Max(S)], a.value)
    BY <1>1 DEF RememberedUpTo
  <1>4. CASE k \in Matching(ms, a)
    <2>1. S = {k}
      BY <1>1, <1>2, <1>4 DEF Storing, Matching
    <2>2. Max(S) = k
      BY <1>1, <2>1, LastIndex
    <2> QED BY <1>1, <1>3, <1>4, <2>1, <2>2 DEF LastStored
  <1>5. CASE k \notin Matching(ms, a)
    <2>1. S = {}
      BY <1>1, <1>2, <1>5 DEF Storing, Matching
    <2> QED BY <1>1, <1>3, <1>5, <2>1 DEF LastStored
  <1> QED BY <1>4, <1>5

LEMMA CalledIs ==
  ASSUME NEW h \in DOMAIN Handlers, NEW k \in DOMAIN Handlers[h].mappings, NEW a
  PROVE  <<h, k>> \in Called(h, a) <=> k \in Matching(Handlers[h].mappings, a)
  <1>1. <<h, k>>[1] = h
    OBVIOUS
  <1> QED BY <1>1, MappingOf DEF Called, Matching

LEMMA ApplyRemembers ==
  ASSUME NEW h \in DOMAIN Handlers, NEW a, NEW c, NEW ch,
         NEW state \in [AdditiveNames(Handlers[h].mappings) -> Int],
         Remembers(h, state, c)
  PROVE  Remembers(h, Apply(Handlers[h].mappings, state, ch, a).additive_state,
                   Heeding(c, h, a))
  <1> DEFINE ms == Handlers[h].mappings
             n == Len(ms)
             new == RememberedUpTo(ms, state, a, n)
  <1>1. ASSUME NEW k \in DOMAIN ms, Mapping(<<h, k>>).additive, OwnName(<<h, k>>)
        PROVE  new[Mapping(<<h, k>>).name] = Heeding(c, h, a)[<<h, k>>]
    <2> DEFINE name == Mapping(<<h, k>>).name
    <2>1. Mapping(<<h, k>>) = ms[k] /\ <<h, k>> \in AllMappings /\ k <= n
      BY MappingOf, HandlerFields
    <2>2. name \in DOMAIN state
      <3>1. ms[k].name \in AdditiveNames(ms)
        BY <1>1, <2>1 DEF AdditiveNames
      <3> QED BY <2>1, <3>1
    <2>3. k \in Matching(ms, a) => k <= n
      BY <2>1
    <2> HIDE DEF n
    <2>4. LastStored(new, state, h, k, a)
      BY <1>1, <2>2, <2>3, OwnNameStored
    <2>5. state[name] = c[<<h, k>>]
      BY <1>1 DEF Remembers
    <2> HIDE DEF name, new
    <2>6. new[name] = Heeding(c, h, a)[<<h, k>>]
      BY <2>1, <2>4, <2>5, CalledIs DEF Heeding, LastStored, name
    <2> QED BY <2>6 DEF name
  <1> HIDE DEF new
  <1>2. Remembers(h, new, Heeding(c, h, a))
    BY <1>1 DEF Remembers
  <1> QED BY <1>2 DEF Apply, new

\* The mappings that feed a followable target.
LEMMA FeederFields ==
  ASSUME NEW t \in Followable, NEW f \in Feeders[t]
  PROVE  /\ f \in AllMappings /\ Mapping(f).target = t
         /\ Mapping(f).additive => OwnName(f)
         /\ \A g \in Feeders[t] :
              g # f => /\ Mapping(f).additive /\ Mapping(g).additive
                       /\ Mapping(f).channelType = Mapping(g).channelType
                       /\ f[1] = g[1]
         /\ \A r, s \in SourcesOf[f] : r = s
  BY DEF Followable, Feeders

LEMMA FeederIs ==
  ASSUME NEW t \in Followable, NEW f \in AllMappings, Mapping(f).target = t
  PROVE  f \in Feeders[t]
  BY DEF Followable, Feeders

\* A target that the call leaves alone.
LEMMA CombinedKept ==
  ASSUME NEW t \in Followable, NEW f \in Feeders[t], NEW h \in DOMAIN Handlers,
         NEW a, NEW c, Feeders[t] \cap Called(h, a) = {}
  PROVE  Combined(Heeding(c, h, a), f) = Combined(c, f)
  <1> DEFINE g == f[1]
             A == AdditiveOn(Handlers[g].mappings, Mapping(f).target)
             new == Heeding(c, h, a)
  <1>1. f \in AllMappings /\ Mapping(f).target = t /\ g \in DOMAIN Handlers
    BY FeederFields, MappingIs
  <1>2. \A e \in Feeders[t] : e \in AllMappings /\ new[e] = c[e]
    BY FeederFields DEF Heeding
  <1>3. ASSUME NEW k \in A PROVE new[<<g, k>>] = c[<<g, k>>]
    <2>1. k \in DOMAIN Handlers[g].mappings /\ Handlers[g].mappings[k].target = t
      BY <1>1 DEF AdditiveOn
    <2>2. <<g, k>> \in AllMappings /\ Mapping(<<g, k>>).target = t
      BY <1>1, <2>1, MappingOf
    <2> QED BY <1>2, <2>2, FeederIs
  <1> HIDE DEF new
  <1>4. [k \in A |-> new[<<g, k>>]] = [k \in A |-> c[<<g, k>>]]
    BY <1>3
  <1>5. new[f] = c[f]
    BY <1>2
  <1>6. Combined(new, f) = Combined(c, f)
    BY <1>4, <1>5, Zenon DEF Combined
  <1> QED BY <1>6 DEF new

\* All the feeders of a target come to the same.
LEMMA CombinedSame ==
  ASSUME NEW t \in Followable, NEW f \in Feeders[t], NEW g \in Feeders[t], NEW c
  PROVE  Combined(c, f) = Combined(c, g)
  <1>1. CASE f = g
    BY <1>1
  <1>2. CASE f # g
    <2>1. /\ Mapping(f).additive /\ Mapping(g).additive
          /\ Mapping(f).channelType = Mapping(g).channelType
          /\ f[1] = g[1] /\ Mapping(f).target = Mapping(g).target
      BY <1>2, FeederFields
    <2> QED BY <2>1 DEF Combined
  <1> QED BY <1>1, <1>2

\* The last mapping that a call matches on a target writes what the new
\* contributions come to.
LEMMA OutputCombines ==
  ASSUME NEW h \in DOMAIN Handlers, NEW a, NEW c,
         NEW state \in [AdditiveNames(Handlers[h].mappings) -> Int],
         Remembers(h, state, c),
         NEW l \in Matching(Handlers[h].mappings, a),
         <<h, l>> \in Feeders[Mapping(<<h, l>>).target],
         Mapping(<<h, l>>).target \in Followable,
         \A k \in Matching(Handlers[h].mappings, a) :
           Mapping(<<h, k>>).target = Mapping(<<h, l>>).target => k <= l
  PROVE  Output(Handlers[h].mappings,
                RememberedUpTo(Handlers[h].mappings, state, a, l),
                Mapping(<<h, l>>), a)
           = Combined(Heeding(c, h, a), <<h, l>>)
  <1> DEFINE ms == Handlers[h].mappings
             m == Mapping(<<h, l>>)
             t == m.target
             A == AdditiveOn(ms, t)
             R == RememberedUpTo(ms, state, a, l)
             new == Heeding(c, h, a)
  <1>1. l \in DOMAIN ms
    BY DEF Matching
  <1>2. new[<<h, l>>] = MappedValue(m, a.value)
    BY <1>1, CalledIs, MappingOf DEF Heeding
  <1>3. ASSUME NEW k \in A PROVE R[ms[k].name] = new[<<h, k>>]
    <2>1. k \in DOMAIN ms /\ ms[k].additive /\ ms[k].target = t
      BY DEF AdditiveOn
    <2>2. Mapping(<<h, k>>) = ms[k] /\ <<h, k>> \in AllMappings
      BY <2>1, MappingOf
    <2>3. <<h, k>> \in Feeders[t]
      BY <2>1, <2>2, FeederIs
    <2>4. Mapping(<<h, k>>).additive /\ OwnName(<<h, k>>)
      BY <2>1, <2>2, <2>3, FeederFields
    <2>5. Mapping(<<h, k>>).name \in DOMAIN state
      BY <2>1, <2>2 DEF AdditiveNames
    <2>6. k \in Matching(ms, a) => k <= l
      BY <2>1, <2>2
    <2>7. state[Mapping(<<h, k>>).name] = c[<<h, k>>]
      BY <2>1, <2>4 DEF Remembers
    <2> HIDE DEF m, t, A, R, new
    <2>8. LastStored(R, state, h, k, a)
      BY <2>1, <2>4, <2>5, <2>6, OwnNameStored DEF R
    <2>9. R[Mapping(<<h, k>>).name] = new[<<h, k>>]
      BY <2>1, <2>2, <2>7, <2>8, CalledIs DEF Heeding, LastStored, new
    <2> QED BY <2>2, <2>9
  <1>4. ms = Handlers[<<h, l>>[1]].mappings
    OBVIOUS
  <1> HIDE DEF R, new, m, ms
  <1>5. CASE m.additive
    <2>1. [k \in A |-> R[ms[k].name]] = [k \in A |-> new[<<h, k>>]]
      BY <1>3
    <2>2. Output(ms, R, m, a) =
            ClampFor(m.channelType, Total([k \in A |-> R[ms[k].name]]))
      BY <1>5 DEF Output
    <2>3. <<h, l>>[1] = h
      OBVIOUS
    <2>4. Combined(new, <<h, l>>) =
            ClampFor(m.channelType, Total([k \in A |-> new[<<h, k>>]]))
      BY <1>4, <1>5, <2>3 DEF Combined, m
    <2>5. Output(ms, R, m, a) = Combined(new, <<h, l>>)
      BY <2>1, <2>2, <2>4
    <2> QED BY <2>5 DEF ms, R, m, new
  <1>6. CASE ~m.additive
    <2>1. Output(ms, R, m, a) = Combined(new, <<h, l>>)
      BY <1>2, <1>6 DEF Output, Combined, m
    <2> QED BY <2>1 DEF ms, R, m, new
  <1> QED BY <1>5, <1>6

\* A call of an engine leaves every channel what the contributions come to.
LEMMA ApplyCombines ==
  ASSUME NEW h \in DOMAIN Handlers, NEW a, NEW c, NEW H, NEW ch,
         NEW state \in [AdditiveNames(Handlers[h].mappings) -> Int],
         Remembers(h, state, c), Combines(ch, c, H)
  PROVE  Combines(Apply(Handlers[h].mappings, state, ch, a).channels,
                  Heeding(c, h, a), H \cup Called(h, a))
  <1> DEFINE ms == Handlers[h].mappings
             n == Len(ms)
             new == ChannelsUpTo(ms, state, ch, a, n)
             d == Heeding(c, h, a)
  <1>1. ms \in Seq(MappingDefinition) /\ n \in Nat /\ DOMAIN ms = 1..n
    BY HandlerFields
  <1>2. ASSUME NEW t \in Followable, Feeders[t] \cap Called(h, a) = {}
        PROVE  IF Feeders[t] \cap (H \cup Called(h, a)) = {}
               THEN t \notin DOMAIN new
               ELSE t \in DOMAIN new /\ \A f \in Feeders[t] : new[t] = Combined(d, f)
    <2>1. \A j \in Matching(ms, a) : ms[j].target # t
      <3> SUFFICES ASSUME NEW j \in Matching(ms, a), ms[j].target = t PROVE FALSE
        OBVIOUS
      <3>1. j \in DOMAIN ms
        BY DEF Matching
      <3>2. <<h, j>> \in AllMappings /\ Mapping(<<h, j>>).target = t
        BY <3>1, MappingOf
      <3>3. <<h, j>> \in Feeders[t] /\ <<h, j>> \in Called(h, a)
        BY <3>1, <3>2, FeederIs, CalledIs
      <3> QED BY <1>2, <3>3
    <2>2. Writing(ms, a, t, n) = {}
      BY <2>1 DEF Writing
    <2>3. t \in DOMAIN new <=> t \in DOMAIN ch
      BY <2>1 DEF ChannelsUpTo
    <2>4. t \in DOMAIN ch => new[t] = ch[t]
      BY <2>2 DEF ChannelsUpTo
    <2> HIDE DEF new, d
    <2>5. Feeders[t] \cap (H \cup Called(h, a)) = Feeders[t] \cap H
      BY <1>2
    <2>6. \A f \in Feeders[t] : Combined(d, f) = Combined(c, f)
      BY <1>2, CombinedKept DEF d
    <2> QED BY <2>3, <2>4, <2>5, <2>6 DEF Combines
  <1>3. ASSUME NEW t \in Followable, NEW f \in Feeders[t], f \in Called(h, a)
        PROVE  t \in DOMAIN new /\ \A g \in Feeders[t] : new[t] = Combined(d, g)
    <2> DEFINE W == Writing(ms, a, t, n)
               l == Max(W)
    <2>1. /\ f = <<h, f[2]>> /\ f[2] \in DOMAIN ms /\ f[2] <= n
          /\ Mapping(f).target = t
      BY <1>1, <1>3, FeederFields, MappingIs DEF Called
    <2>2. f[2] \in Matching(ms, a) /\ ms[f[2]].target = t
      BY <1>3, <2>1, CalledIs, MappingOf
    <2>3. f[2] \in W /\ W \subseteq DOMAIN ms
      BY <2>1, <2>2 DEF Writing, Matching
    <2>4. l \in W /\ \A k \in W : k <= l
      <3> HIDE DEF W
      <3> QED BY <1>1, <2>3, LastIndex
    <2>5. l \in Matching(ms, a) /\ l \in DOMAIN ms /\ ms[l].target = t
      BY <2>3, <2>4 DEF Writing
    <2>6. /\ <<h, l>> \in AllMappings /\ Mapping(<<h, l>>) = ms[l]
          /\ Mapping(<<h, l>>).target = t
      BY <2>5, MappingOf
    <2>7. <<h, l>> \in Feeders[t]
      BY <2>6, FeederIs
    <2>8. ASSUME NEW k \in Matching(ms, a), Mapping(<<h, k>>).target = Mapping(<<h, l>>).target
          PROVE  k <= l
      <3>1. k \in DOMAIN ms
        BY DEF Matching
      <3>2. ms[k].target = t /\ k <= n
        BY <1>1, <2>6, <2>8, <3>1, MappingOf
      <3>3. k \in W
        BY <3>2 DEF Writing
      <3> QED BY <2>4, <3>3
    <2>9. t \in DOMAIN new
      <3>1. f[2] \in {i \in Matching(ms, a) : i <= n}
        BY <2>1, <2>2
      <3> QED BY <2>2, <3>1 DEF ChannelsUpTo
    <2>10. new[t] = Output(ms, RememberedUpTo(ms, state, a, l), ms[l], a)
      <3>1. W # {}
        BY <2>3
      <3> QED BY <2>9, <3>1 DEF ChannelsUpTo
    <2> HIDE DEF l, new
    <2>11. Output(ms, RememberedUpTo(ms, state, a, l), Mapping(<<h, l>>), a)
             = Combined(d, <<h, l>>)
      BY <2>5, <2>6, <2>7, <2>8, OutputCombines
    <2> HIDE DEF d
    <2>12. \A g \in Feeders[t] : Combined(d, g) = Combined(d, <<h, l>>)
      BY <2>7, CombinedSame
    <2> QED BY <2>6, <2>9, <2>10, <2>11, <2>12
  <1> HIDE DEF new, d
  <1>4. ASSUME NEW t \in Followable
        PROVE  IF Feeders[t] \cap (H \cup Called(h, a)) = {}
               THEN t \notin DOMAIN new
               ELSE t \in DOMAIN new /\ \A f \in Feeders[t] : new[t] = Combined(d, f)
    <2>1. CASE Feeders[t] \cap Called(h, a) = {}
      BY <1>2, <2>1
    <2>2. CASE Feeders[t] \cap Called(h, a) # {}
      BY <1>3, <2>2
    <2> QED BY <2>1, <2>2
  <1>5. Combines(new, d, H \cup Called(h, a))
    BY <1>4 DEF Combines
  <1> QED BY <1>5 DEF Apply, new, d

-----------------------------------------------------------------------------
(* What a sample makes of the contributions.                               *)

\* The mappings that listen to a source, and the contributions once it spoke.
Listening(s) == {f \in AllMappings : s \in SourcesOf[f]}

Speaking(c, s, data) ==
  [f \in AllMappings |->
     IF f \in Listening(s) THEN MappedValue(Mapping(f), FieldValue(data, Mapping(f).field))
     ELSE c[f]]

LEMMA ListeningIs ==
  ASSUME NEW s \in Sources, MatchesYokeId(s), NEW f \in AllMappings
  PROVE  f \in Listening(s) <=> /\ f[1] = s.reader
                                /\ Mapping(f).id = ResolveRoleFromData(s)
                                /\ Mapping(f).field \in FieldsOf(TypeOf(s))
  BY DEF Listening, SourcesOf

\* The call with one field of a sample.
OfField(s, data, field) ==
  [field |-> field, id |-> ResolveRoleFromData(s), value |-> FieldValue(data, field)]

LEMMA CalledByField ==
  ASSUME NEW s \in Sources, NEW data, NEW field, NEW f \in AllMappings
  PROVE  f \in Called(s.reader, OfField(s, data, field))
           <=> /\ f[1] = s.reader
               /\ Mapping(f).id = ResolveRoleFromData(s)
               /\ Mapping(f).field = field
  BY DEF Called, OfField, Matches

\* An analog input or a button is one call ...
LEMMA OneField ==
  ASSUME NEW s \in Sources, MatchesYokeId(s), NEW data, NEW c, NEW field,
         FieldsOf(TypeOf(s)) = {field}
  PROVE  /\ Called(s.reader, OfField(s, data, field)) = Listening(s)
         /\ Heeding(c, s.reader, OfField(s, data, field)) = Speaking(c, s, data)
  <1> DEFINE a == OfField(s, data, field)
             C == Called(s.reader, a)
  <1>1. C \subseteq AllMappings /\ Listening(s) \subseteq AllMappings
    BY DEF Called, Listening
  <1>2. a.value = FieldValue(data, field)
    BY DEF OfField
  <1>3. \A f \in AllMappings : f \in C <=> f \in Listening(s)
    BY CalledByField, ListeningIs
  <1>4. C = Listening(s)
    BY <1>1, <1>3
  <1>5. \A f \in C : Mapping(f).field = field
    BY <1>1, CalledByField
  <1> HIDE DEF a
  <1>6. Heeding(c, s.reader, a) = Speaking(c, s, data)
    BY <1>2, <1>4, <1>5 DEF Heeding, Speaking
  <1> QED BY <1>4, <1>6 DEF a

\* ... and a stick two.
LEMMA TwoFields ==
  ASSUME NEW s \in Sources, MatchesYokeId(s), NEW data, NEW c,
         FieldsOf(TypeOf(s)) = {"x", "y"}
  PROVE  LET ax == OfField(s, data, "x")
             ay == OfField(s, data, "y")
         IN  /\ Called(s.reader, ax) \cup Called(s.reader, ay) = Listening(s)
             /\ Heeding(Heeding(c, s.reader, ax), s.reader, ay) = Speaking(c, s, data)
  <1> DEFINE ax == OfField(s, data, "x")
             ay == OfField(s, data, "y")
             X == Called(s.reader, ax)
             Y == Called(s.reader, ay)
  <1>1. X \subseteq AllMappings /\ Y \subseteq AllMappings /\ Listening(s) \subseteq AllMappings
    BY DEF Called, Listening
  <1>2. ax.value = FieldValue(data, "x") /\ ay.value = FieldValue(data, "y")
    BY DEF OfField
  <1>3. \A f \in AllMappings : f \in Listening(s) <=> (f \in X \/ f \in Y)
    BY CalledByField, ListeningIs
  <1>4. X \cup Y = Listening(s)
    BY <1>1, <1>3
  <1>5. /\ \A f \in X : Mapping(f).field = "x"
        /\ \A f \in Y : Mapping(f).field = "y"
    BY <1>1, CalledByField
  <1> DEFINE cx == Heeding(c, s.reader, ax)
  <1> HIDE DEF ax, ay
  <1>6. ASSUME NEW f \in AllMappings
        PROVE  Heeding(cx, s.reader, ay)[f] = Speaking(c, s, data)[f]
    <2>1. cx[f] = IF f \in X THEN MappedValue(Mapping(f), ax.value) ELSE c[f]
      BY DEF Heeding
    <2>2. Heeding(cx, s.reader, ay)[f] = IF f \in Y THEN MappedValue(Mapping(f), ay.value)
                                         ELSE cx[f]
      BY DEF Heeding
    <2>3. Speaking(c, s, data)[f] =
            IF f \in Listening(s) THEN MappedValue(Mapping(f), FieldValue(data, Mapping(f).field))
            ELSE c[f]
      BY DEF Speaking
    <2> HIDE DEF cx, X, Y
    <2> QED BY <1>2, <1>3, <1>5, <2>1, <2>2, <2>3
  <1>7. Heeding(cx, s.reader, ay) = Speaking(c, s, data)
    BY <1>6 DEF Heeding, Speaking
  <1> QED BY <1>4, <1>7 DEF ax, ay

\* Engine  h , left as  n , reflects the contributions.
Reflects(h, n, c, H) ==
  /\ n.additive_state \in [AdditiveNames(Handlers[h].mappings) -> Int]
  /\ Remembers(h, n.additive_state, c)
  /\ Combines(n.channels, c, H)

LEMMA CallReflects ==
  ASSUME NEW s \in Sources, NEW data, NEW field, NEW n, NEW c, NEW H,
         Reflects(s.reader, n, c, H)
  PROVE  Reflects(s.reader,
                  Call(Handlers[s.reader].mappings, n, field, ResolveRoleFromData(s),
                       FieldValue(data, field)),
                  Heeding(c, s.reader, OfField(s, data, field)),
                  H \cup Called(s.reader, OfField(s, data, field)))
  <1> DEFINE h == s.reader
             ms == Handlers[h].mappings
             a == OfField(s, data, field)
             v == FieldValue(data, field)
             new == Call(ms, n, field, ResolveRoleFromData(s), v)
  <1>1. h \in DOMAIN Handlers
    BY SourceFields
  <1>2. /\ new.channels = Apply(ms, n.additive_state, n.channels, a).channels
        /\ new.additive_state = Apply(ms, n.additive_state, n.channels, a).additive_state
    <2> HIDE DEF ms, v
    <2> QED BY DEF Call, Apply, OfField, v
  <1>3. /\ n.additive_state \in [AdditiveNames(ms) -> Int]
        /\ Remembers(h, n.additive_state, c) /\ Combines(n.channels, c, H)
    BY DEF Reflects
  <1>4. new.additive_state \in [AdditiveNames(ms) -> Int]
    BY <1>3, CallState
  <1> HIDE DEF new, a, h
  <1>5. Remembers(h, new.additive_state, Heeding(c, h, a))
    BY <1>1, <1>2, <1>3, ApplyRemembers
  <1>6. Combines(new.channels, Heeding(c, h, a), H \cup Called(h, a))
    BY <1>1, <1>2, <1>3, ApplyCombines
  <1>7. Reflects(h, new, Heeding(c, h, a), H \cup Called(h, a))
    BY <1>4, <1>5, <1>6 DEF Reflects
  <1> QED BY <1>7 DEF new, a, h

\* A sample moves the contributions of all the mappings that listen to its
\* source, and no other.
LEMMA TraitsApplyReflects ==
  ASSUME NEW s \in Sources, MatchesYokeId(s), NEW data, NEW c, NEW H, Engines,
         Remembers(s.reader, additive_state[s.reader], c), Combines(channels, c, H)
  PROVE  Reflects(s.reader, TraitsApply(s.reader, ResolveRoleFromData(s), data),
                  Speaking(c, s, data), H \cup Listening(s))
  <1> DEFINE h == s.reader
             role == ResolveRoleFromData(s)
             ms == Handlers[h].mappings
             st == [additive_state |-> additive_state[h], channels |-> channels,
                    updated |-> FALSE]
             n == TraitsApply(h, role, data)
             d == Speaking(c, s, data)
             L == Listening(s)
  <1>1. TypeOf(s) = Handlers[h].type /\ TypeOf(s) \in TopicType /\ h \in DOMAIN Handlers
    BY SourceFields DEF TypeOf
  <1>2. Reflects(h, st, c, H)
    BY <1>1 DEF Reflects, Engines
  <1>3. ASSUME NEW field, FieldsOf(TypeOf(s)) = {field},
               n = Call(ms, st, field, role, FieldValue(data, field))
        PROVE  Reflects(h, n, d, H \cup L)
    <2> DEFINE a == OfField(s, data, field)
    <2>1. Called(h, a) = L /\ Heeding(c, h, a) = d
      BY <1>3, OneField
    <2> HIDE DEF st
    <2>2. Reflects(h, Call(ms, st, field, role, FieldValue(data, field)),
                   Heeding(c, h, a), H \cup Called(h, a))
      BY <1>2, CallReflects
    <2> HIDE DEF n, d, L, a
    <2> QED BY <1>3, <2>1, <2>2
  <1>4. CASE TypeOf(s) = "Analog"
    <2>1. n = Call(ms, st, "value", role, FieldValue(data, "value"))
      BY <1>1, <1>4 DEF TraitsApply, FieldValue
    <2>2. FieldsOf(TypeOf(s)) = {"value"}
      BY <1>4 DEF FieldsOf
    <2> HIDE DEF n, st, d, L
    <2> QED BY <1>3, <2>1, <2>2 DEF n, d, L
  <1>5. CASE TypeOf(s) = "Button"
    <2>1. n = Call(ms, st, "btnState", role, FieldValue(data, "btnState"))
      BY <1>1, <1>5 DEF TraitsApply
    <2>2. FieldsOf(TypeOf(s)) = {"btnState"}
      BY <1>5 DEF FieldsOf
    <2> HIDE DEF n, st, d, L
    <2> QED BY <1>3, <2>1, <2>2 DEF n, d, L
  <1>6. CASE TypeOf(s) = "Stick"
    <2> DEFINE x == Call(ms, st, "x", role, FieldValue(data, "x"))
               ax == OfField(s, data, "x")
               ay == OfField(s, data, "y")
               cx == Heeding(c, h, ax)
               Hx == H \cup Called(h, ax)
    <2>1. n = Call(ms, x, "y", role, FieldValue(data, "y"))
      BY <1>1, <1>6 DEF TraitsApply, ApplyStick, FieldValue
    <2>2. FieldsOf(TypeOf(s)) = {"x", "y"}
      BY <1>6 DEF FieldsOf
    <2>3. /\ Called(h, ax) \cup Called(h, ay) = L
          /\ Heeding(cx, h, ay) = d
      BY <2>2, TwoFields
    <2> HIDE DEF st
    <2>4. Reflects(h, x, cx, Hx)
      BY <1>2, CallReflects
    <2> HIDE DEF x, cx, Hx
    <2>5. Reflects(h, Call(ms, x, "y", role, FieldValue(data, "y")),
                   Heeding(cx, h, ay), Hx \cup Called(h, ay))
      BY <2>4, CallReflects
    <2>6. Hx \cup Called(h, ay) = H \cup L
      BY <2>3 DEF Hx
    <2> HIDE DEF n, d, L
    <2>7. Reflects(h, n, d, H \cup L)
      BY <2>1, <2>3, <2>5, <2>6
    <2> QED BY <2>7 DEF n, d, L
  <1> QED BY <1>1, <1>4, <1>5, <1>6 DEF TopicType

-----------------------------------------------------------------------------
(* What the queues have still to say.                                      *)

\* A sample that the loop will process, of a source of our yoke.
SampleOf(x, s) == x.source = s /\ x.valid /\ Usable(TypeOf(s), x.data)

\* Of a source that last said  old , the queue leaves  new : its last sample
\* in the queue, if there is one.
Says(q, s, old, new) ==
  \/ new = old /\ \A n \in 1..Len(q) : ~SampleOf(q[n], s)
  \/ \E n \in 1..Len(q) :
       /\ SampleOf(q[n], s) /\ q[n].data = new
       /\ \A m \in 1..Len(q) : m > n => ~SampleOf(q[m], s)

LEMMA SaysNothing ==
  ASSUME NEW s, NEW old, NEW new
  PROVE  Says(<<>>, s, old, new) <=> new = old
  BY DEF Says

\* A sample that is not processed says nothing more ...
LEMMA SaysNoMore ==
  ASSUME NEW S, NEW q \in Seq(S), NEW x \in S, NEW s, NEW old, NEW new,
         Says(q, s, old, new), ~SampleOf(x, s)
  PROVE  Says(Append(q, x), s, old, new)
  <1> DEFINE r == Append(q, x)
  <1>1. Len(r) = Len(q) + 1 /\ Len(q) \in Nat /\ r[Len(q) + 1] = x
    OBVIOUS
  <1>2. \A n \in 1..Len(q) : r[n] = q[n]
    OBVIOUS
  <1>3. \A n \in 1..Len(r) : n \in 1..Len(q) \/ n = Len(q) + 1
    BY <1>1
  <1>4. \A n \in 1..Len(q) : n \in 1..Len(r)
    BY <1>1
  <1> HIDE DEF r
  <1>5. Says(r, s, old, new)
    BY <1>1, <1>2, <1>3, <1>4 DEF Says
  <1> QED BY <1>5 DEF r

\* ... and one that is has the last word.
LEMMA SaysLast ==
  ASSUME NEW S, NEW q \in Seq(S), NEW x \in S, NEW s, NEW old, SampleOf(x, s)
  PROVE  Says(Append(q, x), s, old, x.data)
  <1> DEFINE r == Append(q, x)
  <1>1. Len(r) = Len(q) + 1 /\ Len(q) \in Nat /\ r[Len(q) + 1] = x
    OBVIOUS
  <1> HIDE DEF r
  <1>2. Len(r) \in 1..Len(r) /\ r[Len(r)] = x /\ \A m \in 1..Len(r) : ~(m > Len(r))
    BY <1>1
  <1>3. Says(r, s, old, x.data)
    BY <1>2 DEF Says
  <1> QED BY <1>3 DEF r

\* Processing the head of a queue.
LEMMA SaysNext ==
  ASSUME NEW S, NEW q \in Seq(S), q # <<>>, NEW s, NEW old, NEW new,
         Says(q, s, old, new)
  PROVE  Says(Tail(q), s, IF SampleOf(Head(q), s) THEN Head(q).data ELSE old, new)
  <1> DEFINE r == Tail(q)
             x == Head(q)
             mid == IF SampleOf(x, s) THEN x.data ELSE old
  <1>1. Len(q) = Len(r) + 1 /\ Len(r) \in Nat /\ x = q[1]
    OBVIOUS
  <1>2. \A n \in 1..Len(r) : r[n] = q[n + 1] /\ n + 1 \in 1..Len(q)
    OBVIOUS
  <1>3. \A n \in 1..Len(q) : n = 1 \/ (n - 1 \in 1..Len(r) /\ r[n - 1] = q[n])
    <2> SUFFICES ASSUME NEW n \in 1..Len(q), n # 1
                 PROVE  n - 1 \in 1..Len(r) /\ r[n - 1] = q[n]
      OBVIOUS
    <2>1. n - 1 \in 1..Len(r) /\ (n - 1) + 1 = n
      BY <1>1
    <2> QED BY <1>2, <2>1
  <1>4. 1 \in 1..Len(q)
    BY <1>1
  <1> HIDE DEF r, x
  <1>5. CASE new = old /\ \A n \in 1..Len(q) : ~SampleOf(q[n], s)
    <2>1. ~SampleOf(x, s) /\ \A n \in 1..Len(r) : ~SampleOf(r[n], s)
      BY <1>1, <1>2, <1>4, <1>5
    <2> QED BY <1>5, <2>1 DEF Says, r, x
  <1>6. ASSUME NEW n \in 1..Len(q), SampleOf(q[n], s), q[n].data = new,
               \A m \in 1..Len(q) : m > n => ~SampleOf(q[m], s)
        PROVE  Says(r, s, mid, new)
    <2>1. CASE n = 1
      <3>1. mid = new
        BY <1>1, <1>6, <2>1
      <3>2. \A m \in 1..Len(r) : ~SampleOf(r[m], s)
        <4>1. \A m \in 1..Len(r) : m + 1 > n
          BY <2>1
        <4> QED BY <1>2, <1>6, <4>1
      <3> QED BY <3>1, <3>2 DEF Says
    <2>2. CASE n # 1
      <3>1. n - 1 \in 1..Len(r) /\ r[n - 1] = q[n]
        BY <1>3, <2>2
      <3>2. \A m \in 1..Len(r) : m > n - 1 => m + 1 > n
        BY <1>1
      <3>3. \A m \in 1..Len(r) : m > n - 1 => ~SampleOf(r[m], s)
        BY <1>2, <1>6, <3>2
      <3> QED BY <1>6, <3>1, <3>3 DEF Says
    <2> QED BY <2>1, <2>2
  <1>7. Says(r, s, mid, new)
    BY <1>5, <1>6 DEF Says, r, x
  <1> QED BY <1>7 DEF r, x

\* A full cache has lost its oldest sample.
LEMMA SaysStored ==
  ASSUME NEW S, NEW q \in Seq(S), NEW x \in S, NEW s, NEW old, NEW new,
         Says(q, s, old, new), ~SampleOf(x, s),
         Len(q) = Depth => ~SampleOf(Head(q), s)
  PROVE  Says(Stored(q, x), s, old, new)
  <1>1. CASE Len(q) = Depth
    <2>1. q # <<>>
      BY <1>1, BoundsAssumption
    <2>2. Says(Tail(q), s, old, new)
      BY <1>1, <2>1, SaysNext
    <2>3. Tail(q) \in Seq(S)
      BY <2>1
    <2> QED BY <1>1, <2>2, <2>3, SaysNoMore DEF Stored
  <1>2. CASE Len(q) # Depth
    BY <1>2, SaysNoMore DEF Stored
  <1> QED BY <1>1, <1>2

LEMMA SaysLastStored ==
  ASSUME NEW S, NEW q \in Seq(S), NEW x \in S, NEW s, NEW old, SampleOf(x, s)
  PROVE  Says(Stored(q, x), s, old, x.data)
  <1>1. CASE Len(q) = Depth
    <2>1. q # <<>>
      BY <1>1, BoundsAssumption
    <2>2. Tail(q) \in Seq(S)
      BY <2>1
    <2> QED BY <1>1, <2>2, SaysLast DEF Stored
  <1>2. CASE Len(q) # Depth
    BY <1>2, SaysLast DEF Stored
  <1> QED BY <1>1, <1>2

-----------------------------------------------------------------------------
(* The invariant.                                                          *)

Kept(c) == \A h \in DOMAIN Handlers : Remembers(h, additive_state[h], c)

\* A mapping with one source contributes what was last heard of it, and one
\* without a source, or whose source was not heard, nothing.
Linked(c, H, heard) ==
  \A f \in AllMappings :
    (\A r, s \in SourcesOf[f] : r = s) =>
      /\ SourcesOf[f] = {} => f \notin H /\ c[f] = 0
      /\ \A s \in SourcesOf[f] :
           IF heard[s] = Unheard
           THEN f \notin H /\ c[f] = 0
           ELSE /\ f \in H
                /\ c[f] = MappedValue(Mapping(f), FieldValue(heard[s], Mapping(f).field))

\* What was last heard of a reliable source, then what is taken of it, then
\* what is in its cache, leads to its last word.
Words(heard) ==
  \A s \in Sources :
    MatchesYokeId(s) /\ Reliable(s) =>
      \E said : /\ Says(taken[InstanceOf(s)], s, heard[s], said)
                /\ Says(cache[InstanceOf(s)], s, said, latest[s])

Ledger(c, H, heard) ==
  Kept(c) /\ Combines(channels, c, H) /\ Linked(c, H, heard) /\ Words(heard)

\* The last word of a button is where it is.
Buttons ==
  \A s \in Sources :
    TypeOf(s) = "Button" /\ latest[s] # Unheard =>
      (latest[s].btnState = "Down" <=> pressed[s])

FInv ==
  /\ Buttons
  /\ exitCode # "failure" => \E c, H, heard : Ledger(c, H, heard)

LEMMA InitFInv == Init => FInv
  <1> SUFFICES ASSUME Init PROVE FInv
    OBVIOUS
  <1> DEFINE c == [f \in AllMappings |-> 0]
             heard == [s \in Sources |-> Unheard]
  <1>1. Buttons
    BY DEF Init, Buttons
  <1>2. Kept(c)
    <2> SUFFICES ASSUME NEW h \in DOMAIN Handlers, NEW k \in DOMAIN Handlers[h].mappings,
                        Mapping(<<h, k>>).additive
                 PROVE  additive_state[h][Mapping(<<h, k>>).name] = c[<<h, k>>]
      BY DEF Kept, Remembers
    <2>1. Mapping(<<h, k>>) = Handlers[h].mappings[k] /\ <<h, k>> \in AllMappings
      BY MappingOf
    <2>2. Mapping(<<h, k>>).name \in AdditiveNames(Handlers[h].mappings)
      BY <2>1 DEF AdditiveNames
    <2>3. additive_state[h] = SeededState(Handlers[h].mappings)
      BY DEF Init
    <2> QED BY <2>1, <2>2, <2>3 DEF SeededState
  <1>3. Combines(channels, c, {})
    BY DEF Init, Combines
  <1>4. Linked(c, {}, heard)
    BY DEF Linked, SourcesOf
  <1>5. Words(heard)
    <2> SUFFICES ASSUME NEW s \in Sources
                 PROVE  /\ Says(taken[InstanceOf(s)], s, heard[s], Unheard)
                        /\ Says(cache[InstanceOf(s)], s, Unheard, latest[s])
      BY DEF Words
    <2>1. InstanceOf(s) \in Instances
      BY SourceFields
    <2>2. taken[InstanceOf(s)] = <<>> /\ cache[InstanceOf(s)] = <<>>
          /\ latest[s] = Unheard /\ heard[s] = Unheard
      BY <2>1 DEF Init
    <2> QED BY <2>2, SaysNothing
  <1> HIDE DEF c, heard
  <1> QED BY <1>1, <1>2, <1>3, <1>4, <1>5 DEF FInv, Ledger

\* A sample arrives.
LEMMA ArriveWords ==
  ASSUME TInv, NEW heard, Words(heard), NEW s \in Sources,
         NEW data \in DataOf(TypeOf(s)), Arrive(s, data)
  PROVE  Words(heard)'
  <1> DEFINE i == InstanceOf(s)
             x == [source |-> s, valid |-> TRUE, data |-> data]
             q == cache[i]
  <1>1. /\ cache' = [cache EXCEPT ![i] = Stored(q, x)]
        /\ overrun' = IF Len(q) = Depth THEN overrun \cup {Head(q).source} ELSE overrun
        /\ latest' = IF Usable(TypeOf(s), data)
                     THEN [latest EXCEPT ![s] = data] ELSE latest
        /\ UNCHANGED taken
    BY DEF Arrive
  <1>2. i \in Instances /\ TypeOf(s) \in TopicType
    BY SourceFields
  <1>3. /\ x \in Sample /\ x.source = s /\ x.valid /\ x.data = data
    BY NewSample
  <1>4. q \in Seq(Sample) /\ Len(q) <= Depth /\ q \in Seq(SamplesOf(i))
    <2>1. SamplesOf(i) \subseteq Sample
      BY DEF SamplesOf
    <2> QED BY <1>2, <2>1, SeqGrows DEF TInv, Queues
  <1>5. DOMAIN cache = Instances /\ DOMAIN latest = Sources
    BY DEF TInv, Queues, Heard
  <1> SUFFICES ASSUME NEW r \in Sources, MatchesYokeId(r), Reliable(r)'
               PROVE  \E said : /\ Says(taken'[InstanceOf(r)], r, heard[r], said)
                                /\ Says(cache'[InstanceOf(r)], r, said, latest'[r])
    BY DEF Words
  <1>6. Reliable(r)
    BY <1>1 DEF Reliable
  <1>7. PICK said : /\ Says(taken[InstanceOf(r)], r, heard[r], said)
                    /\ Says(cache[InstanceOf(r)], r, said, latest[r])
    BY <1>6 DEF Words
  <1> HIDE DEF x, q
  <1>8. CASE InstanceOf(r) # i
    <2>1. r # s /\ InstanceOf(r) \in Instances
      BY <1>8, SourceFields
    <2>2. cache'[InstanceOf(r)] = cache[InstanceOf(r)] /\ latest'[r] = latest[r]
      BY <1>1, <1>5, <1>8, <2>1
    <2> QED BY <1>1, <1>7, <2>2
  <1>9. CASE InstanceOf(r) = i /\ SampleOf(x, r)
    <2>1. r = s /\ Usable(TypeOf(s), data)
      BY <1>3, <1>9 DEF SampleOf
    <2>2. latest'[r] = data /\ cache'[i] = Stored(q, x)
      BY <1>1, <1>2, <1>5, <2>1
    <2>3. Says(Stored(q, x), r, said, x.data)
      BY <1>3, <1>4, <1>9, SaysLastStored
    <2> QED BY <1>1, <1>3, <1>7, <1>9, <2>2, <2>3
  <1>10. CASE InstanceOf(r) = i /\ ~SampleOf(x, r)
    <2>1. ~(r = s /\ Usable(TypeOf(s), data))
      BY <1>3, <1>10 DEF SampleOf
    <2>2. latest'[r] = latest[r] /\ cache'[i] = Stored(q, x)
      BY <1>1, <1>2, <1>5, <2>1
    <2>3. ASSUME Len(q) = Depth PROVE ~SampleOf(Head(q), r)
      <3> SUFFICES ASSUME SampleOf(Head(q), r) PROVE FALSE
        OBVIOUS
      <3>1. r \in overrun'
        BY <1>1, <2>3 DEF SampleOf
      <3>2. TypeOf(r) # "Button" /\ s = r
        BY <1>10, <3>1 DEF Reliable
      <3>3. Usable(TypeOf(s), data)
        BY <3>2 DEF Usable
      <3> QED BY <2>1, <3>2, <3>3
    <2>4. Says(q, r, said, latest[r])
      BY <1>7, <1>10 DEF q
    <2>5. Says(Stored(q, x), r, said, latest[r])
      BY <1>3, <1>4, <1>10, <2>3, <2>4, SaysStored
    <2> QED BY <1>1, <1>7, <1>10, <2>2, <2>5
  <1> QED BY <1>8, <1>9, <1>10

\* The steps that keep the queues keep what they say.
LEMMA LedgerKept ==
  ASSUME NEW c, NEW H, NEW heard, Ledger(c, H, heard),
         UNCHANGED <<cache, taken, latest, overrun, additive_state, channels>>
  PROVE  Ledger(c, H, heard)'
  BY DEF Ledger, Kept, Remembers, Combines, Combined, Linked, Words, Reliable

LEMMA ArriveFInv ==
  ASSUME TInv, FInv, NEW s \in Sources, NEW data \in DataOf(TypeOf(s)),
         Arrive(s, data), Buttons'
  PROVE  FInv'
  <1>1. UNCHANGED <<exitCode, additive_state, channels>>
    BY DEF Arrive, dataVars, exitVars
  <1>2. ASSUME NEW c, NEW H, NEW heard, Ledger(c, H, heard)
        PROVE  Ledger(c, H, heard)'
    <2>1. Words(heard)'
      BY <1>2, ArriveWords DEF Ledger
    <2>2. Kept(c)' /\ Combines(channels, c, H)' /\ Linked(c, H, heard)'
      BY <1>1, <1>2 DEF Ledger, Kept, Remembers, Combines, Linked
    <2> QED BY <2>1, <2>2 DEF Ledger
  <1> QED BY <1>1, <1>2 DEF FInv

LEMMA EnvironmentFInv ==
  ASSUME TInv, FInv, Environment
  PROVE  FInv'
  <1>1. ASSUME NEW s \in Sources, Move(s) PROVE FInv'
    <2>1. PICK data \in DataOf(TypeOf(s)) : Arrive(s, data)
      BY <1>1 DEF Move
    <2>2. TypeOf(s) # "Button" /\ pressed' = pressed
      BY <1>1 DEF Move
    <2>3. \A r \in Sources : r # s => latest'[r] = latest[r]
      BY <2>1 DEF Arrive, TInv, Heard
    <2>4. Buttons'
      BY <2>2, <2>3 DEF FInv, Buttons
    <2> QED BY <2>1, <2>4, ArriveFInv
  <1>2. ASSUME NEW s \in Sources, Edge(s) PROVE FInv'
    <2> DEFINE state == IF pressed[s] THEN "Up" ELSE "Down"
               data == [btnState |-> state, btnChanging |-> "true"]
    <2>1. TypeOf(s) = "Button" /\ pressed' = [pressed EXCEPT ![s] = ~pressed[s]]
          /\ Arrive(s, data)
      BY <1>2 DEF Edge
    <2>2. data \in DataOf(TypeOf(s))
      BY <2>1 DEF DataOf, ButtonData
    <2>3. data.btnState = state /\ Usable(TypeOf(s), data)
      BY DEF Usable
    <2> HIDE DEF data
    <2>4. latest' = [latest EXCEPT ![s] = data]
      BY <2>1, <2>3 DEF Arrive
    <2>5. pressed'[s] = ~pressed[s] /\ \A r \in Sources : r # s => pressed'[r] = pressed[r]
      BY <2>1 DEF TInv, Scalars
    <2>6. latest'[s] = data /\ \A r \in Sources : r # s => latest'[r] = latest[r]
      BY <2>4 DEF TInv, Heard
    <2>7. data.btnState = "Down" <=> pressed'[s]
      BY <2>3, <2>5
    <2>8. Buttons'
      BY <2>5, <2>6, <2>7 DEF FInv, Buttons
    <2> QED BY <2>1, <2>2, <2>8, ArriveFInv
  <1>3. ASSUME NEW s \in Sources, Hold(s) PROVE FInv'
    <2> DEFINE state == IF pressed[s] THEN "Down" ELSE "Up"
               data == [btnState |-> state, btnChanging |-> "false"]
    <2>1. TypeOf(s) = "Button" /\ pressed' = pressed /\ Arrive(s, data)
      BY <1>3 DEF Hold
    <2>2. data \in DataOf(TypeOf(s))
      BY <2>1 DEF DataOf, ButtonData
    <2>3. ~Usable(TypeOf(s), data)
      BY <2>1 DEF Usable
    <2> HIDE DEF data
    <2>4. latest' = latest
      BY <2>1, <2>3 DEF Arrive
    <2>5. Buttons'
      BY <2>1, <2>4 DEF FInv, Buttons
    <2> QED BY <2>1, <2>2, <2>5, ArriveFInv
  <1>4. ASSUME NEW s \in Sources, Dispose(s) PROVE FInv'
    <2>1. UNCHANGED <<cache, taken, latest, overrun, additive_state, channels, pressed,
                      exitCode>>
      BY <1>4 DEF Dispose, dataVars, exitVars
    <2> QED BY <2>1, LedgerKept DEF FInv, Buttons
  <1>5. CASE RequestStop
    <2>1. UNCHANGED <<cache, taken, latest, overrun, additive_state, channels, pressed,
                      exitCode>>
      BY <1>5 DEF RequestStop, envVars, dataVars, exitVars
    <2> QED BY <2>1, LedgerKept DEF FInv, Buttons
  <1> QED BY <1>1, <1>2, <1>3, <1>4, <1>5 DEF Environment

\* What is said in a cache is said by what was taken from it.
LEMMA TakeFInv ==
  ASSUME TInv, FInv, Take
  PROVE  FInv'
  <1>1. UNCHANGED <<additive_state, channels, latest, pressed, overrun, exitCode, handler>>
    BY DEF Take, envVars, dataVars, exitVars
  <1>2. ASSUME NEW heard, Words(heard) PROVE Words(heard)'
    <2> SUFFICES ASSUME NEW s \in Sources, MatchesYokeId(s), Reliable(s)
                 PROVE  \E said : /\ Says(taken'[InstanceOf(s)], s, heard[s], said)
                                  /\ Says(cache'[InstanceOf(s)], s, said, latest[s])
      BY <1>1 DEF Words, Reliable
    <2> DEFINE i == InstanceOf(s)
    <2>1. i \in Instances
      BY SourceFields
    <2>2. taken[i] = <<>>
      BY <2>1 DEF TInv, RInv, Position, NothingTaken, Take
    <2>3. Says(cache[i], s, heard[s], latest[s])
      <3>1. PICK said : Says(taken[i], s, heard[s], said) /\ Says(cache[i], s, said, latest[s])
        BY <1>2 DEF Words
      <3> QED BY <2>2, <3>1, SaysNothing
    <2>4. cache[i] \in Seq(SamplesOf(i))
      BY <2>1 DEF TInv, Queues
    <2> HIDE DEF i
    <2>5. CASE i \in InstancesOf(handler)
      <3>1. cache'[i] = <<>>
        BY <2>1, <2>5 DEF Take
      <3>2. CASE i \in gone
        <4>1. taken'[i] = cache[i] \o <<EndOf(i)>>
          BY <2>1, <2>5, <3>2 DEF Take
        <4>2. EndOf(i) \in SamplesOf(i)
          BY <3>2, EndOfType DEF TInv
        <4>3. ~SampleOf(EndOf(i), s)
          BY DEF EndOf, SampleOf
        <4>4. taken'[i] = Append(cache[i], EndOf(i))
          BY <2>4, <4>1, <4>2
        <4>5. Says(taken'[i], s, heard[s], latest[s])
          BY <2>3, <2>4, <4>2, <4>3, <4>4, SaysNoMore
        <4> QED BY <3>1, <4>5, SaysNothing DEF i
      <3>3. CASE i \notin gone
        <4>1. taken'[i] = cache[i] \o <<>>
          BY <2>1, <2>5, <3>3 DEF Take
        <4>2. taken'[i] = cache[i]
          BY <2>4, <4>1
        <4> QED BY <2>3, <3>1, <4>2, SaysNothing DEF i
      <3> QED BY <3>2, <3>3
    <2>6. CASE i \notin InstancesOf(handler)
      <3>1. taken'[i] = <<>> /\ cache'[i] = cache[i]
        BY <2>1, <2>6 DEF Take
      <3> QED BY <2>3, <3>1, SaysNothing DEF i
    <2> QED BY <2>5, <2>6
  <1>3. ASSUME NEW c, NEW H, NEW heard, Ledger(c, H, heard)
        PROVE  Ledger(c, H, heard)'
    BY <1>1, <1>2, <1>3 DEF Ledger, Kept, Remembers, Combines, Linked
  <1> QED BY <1>1, <1>3 DEF FInv, Buttons

\* The head of a queue is processed, or passed over.
LEMMA RemoveWords ==
  ASSUME TInv, NEW heard, Words(heard), NEW i \in Instances, taken[i] # <<>>, Remove(i),
         UNCHANGED <<cache, latest, overrun>>, NEW now,
         \A s \in Sources : MatchesYokeId(s) =>
           now[s] = IF SampleOf(Head(taken[i]), s) THEN Head(taken[i]).data ELSE heard[s]
  PROVE  Words(now)'
  <1> SUFFICES ASSUME NEW s \in Sources, MatchesYokeId(s), Reliable(s)
               PROVE  \E said : /\ Says(taken'[InstanceOf(s)], s, now[s], said)
                                /\ Says(cache[InstanceOf(s)], s, said, latest[s])
    BY DEF Words, Reliable
  <1>1. PICK said : /\ Says(taken[InstanceOf(s)], s, heard[s], said)
                    /\ Says(cache[InstanceOf(s)], s, said, latest[s])
    BY DEF Words
  <1>2. taken[i] \in Seq(SamplesOf(i)) /\ DOMAIN taken = Instances
    BY DEF TInv, Queues
  <1>3. taken' = [taken EXCEPT ![i] = Tail(taken[i])]
    BY DEF Remove
  <1>4. InstanceOf(s) \in Instances
    BY SourceFields
  <1>5. CASE InstanceOf(s) = i
    <2>1. taken'[i] = Tail(taken[i])
      BY <1>2, <1>3
    <2>2. Says(Tail(taken[i]), s,
               IF SampleOf(Head(taken[i]), s) THEN Head(taken[i]).data ELSE heard[s], said)
      BY <1>1, <1>2, <1>5, SaysNext
    <2>3. Says(taken'[i], s, now[s], said)
      BY <2>1, <2>2
    <2> QED BY <1>1, <1>5, <2>3
  <1>6. CASE InstanceOf(s) # i
    <2>1. taken'[InstanceOf(s)] = taken[InstanceOf(s)]
      BY <1>2, <1>3, <1>4, <1>6
    <2>2. ~SampleOf(Head(taken[i]), s)
      <3>1. Head(taken[i]) \in SamplesOf(i)
        BY <1>2
      <3> QED BY <1>6, <3>1 DEF SampleOf, SamplesOf
    <2> QED BY <1>1, <2>1, <2>2
  <1> QED BY <1>5, <1>6

LEMMA SkipSampleFInv ==
  ASSUME TInv, FInv, NEW i \in Instances, SkipSample(i)
  PROVE  FInv'
  <1>1. /\ taken[i] # <<>> /\ ~Accepted(Head(taken[i])) /\ Remove(i)
        /\ UNCHANGED <<cache, additive_state, channels, latest, pressed, overrun, exitCode>>
    BY DEF SkipSample, envVars, dataVars, exitVars
  <1>2. \A s \in Sources : MatchesYokeId(s) => ~SampleOf(Head(taken[i]), s)
    BY <1>1 DEF Accepted, SampleOf
  <1>3. ASSUME NEW heard, Words(heard) PROVE Words(heard)'
    BY <1>1, <1>2, <1>3, RemoveWords
  <1>4. ASSUME NEW c, NEW H, NEW heard, Ledger(c, H, heard)
        PROVE  Ledger(c, H, heard)'
    BY <1>1, <1>3, <1>4 DEF Ledger, Kept, Remembers, Combines, Linked
  <1> QED BY <1>1, <1>4 DEF FInv, Buttons

LEMMA SpeakingLinked ==
  ASSUME NEW c, NEW H, NEW heard, Linked(c, H, heard), NEW s \in Sources,
         NEW data, data # Unheard
  PROVE  Linked(Speaking(c, s, data), H \cup Listening(s),
                [r \in Sources |-> IF r = s THEN data ELSE heard[r]])
  <1> DEFINE new == Speaking(c, s, data)
             now == [r \in Sources |-> IF r = s THEN data ELSE heard[r]]
             L == Listening(s)
  <1> SUFFICES ASSUME NEW f \in AllMappings, \A r, q \in SourcesOf[f] : r = q
               PROVE  /\ SourcesOf[f] = {} => f \notin H \cup L /\ new[f] = 0
                      /\ \A q \in SourcesOf[f] :
                           IF now[q] = Unheard
                           THEN f \notin H \cup L /\ new[f] = 0
                           ELSE /\ f \in H \cup L
                                /\ new[f] = MappedValue(Mapping(f),
                                                        FieldValue(now[q], Mapping(f).field))
    BY DEF Linked
  <1>1. f \in L <=> s \in SourcesOf[f]
    BY DEF Listening
  <1>2. new[f] = IF f \in L THEN MappedValue(Mapping(f), FieldValue(data, Mapping(f).field))
                 ELSE c[f]
    BY DEF Speaking
  <1>3. /\ SourcesOf[f] \subseteq Sources
        /\ \A q \in SourcesOf[f] : now[q] = IF q = s THEN data ELSE heard[q]
    BY DEF SourcesOf
  <1>4. /\ SourcesOf[f] = {} => f \notin H /\ c[f] = 0
        /\ \A q \in SourcesOf[f] :
             IF heard[q] = Unheard
             THEN f \notin H /\ c[f] = 0
             ELSE /\ f \in H
                  /\ c[f] = MappedValue(Mapping(f), FieldValue(heard[q], Mapping(f).field))
    BY DEF Linked
  <1> HIDE DEF new, now, L
  <1>5. CASE f \in L
    <2>1. \A q \in SourcesOf[f] : q = s /\ now[q] = data
      BY <1>1, <1>3, <1>5
    <2> QED BY <1>1, <1>2, <1>5, <2>1
  <1>6. CASE f \notin L
    <2>1. \A q \in SourcesOf[f] : now[q] = heard[q]
      BY <1>1, <1>3, <1>6
    <2> QED BY <1>2, <1>4, <1>6, <2>1
  <1> QED BY <1>5, <1>6

\* The step that the property rests on.
LEMMA ApplySampleFInv ==
  ASSUME TInv, FInv, NEW i \in Instances, ApplySample(i)
  PROVE  FInv'
  <1> PICK x : x = Head(taken[i])
    OBVIOUS
  <1> DEFINE s == x.source
             n == TraitsApply(handler, ResolveRoleFromData(s), x.data)
  <1>1. /\ pc = "sample" /\ taken[i] # <<>> /\ Accepted(x) /\ Remove(i)
        /\ UNCHANGED <<cache, latest, pressed, overrun, handler, exitCode>>
        /\ additive_state' = [additive_state EXCEPT ![handler] = n.additive_state]
        /\ channels' = n.channels
    BY DEF ApplySample, envVars, exitVars
  <1>2. x \in SamplesOf(i)
    BY <1>1, RemoveQueues DEF TInv
  <1>3. /\ s \in Sources /\ InstanceOf(s) = i /\ MatchesYokeId(s)
        /\ x.valid /\ Usable(TypeOf(s), x.data) /\ x.data # Unheard
    <2>1. s \in Sources /\ x.data \in DataOf(TypeOf(s)) /\ InstanceOf(s) = i
      BY <1>2, SampleFields DEF SamplesOf
    <2>2. x.data # Unheard
      BY <2>1, SourceFields, UnheardAssumption
    <2> QED BY <1>1, <2>1, <2>2 DEF Accepted
  <1>4. i[1] = handler
    BY <1>1 DEF TInv, Queues, InstancesOf
  <1>5. s.reader = handler /\ handler \in DOMAIN Handlers
    BY <1>3, <1>4, SourceFields
  <1>6. exitCode # "failure"
    BY <1>1 DEF TInv, RInv, Position
  <1>7. PICK c, H, heard : Ledger(c, H, heard)
    BY <1>6 DEF FInv
  <1> DEFINE d == Speaking(c, s, x.data)
             G == H \cup Listening(s)
             now == [r \in Sources |-> IF r = s THEN x.data ELSE heard[r]]
  <1>8. Reflects(s.reader, TraitsApply(s.reader, ResolveRoleFromData(s), x.data), d, G)
    <2>1. Remembers(s.reader, additive_state[s.reader], c) /\ Combines(channels, c, H)
      BY <1>5, <1>7 DEF Ledger, Kept
    <2>2. Engines
      BY DEF TInv
    <2> HIDE DEF s
    <2> QED BY <1>3, <2>1, <2>2, TraitsApplyReflects
  <1>9. Linked(d, G, now)
    <2>1. Linked(c, H, heard)
      BY <1>7 DEF Ledger
    <2> HIDE DEF s
    <2> QED BY <1>3, <2>1, SpeakingLinked
  <1>10. Words(now)'
    <2>1. Words(heard)
      BY <1>7 DEF Ledger
    <2>2. \A r \in Sources : SampleOf(x, r) <=> r = s
      BY <1>3 DEF SampleOf
    <2>3. \A r \in Sources : now[r] = IF SampleOf(x, r) THEN x.data ELSE heard[r]
      BY <2>2
    <2> HIDE DEF now
    <2> QED BY <1>1, <2>1, <2>3, RemoveWords
  <1>11. Kept(d)'
    <2> SUFFICES ASSUME NEW h \in DOMAIN Handlers
                 PROVE  Remembers(h, additive_state'[h], d)
      BY DEF Kept
    <2>1. CASE h = handler
      <3>1. additive_state'[h] = n.additive_state
        BY <1>1, <1>5, <2>1 DEF TInv, Engines
      <3> QED BY <1>5, <1>8, <2>1, <3>1 DEF Reflects
    <2>2. CASE h # handler
      <3>1. additive_state'[h] = additive_state[h]
        BY <1>1, <2>2
      <3>2. Remembers(h, additive_state[h], c)
        BY <1>7 DEF Ledger, Kept
      <3>3. ASSUME NEW k \in DOMAIN Handlers[h].mappings
            PROVE  d[<<h, k>>] = c[<<h, k>>]
        <4>1. <<h, k>> \in AllMappings /\ <<h, k>>[1] = h
          BY MappingOf
        <4>2. <<h, k>> \notin Listening(s)
          BY <1>3, <1>5, <2>2, <4>1, ListeningIs
        <4> QED BY <4>1, <4>2 DEF Speaking
      <3> HIDE DEF d
      <3> QED BY <3>1, <3>2, <3>3 DEF Remembers
    <2> QED BY <2>1, <2>2
  <1>12. Combines(channels, d, G)'
    <2>1. Combines(n.channels, d, G)
      BY <1>5, <1>8 DEF Reflects
    <2> HIDE DEF n, d, G
    <2> QED BY <1>1, <2>1 DEF Combines
  <1>13. Ledger(d, G, now)'
    <2> HIDE DEF d, G, now
    <2> QED BY <1>9, <1>10, <1>11, <1>12 DEF Ledger, Linked
  <1>14. Buttons'
    BY <1>1 DEF FInv, Buttons
  <1> HIDE DEF d, G, now
  <1> QED BY <1>13, <1>14 DEF FInv

LEMMA NextFInv ==
  ASSUME TInv, FInv, [Next]_vars
  PROVE  FInv'
  <1>1. CASE Environment
    BY <1>1, EnvironmentFInv
  <1>2. CASE Take
    BY <1>2, TakeFInv
  <1>3. ASSUME NEW i \in Instances, SkipSample(i) PROVE FInv'
    BY <1>3, SkipSampleFInv
  <1>4. ASSUME NEW i \in Instances, ApplySample(i) PROVE FInv'
    BY <1>4, ApplySampleFInv
  <1>5. CASE Top \/ UpdateSucceeds \/ NextHandler \/ Sleep \/ Wake
    <2>1. UNCHANGED <<cache, taken, latest, overrun, additive_state, channels, pressed>>
      BY <1>5 DEF Top, UpdateSucceeds, NextHandler, Sleep, Wake, envVars, dataVars
    <2>2. exitCode # "failure"
      BY <1>5 DEF Top, UpdateSucceeds, NextHandler, Sleep, Wake, TInv, RInv, Position
    <2> QED BY <2>1, <2>2, LedgerKept DEF FInv, Buttons
  <1>6. CASE TakeThrows \/ UpdateFails
    <2>1. exitCode' = "failure" /\ UNCHANGED <<latest, pressed>>
      BY <1>6 DEF TakeThrows, UpdateFails, Exit, envVars
    <2> QED BY <2>1 DEF FInv, Buttons
  <1>7. CASE UNCHANGED vars
    <2>1. UNCHANGED <<cache, taken, latest, overrun, additive_state, channels, pressed,
                      exitCode>>
      BY <1>7 DEF vars, envVars, dataVars, exitVars
    <2> QED BY <2>1, LedgerKept DEF FInv, Buttons
  <1> QED BY <1>1, <1>2, <1>3, <1>4, <1>5, <1>6, <1>7 DEF Next, Loop, Update

LEMMA FInvariance == Spec => []FInv
  BY InitFInv, NextFInv, TInvariance, PTL DEF Spec

\* What a mapping contributes when its source's last word was processed.
LEMMA ContributesAsked ==
  ASSUME TInv, Buttons, NEW c, NEW H, NEW heard, Linked(c, H, heard),
         NEW f \in AllMappings, \A r, s \in SourcesOf[f] : r = s,
         \A s \in SourcesOf[f] : heard[s] = latest[s]
  PROVE  (f \in H <=> HeardOf(f) # {}) /\ c[f] = Asked(f)
  <1>1. /\ SourcesOf[f] = {} => f \notin H /\ c[f] = 0
        /\ \A s \in SourcesOf[f] :
             IF heard[s] = Unheard
             THEN f \notin H /\ c[f] = 0
             ELSE /\ f \in H
                  /\ c[f] = MappedValue(Mapping(f), FieldValue(heard[s], Mapping(f).field))
    BY DEF Linked
  <1>2. CASE SourcesOf[f] = {}
    <2>1. HeardOf(f) = {}
      BY <1>2 DEF HeardOf
    <2> QED BY <1>1, <1>2, <2>1 DEF Asked
  <1>3. ASSUME NEW s \in SourcesOf[f], latest[s] = Unheard
        PROVE  (f \in H <=> HeardOf(f) # {}) /\ c[f] = Asked(f)
    <2>1. HeardOf(f) = {}
      BY <1>3 DEF HeardOf
    <2> QED BY <1>1, <1>3, <2>1 DEF Asked
  <1>4. ASSUME NEW s \in SourcesOf[f], latest[s] # Unheard
        PROVE  (f \in H <=> HeardOf(f) # {}) /\ c[f] = Asked(f)
    <2> DEFINE field == Mapping(f).field
               q == CHOOSE r \in HeardOf(f) : TRUE
    <2>1. HeardOf(f) = {s}
      BY <1>4 DEF HeardOf
    <2>2. q = s
      BY <2>1
    <2>3. s \in Sources /\ field \in FieldsOf(TypeOf(s))
      BY DEF SourcesOf
    <2>4. Reading(s, field) = FieldValue(latest[s], field)
      <3>1. CASE TypeOf(s) = "Button"
        <4>1. field = "btnState"
          BY <2>3, <3>1 DEF FieldsOf
        <4>2. latest[s].btnState = "Down" <=> pressed[s]
          BY <1>4, <2>3, <3>1 DEF Buttons
        <4>3. FieldValue(latest[s], field) =
                IF latest[s].btnState = "Down" THEN Unit ELSE 0
          BY <4>1 DEF FieldValue
        <4>4. Reading(s, field) = IF pressed[s] THEN Unit ELSE 0
          BY <3>1 DEF Reading
        <4>5. pressed[s] \in BOOLEAN
          BY <2>3 DEF TInv, Scalars
        <4> QED BY <4>2, <4>3, <4>4, <4>5
      <3>2. CASE TypeOf(s) # "Button"
        BY <3>2 DEF Reading
      <3> QED BY <3>1, <3>2
    <2>5. Asked(f) = MappedValue(Mapping(f), Reading(q, field))
      BY <2>1 DEF Asked
    <2> HIDE DEF q
    <2> QED BY <1>1, <1>4, <2>1, <2>2, <2>4, <2>5
  <1> QED BY <1>2, <1>3, <1>4

LEMMA FollowsFromInvariant ==
  ASSUME TInv, FInv
  PROVE  ChannelsFollowSources
  <1> SUFFICES ASSUME Drained, exitCode # "failure", NEW t \in Followable,
                      \A f \in Feeders[t] : \A s \in SourcesOf[f] : Reliable(s)
               PROVE  IF \A f \in Feeders[t] : HeardOf(f) = {}
                      THEN Shown(channels, t) = 0
                      ELSE \A f \in Feeders[t] : Shown(channels, t) = Wanted(f)
    BY DEF ChannelsFollowSources, Follows
  <1>1. PICK c, H, heard : Ledger(c, H, heard)
    BY DEF FInv
  <1>2. ASSUME NEW f \in Feeders[t], NEW s \in SourcesOf[f]
        PROVE  heard[s] = latest[s]
    <2>1. s \in Sources /\ MatchesYokeId(s) /\ Reliable(s)
      BY FeederFields DEF SourcesOf
    <2>2. InstanceOf(s) \in Instances
      BY <2>1, SourceFields
    <2>3. taken[InstanceOf(s)] = <<>> /\ cache[InstanceOf(s)] = <<>>
      BY <2>2 DEF Drained
    <2> QED BY <1>1, <2>1, <2>3, SaysNothing DEF Ledger, Words
  <1>3. ASSUME NEW f \in Feeders[t]
        PROVE  /\ f \in AllMappings /\ Mapping(f).target = t
               /\ f \in H <=> HeardOf(f) # {}
               /\ c[f] = Asked(f)
    <2>1. f \in AllMappings /\ Mapping(f).target = t /\ \A r, s \in SourcesOf[f] : r = s
      BY FeederFields
    <2>2. \A s \in SourcesOf[f] : heard[s] = latest[s]
      BY <1>2
    <2>3. Linked(c, H, heard) /\ Buttons
      BY <1>1 DEF Ledger, FInv
    <2> QED BY <2>1, <2>2, <2>3, ContributesAsked
  <1>4. ASSUME NEW f \in Feeders[t]
        PROVE  Combined(c, f) = Wanted(f)
    <2> DEFINE h == f[1]
               A == AdditiveOn(Handlers[h].mappings, Mapping(f).target)
    <2>1. Mapping(f).target = t /\ h \in DOMAIN Handlers
      BY <1>3, MappingIs
    <2>2. ASSUME NEW k \in A PROVE c[<<h, k>>] = Asked(<<h, k>>)
      <3>1. k \in DOMAIN Handlers[h].mappings /\ Handlers[h].mappings[k].target = t
        BY <2>1 DEF AdditiveOn
      <3>2. <<h, k>> \in AllMappings /\ Mapping(<<h, k>>).target = t
        BY <2>1, <3>1, MappingOf
      <3>3. <<h, k>> \in Feeders[t]
        BY <3>2, FeederIs
      <3> QED BY <1>3, <3>3
    <2>3. [k \in A |-> c[<<h, k>>]] = [k \in A |-> Asked(<<h, k>>)]
      BY <2>2
    <2>4. c[f] = Asked(f)
      BY <1>3
    <2> QED BY <2>3, <2>4, Zenon DEF Combined, Wanted
  <1>5. /\ Feeders[t] \cap H = {} => t \notin DOMAIN channels
        /\ Feeders[t] \cap H # {} =>
             t \in DOMAIN channels /\ \A f \in Feeders[t] : channels[t] = Combined(c, f)
    BY <1>1 DEF Ledger, Combines
  <1> QED BY <1>3, <1>4, <1>5 DEF Shown

\* Whatever arrived, overflowed, was skipped or pre-filtered, and in whatever
\* order the handlers and instances were read: once all is processed, every
\* channel is what its reliable sources last asked for.
THEOREM ChannelsAlwaysFollow == Spec => []ChannelsFollowSources
  BY FInvariance, TInvariance, FollowsFromInvariant, PTL
=============================================================================
