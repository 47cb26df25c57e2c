------------------------------ MODULE ReadLoop ------------------------------
(***************************************************************************)
(* The read loop of AppRunner::Run and ProcessSamples, from the DDS        *)
(* readers' caches through one mapping engine per subscription and the     *)
(* shared OutputState to the output device.                                *)
(*                                                                         *)
(* Processes: the loop's thread; the middleware's receive threads, which   *)
(* fill the caches between any two steps of the loop; whoever requests a   *)
(* stop; and the device, whose calls may fail.  Runs without --table: the  *)
(* counters and the dashboard that only the table shows are left out.      *)
(***************************************************************************)
EXTENDS Mapper, FiniteSets

CONSTANTS
  Handlers,     \* the subscriptions, each a topic type and its mappings
  Sources,      \* who publishes: the reader reached, id and another_id
  YokeId,       \* options.yokeId
  Depth,        \* History::KeepLast(16), for each instance
  Values,       \* the analog values that are published
  MaxArrivals,  \* bound on the number of samples that arrive
  Unheard       \* what  latest  says of a source that sent nothing usable

TopicType == {"Analog", "Stick", "Button"}
Subscription == [type : TopicType, mappings : Seq(MappingDefinition)]
BusIdentifier == [role : Int, sub_role : Int]

ASSUME HandlersAssumption == Handlers \in Seq(Subscription)
ASSUME SourcesAssumption ==
  Sources \subseteq [reader : DOMAIN Handlers,
                     id : BusIdentifier, another_id : BusIdentifier]
ASSUME ValuesAssumption == Values \subseteq Int
ASSUME BoundsAssumption ==
  YokeId \in Int /\ Depth \in Nat \ {0} /\ MaxArrivals \in Nat

VARIABLES
  cache,           \* the samples each reader holds, by instance
  gone,            \* the instances whose end the reader has still to tell
  arrivals,        \* number of samples that arrived so far
  pressed,         \* whether each Button source's button is down
  stop,            \* the StopSource's flag
  pc,              \* where the loop's thread is
  handler,         \* index of the handler the loop is at
  taken,           \* what take() returned and the loop has still to process
  additive_state,  \* the additive state of each handler's engine
  channels,        \* OutputState::channels
  device,          \* the channels the device last accepted
  exitCode,        \* the result of Run
  lastError,       \* AppRunner::LastError
  latest,          \* history: the last usable data of each source
  overrun          \* history: the sources that lost a sample in a cache

envVars == <<arrivals, pressed, latest, overrun>>
dataVars == <<additive_state, channels>>
exitVars == <<exitCode, lastError>>
vars == <<cache, gone, envVars, stop, pc, handler, taken, dataVars, device, exitVars>>

-----------------------------------------------------------------------------
(* Samples.                                                                *)

\* The topics are keyed by  id : an instance is one id at one reader.
InstanceOf(s) == <<s.reader, s.id>>
Instances == {InstanceOf(s) : s \in Sources}
InstancesOf(h) == {i \in Instances : i[1] = h}

TypeOf(s) == Handlers[s.reader].type

\* Both fields of a Button are @optional.
ButtonData == [btnState : {"Invalid", "Down", "Up", "absent"},
               btnChanging : {"true", "false", "absent"}]
DataOf(type) ==
  CASE type = "Analog" -> [value : Values]
    [] type = "Stick"  -> [x : Values, y : Values]
    [] type = "Button" -> ButtonData

ASSUME UnheardAssumption == \A type \in TopicType : Unheard \notin DataOf(type)

Sample == UNION {[source : {s}, valid : BOOLEAN, data : DataOf(TypeOf(s))] :
                   s \in Sources}

\* FormatTable's pre-filter: the samples that are processed at all.
Usable(type, data) ==
  type = "Button" =>
    data.btnChanging = "true" /\ data.btnState \in {"Down", "Up"}

Zero == [role |-> 0, sub_role |-> 0]

ResolveRoleFromData(s) ==
  IF s.id.role # 0 THEN s.id.role ELSE s.another_id.role

ResolveBusIdFromData(s) ==
  CASE s.id # Zero -> s.id
    [] s.id = Zero /\ s.another_id # Zero -> s.another_id
    [] OTHER -> s.id

MatchesYokeId(s) == ResolveBusIdFromData(s).sub_role = YokeId

\* MessageTraits: the fields a type offers to the engine.
FieldsOf(type) ==
  CASE type = "Analog" -> {"value"}
    [] type = "Stick"  -> {"x", "y"}
    [] type = "Button" -> {"btnState"}

FieldValue(data, field) ==
  IF field = "btnState"
  THEN IF data.btnState = "Down" THEN Unit ELSE 0
  ELSE data[field]

-----------------------------------------------------------------------------

Init ==
  /\ cache = [i \in Instances |-> <<>>]
  /\ gone = {}
  /\ arrivals = 0
  /\ pressed = [s \in Sources |-> FALSE]
  /\ stop = FALSE
  /\ pc = "top"
  /\ handler = 1
  /\ taken = [i \in Instances |-> <<>>]
  /\ additive_state = [h \in DOMAIN Handlers |-> SeededState(Handlers[h].mappings)]
  /\ channels = [t \in {} |-> 0]
  /\ device = [t \in {} |-> 0]
  /\ exitCode = "none"
  /\ lastError = ""
  /\ latest = [s \in Sources |-> Unheard]
  /\ overrun = {}

-----------------------------------------------------------------------------
(* The environment.                                                        *)

\* A slip: History::KeepAll.
StoredAll(samples, sample) == Append(samples, sample)

\* A full instance drops its oldest sample.
Stored(samples, sample) ==
  Append(IF Len(samples) = Depth THEN Tail(samples) ELSE samples, sample)

\* A sample reaches its reader.
Arrive(s, data) ==
  LET i == InstanceOf(s)
  IN  /\ arrivals < MaxArrivals
      /\ arrivals' = arrivals + 1
      /\ cache' = [cache EXCEPT ![i] =
                     Stored(@, [source |-> s, valid |-> TRUE, data |-> data])]
      /\ overrun' = IF Len(cache[i]) = Depth
                    THEN overrun \cup {Head(cache[i]).source} ELSE overrun
      /\ latest' = IF Usable(TypeOf(s), data)
                   THEN [latest EXCEPT ![s] = data] ELSE latest
      /\ UNCHANGED <<gone, stop, pc, handler, taken, dataVars, device, exitVars>>

Move(s) ==
  /\ TypeOf(s) # "Button"
  /\ \E data \in DataOf(TypeOf(s)) : Arrive(s, data)
  /\ UNCHANGED pressed

Edge(s) ==
  /\ TypeOf(s) = "Button"
  /\ pressed' = [pressed EXCEPT ![s] = ~@]
  /\ Arrive(s, [btnState |-> IF pressed[s] THEN "Up" ELSE "Down",
                btnChanging |-> "true"])

\* A button that is held, or left alone, is published again.
Hold(s) ==
  /\ TypeOf(s) = "Button"
  /\ Arrive(s, [btnState |-> IF pressed[s] THEN "Down" ELSE "Up",
                btnChanging |-> "false"])
  /\ UNCHANGED pressed

\* A publisher goes away: its reader will tell so, once, by a sample without
\* valid data.
Dispose(s) ==
  /\ latest[s] # Unheard
  /\ InstanceOf(s) \notin gone
  /\ arrivals < MaxArrivals
  /\ arrivals' = arrivals + 1
  /\ gone' = gone \cup {InstanceOf(s)}
  /\ UNCHANGED <<cache, pressed, latest, overrun, stop, pc, handler, taken,
                 dataVars, device, exitVars>>

RequestStop ==
  /\ ~stop
  /\ stop' = TRUE
  /\ UNCHANGED <<cache, gone, envVars, pc, handler, taken, dataVars, device, exitVars>>

Environment ==
  \/ \E s \in Sources : Move(s) \/ Edge(s) \/ Hold(s) \/ Dispose(s)
  \/ RequestStop

-----------------------------------------------------------------------------
(* The loop.                                                               *)

\* A slip: the error that ends the run is not recorded.
ExitForgetsError(code, error) ==
  /\ pc' = "exit"
  /\ exitCode' = code
  /\ UNCHANGED lastError

Exit(code, error) ==
  /\ pc' = "exit"
  /\ exitCode' = code
  /\ lastError' = error

\* while (!stopToken.StopRequested()): the flag is read here, and in the sleep.
Top ==
  /\ pc = "top"
  /\ \/ stop /\ Exit("success", lastError) /\ UNCHANGED handler
     \/ ~stop /\ pc' = "take" /\ handler' = 1 /\ UNCHANGED exitVars
  /\ UNCHANGED <<cache, gone, envVars, stop, taken, dataVars, device>>

\* What a reader returns when the last publisher of an instance is gone.
EndOf(i) ==
  LET s == CHOOSE r \in Sources : InstanceOf(r) = i
  IN  [source |-> s, valid |-> FALSE,
       data |-> CHOOSE data \in DataOf(TypeOf(s)) : TRUE]

\* reader.take() drains the cache of one reader.
Take ==
  /\ pc = "take"
  /\ handler \in DOMAIN Handlers
  /\ taken' = [i \in Instances |->
                 IF i \in InstancesOf(handler)
                 THEN cache[i] \o (IF i \in gone THEN <<EndOf(i)>> ELSE <<>>)
                 ELSE <<>>]
  /\ gone' = gone \ InstancesOf(handler)
  /\ cache' = [i \in Instances |->
                 IF i \in InstancesOf(handler) THEN <<>> ELSE cache[i]]
  /\ pc' = "sample"
  /\ UNCHANGED <<envVars, stop, handler, dataVars, device, exitVars>>

\* An exception of the middleware ends the run.
TakeThrows ==
  /\ pc = "take"
  /\ handler \in DOMAIN Handlers
  /\ Exit("failure", "Unhandled exception")
  /\ UNCHANGED <<cache, gone, envVars, stop, handler, taken, dataVars, device>>

\* A slip: the flag of the last call wins.
CallLastFlag(ms, s, field, role, value) ==
  Apply(ms, s.additive_state, s.channels,
        [field |-> field, id |-> role, value |-> value])

\* One call of the engine; the caller ORs the results.
Call(ms, s, field, role, value) ==
  LET n == Apply(ms, s.additive_state, s.channels,
                 [field |-> field, id |-> role, value |-> value])
  IN  [n EXCEPT !.updated = @ \/ s.updated]

\* A slip: Apply(x) || Apply(y) does not evaluate y.
ApplyStickEither(ms, s, role, data) ==
  LET x == Call(ms, s, "x", role, data.x)
  IN  IF x.updated THEN x ELSE Call(ms, x, "y", role, data.y)

ApplyStick(ms, s, role, data) ==
  Call(ms, Call(ms, s, "x", role, data.x), "y", role, data.y)

\* MessageTraits::Apply
TraitsApply(h, role, data) ==
  LET ms == Handlers[h].mappings
      s == [additive_state |-> additive_state[h], channels |-> channels,
            updated |-> FALSE]
  IN  CASE Handlers[h].type = "Analog" ->
             Call(ms, s, "value", role, data.value)
        [] Handlers[h].type = "Stick" ->
             ApplyStick(ms, s, role, data)
        [] Handlers[h].type = "Button" ->
             Call(ms, s, "btnState", role, FieldValue(data, "btnState"))

\* A slip: the samples of every yoke are processed.
AcceptedAnyYoke(sample) ==
  sample.valid /\ Usable(TypeOf(sample.source), sample.data)

Accepted(sample) ==
  /\ sample.valid
  /\ MatchesYokeId(sample.source)
  /\ Usable(TypeOf(sample.source), sample.data)

Remove(i) == taken' = [taken EXCEPT ![i] = Tail(@)]

\* The loop over the taken samples.  take() keeps the order of the samples of
\* an instance; how it orders the instances is its own affair.
SkipSample(i) ==
  /\ pc = "sample"
  /\ taken[i] # <<>>
  /\ ~Accepted(Head(taken[i]))
  /\ Remove(i)
  /\ UNCHANGED <<cache, gone, envVars, stop, pc, handler, dataVars, device, exitVars>>

ApplySample(i) ==
  /\ pc = "sample"
  /\ taken[i] # <<>>
  /\ Accepted(Head(taken[i]))
  /\ LET sample == Head(taken[i])
         s == TraitsApply(handler, ResolveRoleFromData(sample.source), sample.data)
     IN  /\ additive_state' = [additive_state EXCEPT ![handler] = s.additive_state]
         /\ channels' = s.channels
         /\ pc' = IF s.updated THEN "update" ELSE "sample"
  /\ Remove(i)
  /\ UNCHANGED <<cache, gone, envVars, stop, handler, device, exitVars>>

\* client.UpdateState(state)
UpdateSucceeds ==
  /\ pc = "update"
  /\ device' = channels
  /\ pc' = "sample"
  /\ UNCHANGED <<cache, gone, envVars, stop, handler, taken, dataVars, exitVars>>

\* A failed update ends the run; the taken samples that are left are lost.
UpdateFails ==
  /\ pc = "update"
  /\ Exit("failure", "Runtime error")
  /\ taken' = [i \in Instances |-> <<>>]
  /\ UNCHANGED <<cache, gone, envVars, stop, handler, dataVars, device>>

NextHandler ==
  /\ pc = "sample"
  /\ \A i \in Instances : taken[i] = <<>>
  /\ handler' = handler + 1
  /\ pc' = "take"
  /\ UNCHANGED <<cache, gone, envVars, stop, taken, dataVars, device, exitVars>>

\* After the last handler the loop sleeps, until a stop or 50 ms are over.
Sleep ==
  /\ pc = "take"
  /\ handler \notin DOMAIN Handlers
  /\ pc' = "sleep"
  /\ UNCHANGED <<cache, gone, envVars, stop, handler, taken, dataVars, device, exitVars>>

\* A slip: the next pass starts without a look at the stop flag.
WakeTakes ==
  /\ pc = "sleep"
  /\ pc' = "take"
  /\ handler' = 1
  /\ UNCHANGED <<cache, gone, envVars, stop, taken, dataVars, device, exitVars>>

Wake ==
  /\ pc = "sleep"
  /\ pc' = "top"
  /\ UNCHANGED <<cache, gone, envVars, stop, handler, taken, dataVars, device, exitVars>>

Update == UpdateSucceeds \/ UpdateFails

Loop ==
  \/ Top \/ Take \/ TakeThrows \/ Update \/ NextHandler \/ Sleep \/ Wake
  \/ \E i \in Instances : SkipSample(i) \/ ApplySample(i)

Next == Loop \/ Environment

\* The loop's thread runs: none of its steps waits for another thread.  This is
\* weak fairness of Loop, which has a step wherever the run is not over, with
\* that condition in the place of its ENABLED.
LoopRuns == []<>(pc = "exit") \/ []<><<Loop>>_vars

Spec == Init /\ [][Next]_vars /\ LoopRuns

-----------------------------------------------------------------------------
(* Properties.                                                             *)

\* Type invariant: no cache holds more than Depth samples of an instance.
TypeOK ==
  /\ cache \in [Instances -> Seq(Sample)]
  /\ \A i \in Instances : Len(cache[i]) <= Depth
  /\ gone \subseteq Instances
  /\ taken \in [Instances -> Seq(Sample)]
  /\ arrivals \in 0..MaxArrivals
  /\ pressed \in [Sources -> BOOLEAN]
  /\ stop \in BOOLEAN
  /\ pc \in {"top", "take", "sample", "update", "sleep", "exit"}
  /\ handler \in 1..Len(Handlers) + 1
  /\ \A h \in DOMAIN Handlers :
       additive_state[h] \in [AdditiveNames(Handlers[h].mappings) -> Int]
  /\ exitCode \in {"none", "success", "failure"}
  /\ lastError \in {"", "Runtime error", "Unhandled exception"}
  /\ overrun \subseteq Sources

\* A sample that changes a channel is never left unsubmitted: whenever the
\* loop is not between Apply and UpdateState, the device has the channels.
DeviceInSync ==
  pc # "update" /\ exitCode # "failure" => device = channels

\* A run that ends well was asked to end, has processed all that it took and
\* has left its last state on the device; one that fails says why.
ExitsAreClean ==
  /\ exitCode = "success" =>
       /\ stop /\ device = channels /\ lastError = ""
       /\ \A i \in Instances : taken[i] = <<>>
  /\ exitCode = "failure" => lastError # ""
  /\ exitCode = "none" <=> pc # "exit"

AllTargets == UNION {Targets(Handlers[h].mappings) : h \in DOMAIN Handlers}

\* The mappings of all engines, as <<handler, index>>.
AllMappings ==
  UNION {{h} \X DOMAIN Handlers[h].mappings : h \in DOMAIN Handlers}

Mapping(f) == Handlers[f[1]].mappings[f[2]]

\* The mappings that write each target.
Feeders == [t \in AllTargets |-> {f \in AllMappings : Mapping(f).target = t}]

\* The sources, of this yoke, whose samples each mapping matches.
SourcesOf ==
  [f \in AllMappings |->
    {s \in Sources : /\ s.reader = f[1] /\ MatchesYokeId(s)
                     /\ ResolveRoleFromData(s) = Mapping(f).id
                     /\ Mapping(f).field \in FieldsOf(TypeOf(s))}]

\* The last word of a source is certain to get through: no sample of it was
\* lost, or the ones lost were older ones of an analog input of its own.
Reliable(s) ==
  \/ s \notin overrun
  \/ /\ TypeOf(s) # "Button"
     /\ \A r \in Sources : InstanceOf(r) = InstanceOf(s) => r = s

\* No other additive mapping of its engine stores under the mapping's name.
OwnName(f) ==
  \A g \in AllMappings :
    g # f /\ g[1] = f[1] /\ Mapping(g).additive => Mapping(g).name # Mapping(f).name

\* The targets that one source feeds, or that additive mappings of one type
\* and one engine feed, each under a name and from a source of its own.
Followable ==
  {t \in AllTargets :
     /\ \A f \in Feeders[t] :
          /\ \A r, s \in SourcesOf[f] : r = s
          /\ Mapping(f).additive => OwnName(f)
     /\ \A f, g \in Feeders[t] :
          f # g => /\ Mapping(f).additive /\ Mapping(g).additive
                   /\ Mapping(f).channelType = Mapping(g).channelType
                   /\ f[1] = g[1]}

Reading(s, field) ==
  IF TypeOf(s) = "Button" THEN IF pressed[s] THEN Unit ELSE 0
                          ELSE FieldValue(latest[s], field)

HeardOf(f) == {s \in SourcesOf[f] : latest[s] # Unheard}

\* What the world outside now says the mapping contributes, and what that
\* makes of its target.
Asked(f) ==
  IF HeardOf(f) = {} THEN 0
  ELSE MappedValue(Mapping(f),
                   Reading(CHOOSE s \in HeardOf(f) : TRUE, Mapping(f).field))

Wanted(f) ==
  IF Mapping(f).additive
  THEN ClampFor(Mapping(f).channelType,
                Total([k \in AdditiveOn(Handlers[f[1]].mappings, Mapping(f).target) |->
                         Asked(<<f[1], k>>)]))
  ELSE Asked(f)

Shown(ch, t) == IF t \in DOMAIN ch THEN ch[t] ELSE 0

Follows(ch) ==
  \A t \in Followable :
    (\A f \in Feeders[t] : \A s \in SourcesOf[f] : Reliable(s)) =>
      IF \A f \in Feeders[t] : HeardOf(f) = {}
      THEN Shown(ch, t) = 0
      ELSE \A f \in Feeders[t] : Shown(ch, t) = Wanted(f)

Drained == \A i \in Instances : cache[i] = <<>> /\ taken[i] = <<>>

\* End to end: once every sample is processed, each channel is what the last
\* samples of its own yoke's sources ask for.  Overflowing caches, samples of
\* other yokes, invalid and pre-filtered ones, partial sticks, and the order
\* in which handlers and instances are read make no difference.
ChannelsFollowSources ==
  Drained /\ exitCode # "failure" => Follows(channels)

\* A change of the device is one source's doing: a source of our yoke that was
\* heard, and only on targets that its own mappings name.  Two sources never
\* reach the device in one update, and another yoke's never do.
OneSourceMoves ==
  [][device' # device =>
       \E s \in Sources :
         /\ MatchesYokeId(s) /\ latest[s] # Unheard
         /\ \A t \in AllTargets :
              Shown(device', t) # Shown(device, t) =>
                \E f \in Feeders[t] : s \in SourcesOf[f]]_vars

\* Every sample is taken in the end, however the readers are filled, and the
\* device itself ends up showing what the sources last asked for.
DeviceEventuallyFollows ==
  <>[](pc = "exit" \/ (Drained /\ Follows(device)))

\* A stop request ends the run, whatever arrives meanwhile.
StopEndsRun == stop ~> pc = "exit"

\* The documentation of the button pre-filter: it discards samples "for
\* button-held events where the state has not actually changed".  The button's
\* channel then already shows what a discarded sample says.
PrefilterIsRedundant ==
  \A i \in Instances :
    LET x == Head(taken[i])
    IN  (/\ pc = "sample" /\ taken[i] # <<>>
         /\ TypeOf(x.source) = "Button" /\ x.valid /\ MatchesYokeId(x.source)
         /\ x.data.btnChanging = "false") =>
          \A k \in DOMAIN Handlers[handler].mappings :
            LET m == Handlers[handler].mappings[k]
            IN  (/\ m.id = ResolveRoleFromData(x.source)
                 /\ m.field = "btnState"
                 /\ Cardinality(Feeders[m.target]) = 1) =>
                  Shown(channels, m.target) =
                    MappedValue(m, FieldValue(x.data, "btnState"))
=============================================================================
