------------------------- MODULE ConfigLoaderProofs -------------------------
(***************************************************************************)
(* Proofs about ConfigLoader, for every set of documents: what is loaded   *)
(* has the types that the engines are built from, can be served by the     *)
(* handler it is given to, and is grouped without losing, doubling or      *)
(* reordering a mapping.                                                   *)
(***************************************************************************)
EXTENDS ConfigLoader, TLAPS

-----------------------------------------------------------------------------
(* What an accepted entry becomes.                                         *)

Key == STRING \X STRING \X STRING

\* A mapping as it is loaded: a button's deadzone may be any number.
LoadedMapping ==
  [name : STRING, id : Int, field : STRING, target : STRING,
   channelType : ChannelType, scale : Int, deadzone : Int, invert : BOOLEAN,
   has_input_range : BOOLEAN, input_min : Int, input_max : Int,
   additive : BOOLEAN]

Servable(m, type) ==
  /\ m.field \in FieldsOf(type)
  /\ m.channelType \in ChannelsOf(type)
  /\ m.channelType # "Button" => m.deadzone \in 0..Unit

LEMMA GivenFrom ==
  ASSUME NEW S, NEW v \in Maybe(S), Given(v)
  PROVE  v \in S
  BY DEF Maybe, Given

LEMMA OrElseFrom ==
  ASSUME NEW S, NEW v \in Maybe(S), v # Bad, NEW default \in S
  PROVE  OrElse(v, default) \in S
  BY DEF Maybe, OrElse

LEMMA ChannelTypeIs ==
  ASSUME NEW node, OrElse(node.type, "") \in DOMAIN ParseChannelType \cup {""}
  PROVE  ChannelTypeOf(node) \in ChannelType
  <1>1. InferChannelType(node.to) \in ChannelType
    BY DEF InferChannelType, ChannelType
  <1>2. \A type \in DOMAIN ParseChannelType : ParseChannelType[type] \in ChannelType
    <2>1. DOMAIN ParseChannelType = {"axis", "trigger", "button"}
      BY Zenon DEF ParseChannelType
    <2>2. /\ ParseChannelType["axis"] = "Axis" /\ ParseChannelType["button"] = "Button"
          /\ ParseChannelType["trigger"] = "Trigger"
      BY DEF ParseChannelType
    <2> QED BY <2>1, <2>2 DEF ChannelType
  <1>3. CASE OrElse(node.type, "") = ""
    BY <1>1, <1>3, Zenon DEF ChannelTypeOf
  <1>4. CASE OrElse(node.type, "") # ""
    <2>1. OrElse(node.type, "") \in DOMAIN ParseChannelType
      BY <1>4, Zenon
    <2>2. CASE node.type = Absent
      BY <1>4, <2>2, Zenon DEF OrElse
    <2>3. CASE node.type # Absent
      <3>1. OrElse(node.type, "") = node.type
        BY <2>3, Zenon DEF OrElse
      <3>2. ChannelTypeOf(node) = ParseChannelType[node.type]
        BY <1>4, Zenon DEF ChannelTypeOf
      <3> QED BY <1>2, <2>1, <3>1, <3>2, Zenon
    <2> QED BY <2>2, <2>3
  <1> QED BY <1>3, <1>4

LEMMA LoadedTypes ==
  ASSUME NEW e \in MappingEntry \cup {Bad}, Accepted(e)
  PROVE  /\ MappingOf(e) \in LoadedMapping
         /\ KeyOf(e.dds) \in Key
         /\ KeyOf(e.dds)[2] = e.dds.type
         /\ e.dds.type \in DOMAIN TopicTypes
         /\ Servable(MappingOf(e), TopicTypes[e.dds.type])
  <1> DEFINE node == OutputNode(e)
             m == MappingOf(e)
  <1>1. WellFormed(e)
    BY DEF Accepted
  <1>2. e \in MappingEntry
    BY <1>1 DEF WellFormed
  <1>3. e.dds \in DdsNode /\ e.name \in STRING
    BY <1>1, <1>2, GivenFrom DEF WellFormed, MappingEntry
  <1>4. node \in TargetNode
    <2>1. node \in Maybe(TargetNode) /\ Given(node)
      BY <1>1, <1>2 DEF WellFormed, MappingEntry, OutputNode
    <2> QED BY <2>1, GivenFrom
  <1>5. /\ e.dds.topic \in STRING /\ e.dds.type \in STRING
        /\ e.dds.idl_file \in STRING /\ e.dds.id \in Int
        /\ e.dds.field \in Seq(STRING) \ {<<>>}
    BY <1>1, <1>3, GivenFrom DEF WellFormed, DdsNode
  <1>6. NormalizeFieldName(e.dds.field) \in STRING
    BY <1>5 DEF NormalizeFieldName
  <1>7. node.to \in STRING
    BY <1>1, <1>4, GivenFrom DEF WellFormed, TargetNode
  <1>8. /\ OrElse(node.scale, Unit) \in Int
        /\ OrElse(node.deadzone, 0) \in Int
        /\ OrElse(node.invert, FALSE) \in BOOLEAN
        /\ OrElse(node.additive, FALSE) \in BOOLEAN
    <2>1. /\ node.scale # Bad /\ node.deadzone # Bad
          /\ node.invert # Bad /\ node.additive # Bad
      BY <1>1 DEF WellFormed
    <2>2. Unit \in Int /\ 0 \in Int /\ FALSE \in BOOLEAN
      BY UnitAssumption
    <2>3. /\ node.scale \in Maybe(Int) /\ node.deadzone \in Maybe(Int)
          /\ node.invert \in Maybe(BOOLEAN) /\ node.additive \in Maybe(BOOLEAN)
      BY <1>4 DEF TargetNode
    <2> HIDE DEF node
    <2> QED BY <2>1, <2>2, <2>3, OrElseFrom
  <1>9. ChannelTypeOf(node) \in ChannelType
    BY <1>1, ChannelTypeIs DEF WellFormed
  <1>10. /\ HasInputRange(e.dds) \in BOOLEAN
         /\ HasInputRange(e.dds) => e.dds.input_min \in Int /\ e.dds.input_max \in Int
    <2>1. e.dds.input_min \in Maybe(Int) /\ e.dds.input_max \in Maybe(Int)
      BY <1>3 DEF DdsNode
    <2> QED BY <1>1, <2>1 DEF WellFormed, HasInputRange, Maybe
  <1>11. m \in LoadedMapping
    <2> HIDE DEF node
    <2>1. m = [name |-> e.name, id |-> e.dds.id, field |-> NormalizeFieldName(e.dds.field),
               target |-> node.to, channelType |-> ChannelTypeOf(node),
               scale |-> OrElse(node.scale, Unit), deadzone |-> OrElse(node.deadzone, 0),
               invert |-> OrElse(node.invert, FALSE),
               additive |-> OrElse(node.additive, FALSE),
               has_input_range |-> HasInputRange(e.dds),
               input_min |-> IF HasInputRange(e.dds) THEN e.dds.input_min ELSE 0,
               input_max |-> IF HasInputRange(e.dds) THEN e.dds.input_max ELSE Unit]
      BY DEF MappingOf, node
    <2>2. (IF HasInputRange(e.dds) THEN e.dds.input_min ELSE 0) \in Int
          /\ (IF HasInputRange(e.dds) THEN e.dds.input_max ELSE Unit) \in Int
      BY <1>10, UnitAssumption
    <2> HIDE DEF m
    <2> QED BY <1>3, <1>5, <1>6, <1>7, <1>8, <1>9, <1>10, <2>1, <2>2 DEF LoadedMapping
  <1>12. KeyOf(e.dds) \in Key /\ KeyOf(e.dds)[2] = e.dds.type
    BY <1>5 DEF KeyOf, Key
  <1>13. e.dds.type \in DOMAIN TopicTypes
    BY DEF Accepted, ValidateMappingType
  <1>14. Servable(m, TopicTypes[e.dds.type])
    <2>1. m.channelType \in ChannelType
      BY <1>11 DEF LoadedMapping
    <2> HIDE DEF m
    <2>2. ValidateMappingType(e.dds.type, m) /\ ValidateDeadzone(m)
      BY DEF Accepted, m
    <2> QED BY <2>1, <2>2 DEF Servable, ValidateMappingType, ValidateDeadzone, ChannelType
  <1> QED BY <1>11, <1>12, <1>13, <1>14

-----------------------------------------------------------------------------
(* The grouping.                                                           *)

Group ==
  [dds : Key, topicType : {"Analog", "Stick", "Button"},
   mappings : Seq(LoadedMapping)]

\* The entries that are loaded.
Loaded == 1 .. entry - 1

\* The loop is at an entry of the file, or past its last one.
At(d, i) == i \in 1..Len(d.mappings) + 1
Past(d, i) == i = Len(d.mappings) + 1
Scalars ==
  /\ document \in Documents /\ At(document, entry)
  /\ status \in {"loading", "returned", "threw"}
  /\ status = "returned" => Past(document, entry)

\* topicIndex finds the one group of each subscription that was seen.
Indexed ==
  /\ DOMAIN topicIndex = {KeyOf(document.mappings[j].dds) : j \in Loaded}
  /\ \A key \in DOMAIN topicIndex :
       /\ topicIndex[key] \in DOMAIN app_configs
       /\ app_configs[topicIndex[key]].dds = key
  /\ \A i \in DOMAIN app_configs :
       /\ app_configs[i].dds \in DOMAIN topicIndex
       /\ topicIndex[app_configs[i].dds] = i

\* A group's type is that of its subscription, and what it has can be served.
Typed ==
  \A i \in DOMAIN app_configs :
    /\ app_configs[i].dds[2] \in DOMAIN TopicTypes
    /\ app_configs[i].topicType = TopicTypes[app_configs[i].dds[2]]
    /\ \A k \in DOMAIN app_configs[i].mappings :
         Servable(app_configs[i].mappings[k], app_configs[i].topicType)

Ordered ==
  \A i \in DOMAIN app_configs :
    InFileOrder(app_configs[i].mappings, app_configs[i].dds, entry - 1)

LInv == Scalars /\ app_configs \in Seq(Group) /\ Indexed /\ Typed /\ Ordered

LEMMA ListOfEntries ==
  ASSUME NEW d \in Document
  PROVE  /\ d.mappings \in Seq(MappingEntry \cup {Bad})
         /\ Len(d.mappings) \in Nat /\ DOMAIN d.mappings = 1..Len(d.mappings)
  <1>1. d.mappings \in Seq(MappingEntry \cup {Bad})
    BY DEF Document
  <1> QED BY <1>1

LEMMA PropertiesFromLInv == LInv => TypeOK /\ GroupsAreTheFile /\ OnlyServable
  <1> SUFFICES ASSUME LInv PROVE TypeOK /\ GroupsAreTheFile /\ OnlyServable
    OBVIOUS
  <1>1. \A i \in DOMAIN app_configs : app_configs[i] \in Group
    BY DEF LInv
  <1>2. TypeOK
    <2>1. ASSUME NEW i \in DOMAIN app_configs, NEW k \in DOMAIN app_configs[i].mappings
          PROVE  [app_configs[i].mappings[k] EXCEPT !.deadzone = 0] \in MappingDefinition
      <3>1. app_configs[i].mappings[k] \in LoadedMapping
        BY <1>1 DEF Group
      <3> QED BY <3>1 DEF LoadedMapping, MappingDefinition
    <2>2. \A i \in DOMAIN app_configs :
            app_configs[i].topicType \in {"Analog", "Stick", "Button"}
      BY <1>1 DEF Group
    <2>3. \A k \in DOMAIN topicIndex : topicIndex[k] \in DOMAIN app_configs
      BY DEF LInv, Indexed
    <2>4. Scalars
      BY DEF LInv
    <2>5. /\ document \in Documents /\ entry \in 1..Len(document.mappings) + 1
          /\ status \in {"loading", "returned", "threw"}
      BY <2>4, Zenon DEF Scalars, At
    <2> QED BY <1>1, <2>1, <2>2, <2>3, <2>5, Zenon DEF TypeOK
  <1>3. OnlyServable
    BY DEF LInv, Typed, Servable, OnlyServable
  <1>4. ASSUME status = "returned" PROVE GroupsAreTheFile
    <2>1. document \in Document
      BY DocumentsAssumption DEF LInv, Scalars
    <2>2. Past(document, entry)
      BY <1>4 DEF LInv, Scalars
    <2>3. entry - 1 = Len(document.mappings) /\ Loaded = DOMAIN document.mappings
      BY <2>1, <2>2, ListOfEntries DEF Past, Loaded
    <2>4. {app_configs[i].dds : i \in DOMAIN app_configs} = DOMAIN topicIndex
      BY DEF LInv, Indexed
    <2>5. \A i, j \in DOMAIN app_configs :
            app_configs[i].dds = app_configs[j].dds => i = j
      BY DEF LInv, Indexed
    <2>6. {app_configs[i].dds : i \in DOMAIN app_configs} =
            {KeyOf(document.mappings[j].dds) : j \in DOMAIN document.mappings}
      <3> HIDE DEF Loaded
      <3>1. DOMAIN topicIndex = {KeyOf(document.mappings[j].dds) : j \in Loaded}
        BY DEF LInv, Indexed
      <3> QED BY <2>3, <2>4, <3>1
    <2>7. \A i \in DOMAIN app_configs :
            InFileOrder(app_configs[i].mappings, app_configs[i].dds,
                        Len(document.mappings))
      BY <2>3 DEF LInv, Ordered
    <2> QED BY <2>5, <2>6, <2>7 DEF GroupsAreTheFile
  <1>5. ASSUME status # "returned" PROVE GroupsAreTheFile
    BY <1>5 DEF GroupsAreTheFile
  <1> QED BY <1>2, <1>3, <1>4, <1>5

LEMMA InitLInv == Init => LInv
  <1> SUFFICES ASSUME Init PROVE LInv
    OBVIOUS
  <1>1. document \in Document
    BY DocumentsAssumption DEF Init
  <1>2. Len(document.mappings) \in Nat
    BY <1>1, ListOfEntries
  <1>4. Scalars
    <2>1. document \in Documents /\ entry = 1 /\ status \in {"threw", "loading"}
      BY DEF Init
    <2>2. At(document, entry)
      BY <1>2, <2>1 DEF At
    <2> QED BY <2>1, <2>2 DEF Scalars
  <1>5. app_configs = <<>> /\ topicIndex = <<>> /\ entry = 1
    BY DEF Init, NoConfig
  <1>6. DOMAIN app_configs = {} /\ DOMAIN topicIndex = {} /\ Loaded = {}
    BY <1>5 DEF Loaded
  <1> QED BY <1>4, <1>5, <1>6 DEF LInv, Indexed, Typed, Ordered

\* One more entry of another subscription leaves a group as it is.
LEMMA OrderKept ==
  ASSUME NEW ms, NEW key, NEW n \in Nat, InFileOrder(ms, key, n),
         KeyOf(document.mappings[n + 1].dds) # key
  PROVE  InFileOrder(ms, key, n + 1)
  <1>1. PICK at \in [DOMAIN ms -> 1..n] :
          /\ \A j, k \in DOMAIN ms : j < k => at[j] < at[k]
          /\ {at[k] : k \in DOMAIN ms} =
               {j \in 1..n : KeyOf(document.mappings[j].dds) = key}
          /\ \A k \in DOMAIN ms : ms[k] = MappingOf(document.mappings[at[k]])
    BY DEF InFileOrder
  <1>2. at \in [DOMAIN ms -> 1..n + 1]
    BY <1>1
  <1>3. {j \in 1..n : KeyOf(document.mappings[j].dds) = key} =
          {j \in 1..n + 1 : KeyOf(document.mappings[j].dds) = key}
    <2>1. \A j \in 1..n + 1 : j \in 1..n \/ j = n + 1
      OBVIOUS
    <2> QED BY <2>1
  <1> QED BY <1>1, <1>2, <1>3 DEF InFileOrder

\* One more of its own is its last.
LEMMA OrderGrows ==
  ASSUME NEW ms \in Seq(LoadedMapping), NEW key, NEW n \in Nat,
         InFileOrder(ms, key, n), NEW m,
         KeyOf(document.mappings[n + 1].dds) = key,
         m = MappingOf(document.mappings[n + 1])
  PROVE  InFileOrder(Append(ms, m), key, n + 1)
  <1>1. PICK at \in [DOMAIN ms -> 1..n] :
          /\ \A j, k \in DOMAIN ms : j < k => at[j] < at[k]
          /\ {at[k] : k \in DOMAIN ms} =
               {j \in 1..n : KeyOf(document.mappings[j].dds) = key}
          /\ \A k \in DOMAIN ms : ms[k] = MappingOf(document.mappings[at[k]])
    BY DEF InFileOrder
  <1> DEFINE last == Len(ms) + 1
             longer == Append(ms, m)
             to == [k \in 1..last |-> IF k = last THEN n + 1 ELSE at[k]]
  <1>2. /\ Len(ms) \in Nat /\ DOMAIN ms = 1..Len(ms) /\ DOMAIN longer = 1..last
        /\ longer[last] = m /\ \A k \in DOMAIN ms : longer[k] = ms[k]
    OBVIOUS
  <1>3. \A k \in 1..last : k = last \/ k \in DOMAIN ms
    BY <1>2
  <1>4. to[last] = n + 1 /\ \A k \in DOMAIN ms : to[k] = at[k] /\ at[k] \in 1..n
    BY <1>2
  <1>5. to \in [DOMAIN longer -> 1..n + 1]
    BY <1>2, <1>3, <1>4
  <1> HIDE DEF to, longer
  <1>6. \A j, k \in DOMAIN longer : j < k => to[j] < to[k]
    <2> SUFFICES ASSUME NEW j \in 1..last, NEW k \in 1..last, j < k
                 PROVE  to[j] < to[k]
      BY <1>2
    <2>1. j \in DOMAIN ms
      BY <1>2, <1>3
    <2>2. CASE k = last
      BY <1>4, <2>1, <2>2
    <2>3. CASE k \in DOMAIN ms
      BY <1>1, <1>4, <2>1, <2>3
    <2> QED BY <1>3, <2>2, <2>3
  <1>7. {to[k] : k \in DOMAIN longer} =
          {j \in 1..n + 1 : KeyOf(document.mappings[j].dds) = key}
    <2>1. ASSUME NEW k \in DOMAIN longer
          PROVE  to[k] \in 1..n + 1 /\ KeyOf(document.mappings[to[k]].dds) = key
      <3>1. CASE k = last
        BY <1>4, <3>1
      <3>2. CASE k \in DOMAIN ms
        <4>1. at[k] \in {j \in 1..n : KeyOf(document.mappings[j].dds) = key}
          BY <1>1, <3>2
        <4> QED BY <1>4, <3>2, <4>1
      <3> QED BY <1>2, <1>3, <3>1, <3>2
    <2>2. ASSUME NEW j \in 1..n + 1, KeyOf(document.mappings[j].dds) = key
          PROVE  \E k \in DOMAIN longer : j = to[k]
      <3>1. CASE j = n + 1
        <4>1. last \in DOMAIN longer
          BY <1>2
        <4> QED BY <1>4, <3>1, <4>1
      <3>2. CASE j # n + 1
        <4>1. j \in 1..n
          BY <3>2
        <4>2. PICK k \in DOMAIN ms : j = at[k]
          BY <1>1, <2>2, <4>1
        <4>3. k \in DOMAIN longer
          BY <1>2
        <4> QED BY <1>4, <4>2, <4>3
      <3> QED BY <3>1, <3>2
    <2> QED BY <2>1, <2>2
  <1>8. \A k \in DOMAIN longer : longer[k] = MappingOf(document.mappings[to[k]])
    BY <1>1, <1>2, <1>3, <1>4
  <1>9. InFileOrder(longer, key, n + 1)
    BY <1>5, <1>6, <1>7, <1>8 DEF InFileOrder
  <1> QED BY <1>9 DEF longer

\* The first of a subscription is its only one so far.
LEMMA OrderBegins ==
  ASSUME NEW key, NEW n \in Nat, NEW m,
         \A j \in 1..n : KeyOf(document.mappings[j].dds) # key,
         KeyOf(document.mappings[n + 1].dds) = key,
         m = MappingOf(document.mappings[n + 1])
  PROVE  InFileOrder(<<m>>, key, n + 1)
  <1> DEFINE at == [k \in {1} |-> n + 1]
             ms == <<m>>
  <1>1. DOMAIN ms = {1} /\ ms[1] = m
    OBVIOUS
  <1>2. at \in [{1} -> 1..n + 1] /\ at[1] = n + 1
    OBVIOUS
  <1>3. {j \in 1..n + 1 : KeyOf(document.mappings[j].dds) = key} = {n + 1}
    <2>1. \A j \in 1..n + 1 : j \in 1..n \/ j = n + 1
      OBVIOUS
    <2> QED BY <2>1
  <1> HIDE DEF at, ms
  <1>4. {at[k] : k \in {1}} = {n + 1}
    BY <1>2
  <1>5. InFileOrder(ms, key, n + 1)
    BY <1>1, <1>2, <1>3, <1>4 DEF InFileOrder
  <1> QED BY <1>5 DEF ms

-----------------------------------------------------------------------------
(* The steps.                                                              *)

LEMMA TopicTypeIs ==
  ASSUME NEW t \in DOMAIN TopicTypes
  PROVE  TopicTypes[t] \in {"Analog", "Stick", "Button"}
  BY DEF TopicTypes

\* What LoadEntry knows of an entry that is accepted.
LEMMA EntryFacts ==
  ASSUME Scalars, entry \in DOMAIN document.mappings
  PROVE  /\ document.mappings[entry] \in MappingEntry \cup {Bad}
         /\ entry \in Nat /\ entry >= 1
         /\ entry \in 1..Len(document.mappings)
         /\ Len(document.mappings) \in Nat
  <1>1. document \in Document
    BY DocumentsAssumption DEF Scalars
  <1>2. document.mappings \in Seq(MappingEntry \cup {Bad})
    BY <1>1, ListOfEntries
  <1> QED BY <1>2

LEMMA NewGroupLInv ==
  ASSUME LInv, entry \in DOMAIN document.mappings,
         Accepted(document.mappings[entry]), NewGroup(document.mappings[entry]),
         entry' = entry + 1, document' = document
  PROVE  app_configs' \in Seq(Group) /\ Indexed' /\ Typed' /\ Ordered'
  <1> DEFINE e == document.mappings[entry]
             key == KeyOf(e.dds)
             new == [dds |-> key, topicType |-> TopicTypes[e.dds.type],
                     mappings |-> <<MappingOf(e)>>]
             last == Len(app_configs) + 1
  <1>1. /\ e \in MappingEntry \cup {Bad} /\ entry \in Nat /\ entry >= 1
    BY EntryFacts DEF LInv
  <1>2. /\ MappingOf(e) \in LoadedMapping /\ key \in Key /\ key[2] = e.dds.type
        /\ e.dds.type \in DOMAIN TopicTypes
        /\ Servable(MappingOf(e), TopicTypes[e.dds.type])
    BY <1>1, LoadedTypes
  <1>3. TopicTypes[e.dds.type] \in {"Analog", "Stick", "Button"}
    BY <1>2, TopicTypeIs
  <1>4. key \notin DOMAIN topicIndex /\ app_configs' = Append(app_configs, new)
    BY DEF NewGroup
  <1>5. topicIndex' = [k \in DOMAIN topicIndex \cup {key} |->
                         IF k \in DOMAIN topicIndex THEN topicIndex[k] ELSE last]
    BY DEF NewGroup, GroupIndex
  <1>6. Loaded' = Loaded \cup {entry} /\ Loaded = 1..entry - 1
    BY <1>1 DEF Loaded
  <1>7. /\ DOMAIN topicIndex = {KeyOf(document.mappings[j].dds) : j \in Loaded}
        /\ \A k \in DOMAIN topicIndex :
             topicIndex[k] \in DOMAIN app_configs /\ app_configs[topicIndex[k]].dds = k
        /\ \A i \in DOMAIN app_configs :
             app_configs[i].dds \in DOMAIN topicIndex /\ topicIndex[app_configs[i].dds] = i
    BY DEF LInv, Indexed
  <1>8. new \in Group /\ new.dds = key /\ new.topicType = TopicTypes[e.dds.type]
        /\ new.mappings = <<MappingOf(e)>>
    <2>1. <<MappingOf(e)>> \in Seq(LoadedMapping)
      BY <1>2
    <2> QED BY <1>2, <1>3, <2>1 DEF Group
  <1>9. app_configs \in Seq(Group)
    BY DEF LInv
  <1> HIDE DEF new, key, e
  <1>10. /\ app_configs' \in Seq(Group)
         /\ DOMAIN app_configs = 1..Len(app_configs) /\ Len(app_configs) \in Nat
         /\ DOMAIN app_configs' = 1..last
         /\ app_configs'[last] = new
         /\ \A i \in DOMAIN app_configs : app_configs'[i] = app_configs[i]
    BY <1>4, <1>8, <1>9
  <1>11. \A i \in DOMAIN app_configs' : i = last \/ i \in DOMAIN app_configs
    BY <1>10
  <1>12. /\ DOMAIN topicIndex' = DOMAIN topicIndex \cup {key}
         /\ topicIndex'[key] = last
         /\ \A k \in DOMAIN topicIndex : topicIndex'[k] = topicIndex[k]
    BY <1>4, <1>5
  <1>13. \A i \in DOMAIN app_configs : i \in DOMAIN app_configs'
    BY <1>10
  <1>14. last \in DOMAIN app_configs' /\ last \notin DOMAIN app_configs
    BY <1>10
  <1>15. Indexed'
    <2>1. DOMAIN topicIndex' = {KeyOf(document'.mappings[j].dds) : j \in Loaded'}
      <3>1. DOMAIN topicIndex' =
              {KeyOf(document.mappings[j].dds) : j \in Loaded} \cup {key}
        BY <1>7, <1>12
      <3> HIDE DEF Loaded
      <3> QED BY <1>6, <3>1 DEF key, e
    <2>2. \A k \in DOMAIN topicIndex' :
            topicIndex'[k] \in DOMAIN app_configs' /\ app_configs'[topicIndex'[k]].dds = k
      BY <1>7, <1>8, <1>10, <1>12, <1>13, <1>14
    <2>3. \A i \in DOMAIN app_configs' :
            app_configs'[i].dds \in DOMAIN topicIndex' /\ topicIndex'[app_configs'[i].dds] = i
      BY <1>7, <1>8, <1>10, <1>11, <1>12
    <2> QED BY <2>1, <2>2, <2>3 DEF Indexed
  <1>16. Typed'
    <2>1. ASSUME NEW i \in DOMAIN app_configs'
          PROVE  /\ app_configs'[i].dds[2] \in DOMAIN TopicTypes
                 /\ app_configs'[i].topicType = TopicTypes[app_configs'[i].dds[2]]
                 /\ \A k \in DOMAIN app_configs'[i].mappings :
                      Servable(app_configs'[i].mappings[k], app_configs'[i].topicType)
      <3>1. CASE i = last
        BY <1>2, <1>8, <1>10, <3>1 DEF e
      <3>2. CASE i \in DOMAIN app_configs
        BY <1>10, <3>2 DEF LInv, Typed
      <3> QED BY <1>11, <3>1, <3>2
    <2> QED BY <2>1 DEF Typed
  <1>17. \A j \in 1..entry - 1 : KeyOf(document.mappings[j].dds) # key
    BY <1>4, <1>6, <1>7
  <1>18. ASSUME NEW i \in DOMAIN app_configs'
         PROVE  InFileOrder(app_configs'[i].mappings, app_configs'[i].dds, entry)
    <2> DEFINE n == entry - 1
    <2>1. n \in Nat /\ n + 1 = entry
      BY <1>1
    <2> HIDE DEF n
    <2>2. CASE i = last
      <3>1. InFileOrder(<<MappingOf(e)>>, key, n + 1)
        BY <1>17, <2>1, OrderBegins DEF key, e, n
      <3> QED BY <1>8, <1>10, <2>1, <2>2, <3>1
    <2>3. CASE i \in DOMAIN app_configs
      <3>1. InFileOrder(app_configs[i].mappings, app_configs[i].dds, n)
        BY <2>3 DEF LInv, Ordered, n
      <3>2. app_configs[i].dds # key
        BY <1>4, <1>7, <2>3
      <3>3. InFileOrder(app_configs[i].mappings, app_configs[i].dds, n + 1)
        BY <2>1, <3>1, <3>2, OrderKept DEF key, e
      <3> QED BY <1>10, <2>1, <2>3, <3>3
    <2> QED BY <1>11, <2>2, <2>3
  <1>19. Ordered'
    <2>1. entry' - 1 = entry
      BY <1>1
    <2> QED BY <1>18, <2>1 DEF Ordered, InFileOrder
  <1> QED BY <1>10, <1>15, <1>16, <1>19

LEMMA JoinGroupLInv ==
  ASSUME LInv, entry \in DOMAIN document.mappings,
         Accepted(document.mappings[entry]), JoinGroup(document.mappings[entry]),
         entry' = entry + 1, document' = document
  PROVE  app_configs' \in Seq(Group) /\ Indexed' /\ Typed' /\ Ordered'
  <1> DEFINE e == document.mappings[entry]
             key == KeyOf(e.dds)
             at == topicIndex[key]
             old == app_configs[at]
             longer == Append(old.mappings, MappingOf(e))
  <1>1. e \in MappingEntry \cup {Bad} /\ entry \in Nat /\ entry >= 1
    BY EntryFacts DEF LInv
  <1>2. /\ MappingOf(e) \in LoadedMapping /\ key[2] = e.dds.type
        /\ Servable(MappingOf(e), TopicTypes[e.dds.type])
    BY <1>1, LoadedTypes
  <1>3. /\ DOMAIN topicIndex = {KeyOf(document.mappings[j].dds) : j \in Loaded}
        /\ \A k \in DOMAIN topicIndex :
             topicIndex[k] \in DOMAIN app_configs /\ app_configs[topicIndex[k]].dds = k
        /\ \A i \in DOMAIN app_configs :
             app_configs[i].dds \in DOMAIN topicIndex /\ topicIndex[app_configs[i].dds] = i
    BY DEF LInv, Indexed
  <1>4. key \in DOMAIN topicIndex /\ topicIndex' = topicIndex
    BY DEF JoinGroup
  <1>5. at \in DOMAIN app_configs /\ old.dds = key
    BY <1>3, <1>4
  <1>6. app_configs' = [app_configs EXCEPT ![at] = [old EXCEPT !.mappings = longer]]
    BY DEF JoinGroup
  <1>7. app_configs \in Seq(Group) /\ old \in Group
    BY <1>5 DEF LInv
  <1>8. old.mappings \in Seq(LoadedMapping) /\ longer \in Seq(LoadedMapping)
    BY <1>2, <1>7 DEF Group
  <1>9. /\ [old EXCEPT !.mappings = longer] \in Group
        /\ [old EXCEPT !.mappings = longer].dds = old.dds
        /\ [old EXCEPT !.mappings = longer].topicType = old.topicType
        /\ [old EXCEPT !.mappings = longer].mappings = longer
    BY <1>7, <1>8 DEF Group
  <1> DEFINE new == [old EXCEPT !.mappings = longer]
  <1>10. Loaded' = Loaded \cup {entry}
    BY <1>1 DEF Loaded
  <1>11. old.topicType = TopicTypes[key[2]] /\ key[2] \in DOMAIN TopicTypes
         /\ \A k \in DOMAIN old.mappings : Servable(old.mappings[k], old.topicType)
    BY <1>5 DEF LInv, Typed
  <1>12. \A k \in DOMAIN longer : Servable(longer[k], old.topicType)
    <2>1. Servable(MappingOf(e), old.topicType)
      BY <1>2, <1>11
    <2>2. \A k \in DOMAIN longer :
            \/ k \in DOMAIN old.mappings /\ longer[k] = old.mappings[k]
            \/ longer[k] = MappingOf(e)
      BY <1>8
    <2> QED BY <1>11, <2>1, <2>2
  <1>13. /\ new \in Group /\ new.dds = key /\ new.topicType = old.topicType
         /\ new.mappings = longer
         /\ app_configs' = [app_configs EXCEPT ![at] = new]
    BY <1>5, <1>6, <1>9
  <1> HIDE DEF new, longer, old, at, key, e
  <1>14. /\ app_configs' \in Seq(Group)
         /\ DOMAIN app_configs' = DOMAIN app_configs
         /\ app_configs'[at] = new
         /\ \A i \in DOMAIN app_configs : i # at => app_configs'[i] = app_configs[i]
    BY <1>5, <1>7, <1>13
  <1>15. \A i \in DOMAIN app_configs : app_configs'[i].dds = app_configs[i].dds
    BY <1>5, <1>13, <1>14 DEF old
  <1>16. Indexed'
    <2>1. DOMAIN topicIndex' = {KeyOf(document'.mappings[j].dds) : j \in Loaded'}
      BY <1>3, <1>4, <1>10 DEF key, e
    <2>2. \A k \in DOMAIN topicIndex' :
            topicIndex'[k] \in DOMAIN app_configs' /\ app_configs'[topicIndex'[k]].dds = k
      BY <1>3, <1>4, <1>14, <1>15
    <2>3. \A i \in DOMAIN app_configs' :
            app_configs'[i].dds \in DOMAIN topicIndex' /\ topicIndex'[app_configs'[i].dds] = i
      BY <1>3, <1>4, <1>14, <1>15
    <2> QED BY <2>1, <2>2, <2>3 DEF Indexed
  <1>17. Typed'
    <2>1. ASSUME NEW i \in DOMAIN app_configs'
          PROVE  /\ app_configs'[i].dds[2] \in DOMAIN TopicTypes
                 /\ app_configs'[i].topicType = TopicTypes[app_configs'[i].dds[2]]
                 /\ \A k \in DOMAIN app_configs'[i].mappings :
                      Servable(app_configs'[i].mappings[k], app_configs'[i].topicType)
      <3>1. CASE i = at
        BY <1>11, <1>12, <1>13, <1>14, <3>1
      <3>2. CASE i # at
        BY <1>14, <3>2 DEF LInv, Typed
      <3> QED BY <3>1, <3>2
    <2> QED BY <2>1 DEF Typed
  <1>18. ASSUME NEW i \in DOMAIN app_configs'
         PROVE  InFileOrder(app_configs'[i].mappings, app_configs'[i].dds, entry)
    <2> DEFINE n == entry - 1
    <2>1. n \in Nat /\ n + 1 = entry
      BY <1>1
    <2> HIDE DEF n
    <2>2. InFileOrder(app_configs[i].mappings, app_configs[i].dds, n)
      BY <1>14 DEF LInv, Ordered, n
    <2>3. CASE i = at
      <3>1. InFileOrder(old.mappings, key, n)
        BY <1>5, <2>2, <2>3 DEF old
      <3>2. InFileOrder(Append(old.mappings, MappingOf(e)), key, n + 1)
        BY <1>8, <2>1, <3>1, OrderGrows DEF key, e
      <3> QED BY <1>13, <1>14, <2>1, <2>3, <3>2 DEF longer
    <2>4. CASE i # at
      <3>1. app_configs[i].dds # key
        BY <1>3, <1>14, <2>4 DEF at
      <3>2. InFileOrder(app_configs[i].mappings, app_configs[i].dds, n + 1)
        BY <2>1, <2>2, <3>1, OrderKept DEF key, e
      <3> QED BY <1>14, <2>1, <2>4, <3>2
    <2> QED BY <2>3, <2>4
  <1>19. Ordered'
    <2>1. entry' - 1 = entry
      BY <1>1
    <2> QED BY <1>18, <2>1 DEF Ordered, InFileOrder
  <1> QED BY <1>14, <1>16, <1>17, <1>19

\* What does not move the loop leaves the grouping as it is.
LEMMA GroupingKept ==
  ASSUME LInv, UNCHANGED <<document, entry, app_configs, topicIndex>>
  PROVE  app_configs' \in Seq(Group) /\ Indexed' /\ Typed' /\ Ordered'
  BY DEF LInv, Indexed, Typed, Ordered, Loaded, InFileOrder

LEMMA NextLInv == LInv /\ [Next]_vars => LInv'
  <1> SUFFICES ASSUME LInv, [Next]_vars PROVE LInv'
    OBVIOUS
  <1>1. Scalars
    BY DEF LInv
  <1>2. CASE LoadEntry
    <2> DEFINE e == document.mappings[entry]
    <2>1. /\ status = "loading" /\ entry \in DOMAIN document.mappings
          /\ document' = document /\ output' = output
      BY <1>2 DEF LoadEntry
    <2>2. CASE Accepted(e)
      <3>1. /\ NewGroup(e) \/ JoinGroup(e)
            /\ entry' = entry + 1 /\ status' = status
        BY <1>2, <2>2 DEF LoadEntry
      <3>2. At(document, entry')
        BY <1>1, <2>1, <3>1, EntryFacts DEF At
      <3>4. status' = "loading"
        BY <2>1, <3>1
      <3>5. Scalars'
        BY <1>1, <2>1, <3>2, <3>4 DEF Scalars, At
      <3>3. app_configs' \in Seq(Group) /\ Indexed' /\ Typed' /\ Ordered'
        BY <2>1, <2>2, <3>1, NewGroupLInv, JoinGroupLInv
      <3> QED BY <3>3, <3>5 DEF LInv
    <2>3. CASE ~Accepted(e)
      <3>1. /\ status' = "threw" /\ entry' = entry
            /\ app_configs' = app_configs /\ topicIndex' = topicIndex
        BY <1>2, <2>3 DEF LoadEntry
      <3>2. Scalars'
        BY <1>1, <2>1, <3>1 DEF Scalars, At
      <3> QED BY <2>1, <3>1, <3>2, GroupingKept DEF LInv
    <2> QED BY <2>2, <2>3
  <1>3. CASE Finish
    <2>1. /\ status = "loading" /\ entry \notin DOMAIN document.mappings
          /\ status' \in {"threw", "returned"}
          /\ UNCHANGED <<document, entry, output, app_configs, topicIndex>>
      BY <1>3 DEF Finish
    <2>2. document \in Document
      BY <1>1, DocumentsAssumption DEF Scalars
    <2>3. Past(document, entry)
      <3>1. At(document, entry)
        BY <1>1 DEF Scalars
      <3> QED BY <2>1, <2>2, <3>1, ListOfEntries DEF At, Past
    <2>4. Scalars'
      BY <1>1, <2>1, <2>3 DEF Scalars, At, Past
    <2> QED BY <2>1, <2>4, GroupingKept DEF LInv
  <1>4. CASE UNCHANGED vars
    <2>1. Scalars'
      BY <1>1, <1>4 DEF Scalars, At, Past, vars
    <2> QED BY <1>4, <2>1, GroupingKept DEF LInv, vars
  <1> QED BY <1>2, <1>3, <1>4 DEF Next

LEMMA LInvAlways == Spec => []LInv
  BY InitLInv, NextLInv, PTL DEF Spec

-----------------------------------------------------------------------------

\* What Load hands on has the types that AppRunner and its engines are built
\* from, whatever the file says, and topicIndex never points past app_configs.
THEOREM LoaderTypeCorrect == Spec => []TypeOK
  BY LInvAlways, PropertiesFromLInv, PTL

\* The grouping by topicIndex keeps every mapping of the file, once, in its
\* subscription's AppConfig and in the order of the file.
THEOREM GroupsStayTheFile == Spec => []GroupsAreTheFile
  BY LInvAlways, PropertiesFromLInv, PTL

\* No mapping reaches a handler that cannot serve it: the validation of each
\* entry is the same as what the group's handler needs.
THEOREM OnlyServableIsLoaded == Spec => []OnlyServable
  BY LInvAlways, PropertiesFromLInv, PTL
=============================================================================
