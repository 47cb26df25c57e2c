---------------------------- MODULE ConfigLoader ----------------------------
(***************************************************************************)
(* ConfigLoader::Load: the validation of a role file, entry by entry, and  *)
(* the grouping of its mappings into one AppConfig for each subscription.  *)
(*                                                                         *)
(* A YAML document is a record.  In place of a value it has Absent, and    *)
(* Bad  where the value is of the wrong kind.  A dotted field name is the  *)
(* sequence of its parts.                                                  *)
(***************************************************************************)
EXTENDS Mapper

CONSTANTS
  Documents,     \* the files that are loaded
  Prefix,        \* for each target, what stands before its colon
  Absent, Bad,   \* a value that is not there, or of another kind
  NoInt          \* a scalar in place of a port that is not an integer

NoConfig == <<>>

\* What a document can have in place of each value.
Maybe(S) == S \cup {Absent, Bad}
DdsNode ==
  [topic : Maybe(STRING), type : Maybe(STRING), idl_file : Maybe(STRING),
   id : Maybe(Int), field : Maybe(Seq(STRING) \ {<<>>}),
   input_min : Maybe(Int), input_max : Maybe(Int)]
TargetNode ==
  [to : Maybe(STRING), type : Maybe(STRING), scale : Maybe(Int),
   deadzone : Maybe(Int), invert : Maybe(BOOLEAN), additive : Maybe(BOOLEAN)]
MappingEntry ==
  [name : Maybe(STRING), dds : Maybe(DdsNode),
   output : Maybe(TargetNode), gamepad : Maybe(TargetNode)]
OutputSection ==
  [type : Maybe(STRING), host : Maybe(STRING), port : Maybe(Int) \cup {NoInt}]
Document ==
  [header : Maybe(STRING), mappings : Seq(MappingEntry \cup {Bad}),
   output : Maybe(OutputSection)]

ASSUME DocumentsAssumption == Documents \subseteq Document

VARIABLES
  document,      \* the file being loaded
  entry,         \* index of the entry of mappings the loop is at
  output,        \* roleConfig.output
  app_configs,   \* roleConfig.app_configs
  topicIndex,    \* where the group of a subscription is in app_configs
  status         \* "loading", "returned" or "threw"

vars == <<document, entry, output, app_configs, topicIndex, status>>

-----------------------------------------------------------------------------
(* Parsing.                                                                *)

TopicTypes ==
  [t \in {"Gamepad::Gamepad_Analog", "Gamepad_Analog", "Gamepad::Stick_TwoAxis",
          "Stick_TwoAxis", "Gamepad::Button", "Button"} |->
     CASE t \in {"Gamepad::Gamepad_Analog", "Gamepad_Analog"} -> "Analog"
       [] t \in {"Gamepad::Stick_TwoAxis", "Stick_TwoAxis"}   -> "Stick"
       [] OTHER                                               -> "Button"]

ParseChannelType == [axis |-> "Axis", trigger |-> "Trigger", button |-> "Button"]

InferChannelType(target) ==
  CASE target \in {"axis:left_trigger", "axis:right_trigger"} -> "Trigger"
    [] Prefix[target] \in {"button", "dpad"} -> "Button"
    [] OTHER -> "Axis"

NormalizeFieldName(field) == field[Len(field)]

OrElse(value, default) == IF value = Absent THEN default ELSE value

\* The output node of an entry, or else the gamepad node of the old schema.
OutputNode(e) == IF e.output \in {Absent, Bad} THEN e.gamepad ELSE e.output

ChannelTypeOf(node) ==
  IF OrElse(node.type, "") = "" THEN InferChannelType(node.to)
  ELSE ParseChannelType[node.type]

HasInputRange(dds) == Absent \notin {dds.input_min, dds.input_max}

MappingOf(e) ==
  LET node == OutputNode(e)
  IN  [name |-> e.name, id |-> e.dds.id, field |-> NormalizeFieldName(e.dds.field),
       target |-> node.to, channelType |-> ChannelTypeOf(node),
       scale |-> OrElse(node.scale, Unit), deadzone |-> OrElse(node.deadzone, 0),
       invert |-> OrElse(node.invert, FALSE),
       additive |-> OrElse(node.additive, FALSE),
       has_input_range |-> HasInputRange(e.dds),
       input_min |-> IF HasInputRange(e.dds) THEN e.dds.input_min ELSE 0,
       input_max |-> IF HasInputRange(e.dds) THEN e.dds.input_max ELSE Unit]

\* BuildTopicKey
KeyOf(dds) == <<dds.topic, dds.type, dds.idl_file>>

-----------------------------------------------------------------------------
(* Validation.                                                             *)

Given(v) == v \notin {Absent, Bad}

\* RequireString and RequireInt of the required fields, and the conversions of
\* the optional ones.
WellFormed(e) ==
  /\ e # Bad /\ Given(e.dds) /\ Given(OutputNode(e))
  /\ Given(e.name) /\ Given(e.dds.topic) /\ Given(e.dds.type)
  /\ Given(e.dds.idl_file) /\ Given(e.dds.id) /\ Given(e.dds.field)
  /\ HasInputRange(e.dds) => Bad \notin {e.dds.input_min, e.dds.input_max}
  /\ LET node == OutputNode(e)
     IN  /\ Given(node.to)
         /\ OrElse(node.type, "") \in DOMAIN ParseChannelType \cup {""}
         /\ node.scale # Bad /\ node.deadzone # Bad
         /\ node.invert # Bad /\ node.additive # Bad

\* What a subscription of each type can be mapped from and to.
FieldsOf(type) ==
  CASE type = "Analog" -> {"value"}
    [] type = "Stick"  -> {"x", "y"}
    [] type = "Button" -> {"btnState"}
ChannelsOf(type) ==
  CASE type = "Analog" -> ChannelType
    [] type = "Stick"  -> {"Axis"}
    [] type = "Button" -> {"Button"}

\* A slip: only the fields are looked at.
ValidateFieldOnly(ddsType, m) ==
  ddsType \in DOMAIN TopicTypes /\ m.field \in FieldsOf(TopicTypes[ddsType])

ValidateMappingType(ddsType, m) ==
  /\ ddsType \in DOMAIN TopicTypes
  /\ m.field \in FieldsOf(TopicTypes[ddsType])
  /\ m.channelType \in ChannelsOf(TopicTypes[ddsType])

ValidateDeadzone(m) ==
  m.channelType \in {"Trigger", "Axis"} => m.deadzone \in 0..Unit

Accepted(e) ==
  /\ WellFormed(e)
  /\ ValidateMappingType(e.dds.type, MappingOf(e))
  /\ ValidateDeadzone(MappingOf(e))

-----------------------------------------------------------------------------

NoSection == [type |-> Absent, host |-> Absent, port |-> Absent]

\* The optional section with the output: one that is no map is passed over.
SectionOf(d) == IF Given(d.output) THEN d.output ELSE NoSection

\* A port that is no scalar is passed over, too; others are narrowed to 16 bits.
PortOf(section) ==
  IF section.port \in {Absent, Bad, NoInt} THEN 0 ELSE section.port % 65536

\* The root, the role with its name, the list of mappings; then the output.
Init ==
  /\ document \in Documents
  /\ entry = 1
  /\ LET section == SectionOf(document)
     IN  /\ status = IF \/ ~Given(document.header)
                        \/ Bad \in {section.type, section.host}
                        \/ section.port = NoInt
                     THEN "threw" ELSE "loading"
         /\ output = [type |-> OrElse(section.type, "vigem_x360"),
                      host |-> OrElse(section.host, ""), port |-> PortOf(section)]
  /\ app_configs = <<>>
  /\ topicIndex = NoConfig

\* A slip: the index that the group after the next one will have.
GroupIndexPast == Len(app_configs) + 2

\* A slip: the index of the group that was there before.
GroupIndexEarly == Len(app_configs)

\* Where topicIndex finds the group that is added next.
GroupIndex == Len(app_configs) + 1

\* A subscription that was not seen before.
NewGroup(e) ==
  /\ KeyOf(e.dds) \notin DOMAIN topicIndex
  /\ app_configs' = Append(app_configs, [dds |-> KeyOf(e.dds),
                                         topicType |-> TopicTypes[e.dds.type],
                                         mappings |-> <<MappingOf(e)>>])
  /\ topicIndex' = [k \in DOMAIN topicIndex \cup {KeyOf(e.dds)} |->
                      IF k \in DOMAIN topicIndex THEN topicIndex[k] ELSE GroupIndex]

JoinGroup(e) ==
  /\ KeyOf(e.dds) \in DOMAIN topicIndex
  /\ app_configs' = [app_configs EXCEPT ![topicIndex[KeyOf(e.dds)]].mappings =
                       Append(@, MappingOf(e))]
  /\ UNCHANGED topicIndex

LoadEntry ==
  /\ status = "loading" /\ entry \in DOMAIN document.mappings
  /\ LET e == document.mappings[entry]
     IN  IF Accepted(e)
         THEN /\ NewGroup(e) \/ JoinGroup(e)
              /\ entry' = entry + 1
              /\ UNCHANGED status
         ELSE /\ status' = "threw"
              /\ UNCHANGED <<entry, app_configs, topicIndex>>
  /\ UNCHANGED <<document, output>>

Finish ==
  /\ status = "loading" /\ entry \notin DOMAIN document.mappings
  /\ status' = IF app_configs = <<>> THEN "threw" ELSE "returned"
  /\ UNCHANGED <<document, entry, output, app_configs, topicIndex>>

Next == LoadEntry \/ Finish

Spec == Init /\ [][Next]_vars

-----------------------------------------------------------------------------
(* Properties.                                                             *)

\* Type invariant: what is loaded is what the engines are built from, and
\* every index that is noted is one of app_configs.
TypeOK ==
  /\ document \in Documents /\ entry \in 1..Len(document.mappings) + 1
  /\ status \in {"loading", "returned", "threw"}
  /\ \A k \in DOMAIN topicIndex : topicIndex[k] \in DOMAIN app_configs
  /\ \A i \in DOMAIN app_configs :
       /\ app_configs[i].topicType \in {"Analog", "Stick", "Button"}
       /\ \A k \in DOMAIN app_configs[i].mappings :
            [app_configs[i].mappings[k] EXCEPT !.deadzone = 0] \in MappingDefinition

\* ms  are the mappings of one subscription, among the first  n  of the file
\* and in their order.
InFileOrder(ms, key, n) ==
  \E at \in [DOMAIN ms -> 1..n] :
    /\ \A j, k \in DOMAIN ms : j < k => at[j] < at[k]
    /\ {at[k] : k \in DOMAIN ms} =
         {j \in 1..n : KeyOf(document.mappings[j].dds) = key}
    /\ \A k \in DOMAIN ms : ms[k] = MappingOf(document.mappings[at[k]])

\* Grouping loses, doubles and reorders nothing: each subscription of the file
\* has one AppConfig, with exactly its mappings in the order of the file,
\* which decides between last writers in the engine.
GroupsAreTheFile ==
  status = "returned" =>
    /\ {app_configs[i].dds : i \in DOMAIN app_configs} =
         {KeyOf(document.mappings[i].dds) : i \in DOMAIN document.mappings}
    /\ \A i, j \in DOMAIN app_configs :
         app_configs[i].dds = app_configs[j].dds => i = j
    /\ \A i \in DOMAIN app_configs :
         InFileOrder(app_configs[i].mappings, app_configs[i].dds,
                     Len(document.mappings))

\* Every mapping can be served by the handler that its AppConfig becomes: the
\* handler's samples have its field, and its kind of channel takes the value;
\* its deadzone, but for a button, is one.
OnlyServable ==
  \A i \in DOMAIN app_configs : \A k \in DOMAIN app_configs[i].mappings :
    LET m == app_configs[i].mappings[k] IN
    /\ m.field \in FieldsOf(app_configs[i].topicType)
    /\ m.channelType \in ChannelsOf(app_configs[i].topicType)
    /\ m.channelType # "Button" => m.deadzone \in 0..Unit
=============================================================================
