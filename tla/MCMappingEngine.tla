-------------------------- MODULE MCMappingEngine --------------------------
(***************************************************************************)
(* Instances of MappingEngine in the shape of config/gunner.yaml: two      *)
(* additive sources of one axis, one of them also driving a trigger; two   *)
(* buttons that share button:a, one of them also on the d-pad; and an axis *)
(* of its own with a scale.                                                *)
(***************************************************************************)
EXTENDS XusbReport

Plain ==
  [name |-> "", id |-> 0, field |-> "value", target |-> "",
   channelType |-> "Axis", scale |-> 4, deadzone |-> 0, invert |-> FALSE,
   has_input_range |-> FALSE, input_min |-> 0, input_max |-> 4,
   additive |-> FALSE]

PitchUp ==
  [Plain EXCEPT !.name = "turret_pitch_up", !.id = 2,
                !.target = "axis:left_y", !.deadzone = 1, !.additive = TRUE]

PitchDown ==
  [PitchUp EXCEPT !.name = "turret_pitch_down", !.id = 1, !.invert = TRUE]

\* The same source as PitchDown, read over an input range.
Brake ==
  [Plain EXCEPT !.name = "brake", !.id = 1, !.target = "axis:left_trigger",
                !.channelType = "Trigger", !.has_input_range = TRUE,
                !.input_min = -4, !.invert = TRUE]

\* A source that drives an axis of its own, at double scale.
Steering ==
  [Plain EXCEPT !.name = "steering", !.id = 4, !.target = "axis:left_x",
                !.scale = 8, !.deadzone = 1]

Fire3 ==
  [Plain EXCEPT !.name = "fire_3", !.id = 3, !.field = "btnState",
                !.target = "button:a", !.channelType = "Button"]

Fire6 == [Fire3 EXCEPT !.name = "fire_6", !.id = 6]

\* A second mapping that the message of fire_6 reaches, on the same target.
Hold6 == [Fire6 EXCEPT !.name = "hold_6", !.invert = TRUE, !.scale = 2]

\* A second target of the message of fire_3.
Coax3 == [Fire3 EXCEPT !.name = "coax_select", !.target = "dpad:left"]

GunnerMappings == <<PitchUp, Brake, PitchDown, Fire3, Coax3, Fire6, Hold6>>

\* Both additive sources configured under one name: the loader allows it.
SharedNameMappings ==
  <<PitchUp, [PitchDown EXCEPT !.name = PitchUp.name], Steering>>

Samples(field, id, values) ==
  {[field |-> field, id |-> id, value |-> v] : v \in values}

GunnerMessages ==
  Samples("value", 1, {-4, -1, 3}) \cup Samples("value", 2, {-3, 2, 4})
    \cup Samples("btnState", 3, {0, 4}) \cup Samples("btnState", 6, {0, 4})
    \cup Samples("value", 9, {4})

SteeringMessages ==
  Samples("value", 1, {-4, 0, 3}) \cup Samples("value", 2, {-3, 1, 4})
    \cup Samples("value", 4, {-4, -2, -1, 0, 1, 2, 4})
=============================================================================
