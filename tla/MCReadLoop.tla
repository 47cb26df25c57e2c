---------------------------- MODULE MCReadLoop ----------------------------
(***************************************************************************)
(* Instances of ReadLoop in the shape of config/gunner.yaml: the turret's  *)
(* two additive analog sources, two sticks, one with a single axis mapped, *)
(* and a button, one subscription for each type; and the button alone.     *)
(* Yoke 7 is ours, yoke 8 another seat.                                    *)
(***************************************************************************)
EXTENDS ReadLoop

Plain ==
  [name |-> "", id |-> 0, field |-> "value", target |-> "",
   channelType |-> "Axis", scale |-> 4, deadzone |-> 0, invert |-> FALSE,
   has_input_range |-> FALSE, input_min |-> 0, input_max |-> 4,
   additive |-> FALSE]

PitchUp ==
  [Plain EXCEPT !.name = "turret_pitch_up", !.id = 2,
                !.target = "axis:left_y", !.deadzone = 1, !.additive = TRUE]

PitchDown ==
  [PitchUp EXCEPT !.name = "turret_pitch_down", !.id = 1, !.invert = TRUE]

Fire ==
  [Plain EXCEPT !.name = "fire_3", !.id = 3, !.field = "btnState",
                !.target = "button:a", !.channelType = "Button"]

StickX ==
  [Plain EXCEPT !.name = "steer", !.id = 5, !.field = "x",
                !.target = "axis:left_x", !.deadzone = 1]

StickY ==
  [Plain EXCEPT !.name = "tilt", !.id = 5, !.field = "y",
                !.target = "axis:right_y"]

\* A stick of which only one axis is mapped.
Yaw ==
  [Plain EXCEPT !.name = "yaw", !.id = 6, !.field = "x",
                !.target = "axis:right_x"]

From(reader, role, yoke) ==
  [reader |-> reader, id |-> [role |-> role, sub_role |-> yoke],
   another_id |-> [role |-> 0, sub_role |-> 0]]

\* A source that leaves its id empty and names itself in another_id.
FromAnother(reader, role, yoke) ==
  [reader |-> reader, id |-> [role |-> 0, sub_role |-> 0],
   another_id |-> [role |-> role, sub_role |-> yoke]]

GunnerHandlers ==
  <<[type |-> "Analog", mappings |-> <<PitchUp, PitchDown>>],
    [type |-> "Stick", mappings |-> <<StickX, StickY, Yaw>>],
    [type |-> "Button", mappings |-> <<Fire>>]>>

\* The second source and the one of yoke 8 share an instance.
GunnerSources ==
  {From(1, 2, 7), FromAnother(1, 1, 7), FromAnother(1, 2, 8),
   From(2, 5, 7), From(2, 6, 7), From(3, 3, 7)}

FireHandlers == <<[type |-> "Button", mappings |-> <<Fire>>]>>
FireSources == {From(1, 3, 7)}

PitchValues == {-3, 4}
=============================================================================
