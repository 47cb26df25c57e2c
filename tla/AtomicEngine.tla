---------------------------- MODULE AtomicEngine ----------------------------
(***************************************************************************)
(* What mapper::MappingEngine::Apply promises its caller, AppRunner's read *)
(* loop: one call is one step, which a function of the engine's state, the *)
(* channels and the message decides.  MappingEngine, whose loop changes    *)
(* both mapping by mapping, implements it with Mapper's Apply as that      *)
(* function.                                                               *)
(***************************************************************************)
CONSTANTS
  Messages,         \* the calls that can be made
  Seed,             \* the additive state of a new engine
  Applied(_, _, _)  \* the effect of one call

VARIABLES additive_state, channels, updated

vars == <<additive_state, channels, updated>>

Init ==
  /\ additive_state = Seed
  /\ channels = [t \in {} |-> 0]
  /\ updated = FALSE

Receive(a) ==
  LET s == Applied(additive_state, channels, a)
  IN  /\ additive_state' = s.additive_state
      /\ channels' = s.channels
      /\ updated' = s.updated

Next == \E a \in Messages : Receive(a)

Spec == Init /\ [][Next]_vars
=============================================================================
