--------------------------- MODULE AppRunnerProofs ---------------------------
(***************************************************************************)
(* Proofs about VigemClient and about AppRunner, for any handles and       *)
(* listeners and any number of runs.  The client never misuses its         *)
(* library, owns exactly the handles that are live, and leaves nothing     *)
(* behind.  The runner keeps to the calls that the client allows, so what  *)
(* is proved of the client holds here; and whichever step of a run fails,  *)
(* its clean-up included, everything is given back, the error is that of   *)
(* this run, and no listener is called that is gone.                       *)
(***************************************************************************)
EXTENDS AppRunner, TLAPS

-----------------------------------------------------------------------------
(* The client.  The invariant ties its five members to the library's       *)
(* state; none of its three facts is inductive without the others.         *)

\* The library's state is the one the members tell of.
Mirror ==
  /\ driver.misused = {}
  /\ driver.live = {client_, target_} \ {Null}
  /\ driver.connected = IF connected_ THEN {client_} ELSE {}
  /\ driver.plugged = IF controller_added_ THEN {target_} ELSE {}

\* What the flags promise of the handles.
Flags ==
  /\ connected_ => client_ # Null
  /\ controller_added_ => connected_ /\ target_ # Null
  /\ client_ # Null => client_ # target_
  /\ ~alive => client_ = Null /\ target_ = Null

IInv == TypeOK /\ Mirror /\ Flags

\* The states of the client library.
Library == [live : SUBSET Handles, connected : SUBSET Handles,
            plugged : SUBSET Handles, misused : SUBSET Handles,
            stranded : BOOLEAN]

LEMMA InitIInv == Init => IInv
<1> SUFFICES ASSUME Init PROVE IInv
  OBVIOUS
<1>1. NoHandles \in Library
  BY DEF NoHandles, Library
<1>2. TypeOK
  BY <1>1 DEF Init, TypeOK, Library
<1>3. Mirror
  BY DEF Init, Mirror, NoHandles
<1>4. Flags
  BY DEF Init, Flags
<1> QED
  BY <1>2, <1>3, <1>4 DEF IInv

\* A library with one field replaced.
LEMMA FieldReplaced ==
  ASSUME NEW d \in Library, NEW s
  PROVE  /\ [d EXCEPT !.live = s] =
              [live |-> s, connected |-> d.connected, plugged |-> d.plugged,
               misused |-> d.misused, stranded |-> d.stranded]
         /\ [d EXCEPT !.connected = s] =
              [live |-> d.live, connected |-> s, plugged |-> d.plugged,
               misused |-> d.misused, stranded |-> d.stranded]
         /\ [d EXCEPT !.plugged = s] =
              [live |-> d.live, connected |-> d.connected, plugged |-> s,
               misused |-> d.misused, stranded |-> d.stranded]
         /\ [d EXCEPT !.stranded = s] =
              [live |-> d.live, connected |-> d.connected, plugged |-> d.plugged,
               misused |-> d.misused, stranded |-> s]
BY DEF Library

LEMMA LegalUse ==
  ASSUME NEW d, NEW h, NEW legal, legal
  PROVE  Used(d, h, legal) = d
BY DEF Used

\* What a legal call of the library does, as a record.
LEMMA CallResults ==
  ASSUME NEW d \in Library, d.misused = {}, NEW h \in Handles
  PROVE  /\ Alloc(d, h) = [live |-> d.live \cup {h}, connected |-> d.connected,
                           plugged |-> d.plugged, misused |-> {}, stranded |-> d.stranded]
         /\ h \in d.live \ d.connected =>
              /\ TryConnect(d, h) = d
              /\ BusConnect(d, h) =
                   [live |-> d.live, connected |-> d.connected \cup {h},
                    plugged |-> d.plugged, misused |-> {}, stranded |-> d.stranded]
         /\ h \in d.connected =>
              BusDisconnect(d, h) =
                [live |-> d.live, connected |-> d.connected \ {h},
                 plugged |-> d.plugged, misused |-> {}, stranded |-> d.stranded]
         /\ h \in d.live \ (d.connected \cup d.plugged) =>
              Free(d, h) = [live |-> d.live \ {h}, connected |-> d.connected,
                            plugged |-> d.plugged, misused |-> {}, stranded |-> d.stranded]
<1>1. Alloc(d, h) = [d EXCEPT !.live = d.live \cup {h}]
  BY DEF Alloc
<1>2. ASSUME h \in d.live \ d.connected
      PROVE  /\ TryConnect(d, h) = d
             /\ BusConnect(d, h) = [d EXCEPT !.connected = d.connected \cup {h}]
  BY <1>2, LegalUse, Zenon DEF TryConnect, BusConnect
<1>3. ASSUME h \in d.connected
      PROVE  BusDisconnect(d, h) = [d EXCEPT !.connected = d.connected \ {h}]
  BY <1>3, LegalUse, Zenon DEF BusDisconnect
<1>4. ASSUME h \in d.live \ (d.connected \cup d.plugged)
      PROVE  Free(d, h) = [d EXCEPT !.live = d.live \ {h}]
  BY <1>4, LegalUse, Zenon DEF Free
<1>5. Alloc(d, h) = [live |-> d.live \cup {h}, connected |-> d.connected,
                     plugged |-> d.plugged, misused |-> {}, stranded |-> d.stranded]
  BY <1>1, FieldReplaced, Zenon
<1>6. ASSUME h \in d.connected
      PROVE  BusDisconnect(d, h) =
               [live |-> d.live, connected |-> d.connected \ {h},
                plugged |-> d.plugged, misused |-> {}, stranded |-> d.stranded]
  BY <1>3, <1>6, FieldReplaced, Zenon
<1> QED
  BY <1>2, <1>4, <1>5, <1>6, FieldReplaced, Zenon

LEMMA PadCallResults ==
  ASSUME NEW d \in Library, d.misused = {},
         NEW c \in d.connected, NEW t \in Handles
  PROVE  /\ t \in d.live \ d.plugged =>
              /\ TryPlugIn(d, c, t) = d
              /\ PlugIn(d, c, t) =
                   [live |-> d.live, connected |-> d.connected,
                    plugged |-> d.plugged \cup {t}, misused |-> {}, stranded |-> d.stranded]
         /\ t \in d.plugged =>
              /\ Submit(d, c, t) = d
              /\ Unplug(d, c, t) =
                   [live |-> d.live, connected |-> d.connected,
                    plugged |-> d.plugged \ {t}, misused |-> {}, stranded |-> d.stranded]
              /\ RefuseUnplug(d, c, t) =
                   [live |-> d.live, connected |-> d.connected,
                    plugged |-> d.plugged \ {t}, misused |-> {}, stranded |-> TRUE]
<1>1. ASSUME t \in d.live \ d.plugged
      PROVE  /\ TryPlugIn(d, c, t) = d
             /\ PlugIn(d, c, t) = [d EXCEPT !.plugged = d.plugged \cup {t}]
  BY <1>1, LegalUse, Zenon DEF TryPlugIn, PlugIn
<1>2. ASSUME t \in d.plugged
      PROVE  /\ Submit(d, c, t) = d
             /\ Unplug(d, c, t) = [d EXCEPT !.plugged = d.plugged \ {t}]
  BY <1>2, LegalUse, Zenon DEF Submit, Unplug
<1>3. ASSUME t \in d.plugged
      PROVE  RefuseUnplug(d, c, t) =
               [live |-> d.live, connected |-> d.connected,
                plugged |-> d.plugged \ {t}, misused |-> {}, stranded |-> TRUE]
  <2>1. Unplug(d, c, t) =
          [live |-> d.live, connected |-> d.connected,
           plugged |-> d.plugged \ {t}, misused |-> {}, stranded |-> d.stranded]
    BY <1>2, <1>3, FieldReplaced, Zenon
  <2>2. Unplug(d, c, t) \in Library
    BY <2>1 DEF Library
  <2>3. RefuseUnplug(d, c, t) =
          [live |-> Unplug(d, c, t).live, connected |-> Unplug(d, c, t).connected,
           plugged |-> Unplug(d, c, t).plugged, misused |-> Unplug(d, c, t).misused,
           stranded |-> TRUE]
    BY <2>2, FieldReplaced, Zenon DEF RefuseUnplug
  <2> QED
    BY <2>1, <2>3
<1> QED
  BY <1>1, <1>2, <1>3, FieldReplaced, Zenon

\* What the code goes on with after  if (!held) held = alloc() .
LEMMA EnsuredHandle ==
  ASSUME driver \in Library, driver.misused = {},
         NEW held \in Handles \cup {Null}, held # Null => held \in driver.live,
         NEW e \in Ensured(held)
  PROVE  /\ e.handle \in Handles
         /\ e.driver = [live |-> driver.live \cup {e.handle},
                        connected |-> driver.connected,
                        plugged |-> driver.plugged, misused |-> {},
                        stranded |-> driver.stranded]
         /\ IF held = Null THEN e.handle \notin driver.live ELSE e.handle = held
<1>1. CASE held # Null
  <2>1. e = [handle |-> held, driver |-> driver]
    BY <1>1 DEF Ensured
  <2>2. driver = [live |-> driver.live \cup {held}, connected |-> driver.connected,
                  plugged |-> driver.plugged, misused |-> {},
                  stranded |-> driver.stranded]
    BY <1>1 DEF Library
  <2> QED
    BY <1>1, <2>1, <2>2
<1>2. CASE held = Null
  <2>1. PICK h \in Handles \ driver.live :
          e = [handle |-> h, driver |-> Alloc(driver, h)]
    BY <1>2 DEF Ensured
  <2>2. e.handle = h /\ e.driver = Alloc(driver, h)
    BY <2>1
  <2> QED
    BY <1>2, <2>2, CallResults
<1> QED
  BY <1>1, <1>2

LEMMA ConnectIInv == IInv /\ Connect => IInv'
<1> SUFFICES ASSUME IInv, Connect PROVE IInv'
  OBVIOUS
<1>t. driver \in Library /\ TypeOK /\ Mirror /\ Flags
  BY DEF IInv, TypeOK, Library
<1>1. CASE UNCHANGED <<client_, connected_, driver>> /\ threw' \in BOOLEAN
  BY <1>1, <1>t DEF Connect, updateVars, IInv, TypeOK, Mirror, Flags
<1>2. ASSUME ~connected_, NEW e \in Ensured(client_), NEW ok \in BOOLEAN,
             client_' = e.handle,
             driver' = IF ok THEN BusConnect(e.driver, e.handle)
                       ELSE TryConnect(e.driver, e.handle),
             connected_' = ok, threw' = ~ok
      PROVE  IInv'
  <2>1. client_ # Null => client_ \in driver.live
    BY <1>t DEF Mirror
  <2>2. /\ e.handle \in Handles
        /\ e.driver = [live |-> driver.live \cup {e.handle},
                       connected |-> driver.connected,
                       plugged |-> driver.plugged, misused |-> {},
                       stranded |-> driver.stranded]
        /\ IF client_ = Null THEN e.handle \notin driver.live
           ELSE e.handle = client_
    BY <1>t, <2>1, EnsuredHandle DEF TypeOK, Mirror
  <2>3. driver.connected = {} /\ driver.plugged = {} /\ ~controller_added_
    BY <1>2, <1>t DEF Mirror, Flags, TypeOK
  <2>4. e.driver \in Library
    BY <2>2, <1>t DEF Library
  <2>5. driver' = [live |-> e.driver.live,
                   connected |-> IF ok THEN {e.handle} ELSE {},
                   plugged |-> {}, misused |-> {}, stranded |-> driver.stranded]
    <3>1. /\ e.handle \in e.driver.live \ e.driver.connected
          /\ e.driver.connected = {} /\ e.driver.plugged = {}
          /\ e.driver.misused = {} /\ e.driver.stranded = driver.stranded
      BY <2>2, <2>3
    <3>2. /\ TryConnect(e.driver, e.handle) = e.driver
          /\ BusConnect(e.driver, e.handle) =
               [live |-> e.driver.live, connected |-> {} \cup {e.handle},
                plugged |-> {}, misused |-> {}, stranded |-> driver.stranded]
      BY <2>2, <2>4, <3>1, CallResults, Zenon
    <3>3. CASE ok
      BY <1>2, <3>2, <3>3
    <3>4. CASE ~ok
      BY <1>2, <3>1, <3>2, <3>4, <2>4 DEF Library
    <3> QED
      BY <3>3, <3>4
  <2>6. e.driver.live = {e.handle, target_} \ {Null} /\ e.handle # target_
    <3>1. /\ driver.live = {client_, target_} \ {Null}
          /\ client_ # Null => client_ # target_
          /\ target_ # Null => target_ \in driver.live
          /\ e.handle # Null
      BY <1>t, <2>2, NullAssumption DEF Mirror, Flags
    <3>2. e.driver.live = driver.live \cup {e.handle}
      BY <2>2
    <3> QED
      BY <2>2, <3>1, <3>2
  <2>7. UNCHANGED <<alive, target_, controller_added_, tx_state_listener_>>
        /\ UNCHANGED updateVars
    BY DEF Connect
  <2>8. TypeOK'
    <3>1. driver' \in Library
      BY <2>2, <2>4, <2>5 DEF Library
    <3> QED
      BY <1>2, <1>t, <2>2, <2>7, <3>1 DEF TypeOK, updateVars, Library
  <2>9. Mirror'
    BY <1>2, <2>3, <2>5, <2>6, <2>7 DEF Mirror
  <2>10. Flags'
    BY <1>2, <1>t, <2>2, <2>3, <2>6, <2>7, NullAssumption DEF Flags, Connect
  <2> QED
    BY <2>8, <2>9, <2>10 DEF IInv
<1> QED
  BY <1>1, <1>2 DEF Connect

LEMMA AddX360ControllerIInv == IInv /\ AddX360Controller => IInv'
<1> SUFFICES ASSUME IInv, AddX360Controller PROVE IInv'
  OBVIOUS
<1>t. driver \in Library /\ TypeOK /\ Mirror /\ Flags
  BY DEF IInv, TypeOK, Library
<1>1. CASE UNCHANGED <<target_, controller_added_, driver>> /\ threw' \in BOOLEAN
  BY <1>1, <1>t DEF AddX360Controller, updateVars, IInv, TypeOK, Mirror, Flags
<1>2. ASSUME connected_, ~controller_added_,
             NEW e \in Ensured(target_), NEW ok \in BOOLEAN,
             target_' = e.handle,
             driver' = IF ok THEN PlugIn(e.driver, client_, e.handle)
                       ELSE TryPlugIn(e.driver, client_, e.handle),
             controller_added_' = ok, threw' = ~ok
      PROVE  IInv'
  <2>1. target_ # Null => target_ \in driver.live
    BY <1>t DEF Mirror
  <2>2. /\ e.handle \in Handles
        /\ e.driver = [live |-> driver.live \cup {e.handle},
                       connected |-> driver.connected,
                       plugged |-> driver.plugged, misused |-> {},
                       stranded |-> driver.stranded]
        /\ IF target_ = Null THEN e.handle \notin driver.live
           ELSE e.handle = target_
    BY <1>t, <2>1, EnsuredHandle DEF TypeOK, Mirror
  <2>3. /\ driver.connected = {client_} /\ driver.plugged = {}
        /\ client_ \in Handles
    BY <1>2, <1>t DEF Mirror, Flags, TypeOK
  <2>4. e.driver \in Library
    BY <2>2, <1>t DEF Library
  <2>5. driver' = [live |-> e.driver.live, connected |-> {client_},
                   plugged |-> IF ok THEN {e.handle} ELSE {}, misused |-> {},
                   stranded |-> driver.stranded]
    <3>1. /\ client_ \in e.driver.connected
          /\ e.handle \in e.driver.live \ e.driver.plugged
      BY <2>2, <2>3
    <3>2. /\ e.driver.connected = {client_} /\ e.driver.plugged = {}
          /\ e.driver.misused = {} /\ e.driver.stranded = driver.stranded
      BY <2>2, <2>3
    <3>3. /\ TryPlugIn(e.driver, client_, e.handle) = e.driver
          /\ PlugIn(e.driver, client_, e.handle) =
               [live |-> e.driver.live, connected |-> e.driver.connected,
                plugged |-> e.driver.plugged \cup {e.handle}, misused |-> {},
                stranded |-> e.driver.stranded]
      <4>1. e.handle \in Handles
        BY <2>2
      <4> QED
        BY <2>4, <3>1, <3>2, <4>1, PadCallResults, Zenon
    <3>4. CASE ok
      BY <1>2, <3>2, <3>3, <3>4
    <3>5. CASE ~ok
      <4>1. driver' = e.driver
        BY <1>2, <3>3, <3>5
      <4> QED
        BY <3>2, <3>3, <3>5, <4>1, <2>4 DEF Library
    <3> QED
      BY <3>4, <3>5
  <2>6. e.driver.live = {client_, e.handle} \ {Null} /\ e.handle # client_
    BY <2>2, <2>3, <1>t, NullAssumption DEF Mirror, Flags
  <2>7. UNCHANGED <<alive, client_, connected_, tx_state_listener_>>
        /\ UNCHANGED updateVars
    BY DEF AddX360Controller
  <2>8. TypeOK'
    <3>1. driver' \in Library
      BY <2>2, <2>3, <2>4, <2>5 DEF Library
    <3> QED
      BY <1>2, <1>t, <2>2, <2>7, <3>1 DEF TypeOK, updateVars, Library
  <2>9. Mirror'
    BY <1>2, <2>3, <2>5, <2>6, <2>7 DEF Mirror
  <2>10. Flags'
    BY <1>2, <1>t, <2>2, <2>3, <2>6, <2>7, NullAssumption
    DEF Flags, AddX360Controller
  <2> QED
    BY <2>8, <2>9, <2>10 DEF IInv
<1> QED
  BY <1>1, <1>2 DEF AddX360Controller

LEMMA UpdateIInv ==
  ASSUME IInv, NEW listener \in Listeners \cup {Null}, Update(listener)
  PROVE  IInv'
<1>1. driver' = driver
  <2>1. controller_added_ => client_ \in driver.connected /\ target_ \in driver.plugged
    BY DEF IInv, Mirror, Flags
  <2> QED
    BY <2>1 DEF Update, Submit, Used
<1> QED
  BY <1>1 DEF Update, handleVars, IInv, TypeOK, Mirror, Flags

LEMMA DisconnectClears ==
  ASSUME IInv, Disconnect
  PROVE  /\ \E stranded \in BOOLEAN :
              driver' = [NoHandles EXCEPT !.stranded = stranded]
         /\ client_' = Null /\ target_' = Null
         /\ connected_' = FALSE /\ controller_added_' = FALSE
<1>ok. PICK ok \in BOOLEAN : driver' = ClientFreed(TargetFreed(Removed(driver, ok)))
  BY DEF Disconnect
<1> DEFINE removed == Removed(driver, ok)
           stranded == IF controller_added_ /\ ~ok THEN TRUE ELSE driver.stranded
           freed == TargetFreed(removed)
           Empty == [NoHandles EXCEPT !.stranded = stranded]
           Without(l) == [live |-> l, connected |-> driver.connected,
                          plugged |-> {}, misused |-> {}, stranded |-> stranded]
<1>t. /\ driver \in Library /\ TypeOK /\ Mirror /\ Flags
  BY DEF IInv, TypeOK, Library
<1>s. stranded \in BOOLEAN
  BY <1>t DEF Library
<1>c. stranded = IF controller_added_ /\ ~ok THEN TRUE ELSE driver.stranded
  OBVIOUS
<1> HIDE DEF stranded
<1>e. Empty = [live |-> {}, connected |-> {}, plugged |-> {}, misused |-> {},
               stranded |-> stranded]
  <2>1. NoHandles \in Library
    BY DEF NoHandles, Library
  <2> QED
    BY <2>1, FieldReplaced DEF NoHandles
<1> HIDE DEF Empty
<1>1. removed = Without(driver.live) /\ removed \in Library
  <2>1. CASE controller_added_
    <3>1. /\ client_ \in driver.connected /\ target_ \in driver.plugged
          /\ target_ \in Handles /\ driver.plugged \ {target_} = {}
          /\ client_ # Null /\ target_ # Null
      BY <2>1, <1>t DEF Mirror, Flags, TypeOK
    <3>2. removed = IF ok THEN Unplug(driver, client_, target_)
                    ELSE RefuseUnplug(driver, client_, target_)
      BY <2>1, <3>1 DEF Removed
    <3>3. stranded = IF ok THEN driver.stranded ELSE TRUE
      BY <1>c, <2>1
    <3>4. removed = Without(driver.live)
      <4>1. CASE ok
        BY <3>1, <3>2, <3>3, <4>1, <1>t, PadCallResults DEF Mirror
      <4>2. CASE ~ok
        BY <3>1, <3>2, <3>3, <4>2, <1>t, PadCallResults DEF Mirror
      <4> QED
        BY <4>1, <4>2
    <3> QED
      BY <3>4, <1>s, <1>t DEF Library
  <2>2. CASE ~controller_added_
    <3>1. removed = driver /\ driver.plugged = {} /\ driver.misused = {}
      BY <2>2, <1>t DEF Removed, Mirror
    <3>2. stranded = driver.stranded
      BY <1>c, <2>2
    <3> QED
      BY <3>1, <3>2, <1>t DEF Library
  <2> QED
    BY <2>1, <2>2
<1>2. freed = Without({client_} \ {Null}) /\ freed \in Library
  <2>1. CASE target_ # Null
    <3>1. /\ target_ \in Handles
          /\ target_ \in removed.live \ (removed.connected \cup removed.plugged)
          /\ removed.live \ {target_} = {client_} \ {Null}
          /\ removed.misused = {}
      <4>1. /\ removed.live = driver.live /\ removed.connected = driver.connected
            /\ removed.plugged = {} /\ removed.misused = {}
        BY <1>1
      <4>2. /\ target_ \in Handles /\ target_ \in driver.live
            /\ target_ \notin driver.connected
            /\ driver.live \ {target_} = {client_} \ {Null}
        BY <2>1, <1>t DEF Mirror, Flags, TypeOK
      <4> QED
        BY <4>1, <4>2
    <3>2. freed = Free(removed, target_)
      BY <2>1 DEF TargetFreed
    <3>3. freed = [live |-> removed.live \ {target_}, connected |-> removed.connected,
                   plugged |-> removed.plugged, misused |-> {},
                   stranded |-> removed.stranded]
      BY <3>1, <3>2, <1>1, CallResults
    <3> QED
      BY <3>1, <3>3, <1>1 DEF Library
  <2>2. CASE target_ = Null
    <3>1. freed = removed /\ driver.live = {client_} \ {Null}
      BY <2>2, <1>t DEF TargetFreed, Mirror
    <3> QED
      BY <3>1, <1>1
  <2> QED
    BY <2>1, <2>2
<1>3. ClientFreed(freed) = Empty
  <2>1. CASE client_ = Null
    BY <2>1, <1>2, <1>e, <1>t DEF ClientFreed, Mirror, Flags
  <2>2. CASE client_ # Null
    <3> DEFINE closed == IF connected_ THEN BusDisconnect(freed, client_) ELSE freed
    <3>1. client_ \in Handles /\ freed.misused = {} /\ freed.live = {client_}
      <4>1. client_ \in Handles /\ {client_} \ {Null} = {client_}
        BY <2>2, <1>t DEF TypeOK
      <4>2. freed.misused = {} /\ freed.live = {client_} \ {Null}
        BY <1>2
      <4> QED
        BY <4>1, <4>2
    <3>2. closed = [live |-> {client_}, connected |-> {}, plugged |-> {},
                    misused |-> {}, stranded |-> stranded]
      <4>1. CASE connected_
        <5>1. freed.connected = {client_} /\ freed.plugged = {}
          BY <4>1, <1>2, <1>t DEF Mirror
        <5>2. freed.connected \ {client_} = {}
          BY <5>1
        <5>3. closed = [live |-> freed.live, connected |-> freed.connected \ {client_},
                        plugged |-> freed.plugged, misused |-> {},
                        stranded |-> freed.stranded]
          BY <4>1, <3>1, <1>2, <5>1, CallResults
        <5> QED
          BY <3>1, <1>2, <5>1, <5>2, <5>3
      <4>2. CASE ~connected_
        <5>1. freed.connected = {} /\ {client_} \ {Null} = {client_}
          BY <4>2, <1>2, <1>t, <2>2 DEF Mirror
        <5> QED
          BY <4>2, <1>2, <5>1
      <4> QED
        BY <4>1, <4>2
    <3>3. /\ closed \in Library
          /\ client_ \in closed.live \ (closed.connected \cup closed.plugged)
      BY <3>1, <3>2, <1>s DEF Library
    <3>4. Free(closed, client_) = Empty
      <4>1. /\ closed.live \ {client_} = {} /\ closed.connected = {}
            /\ closed.plugged = {} /\ closed.misused = {}
        BY <3>2
      <4>2. Free(closed, client_) =
              [live |-> closed.live \ {client_}, connected |-> closed.connected,
               plugged |-> closed.plugged, misused |-> {}, stranded |-> closed.stranded]
        BY <3>1, <3>3, <4>1, CallResults, Zenon
      <4> QED
        BY <4>1, <4>2, <3>2, <1>e
    <3> QED
      BY <2>2, <3>4 DEF ClientFreed
  <2> QED
    BY <2>1, <2>2
<1>4. ~(connected_ /\ client_ = Null)
  BY <1>t DEF Flags
<1>5. ~(controller_added_ /\ (client_ = Null \/ target_ = Null))
  BY <1>t DEF Flags
<1> QED
  BY <1>ok, <1>s, <1>3, <1>4, <1>5 DEF Disconnect, Empty

LEMMA StepIInv == IInv /\ [Next]_vars => IInv'
<1> SUFFICES ASSUME IInv, [Next]_vars PROVE IInv'
  OBVIOUS
<1>1. CASE Construct
  BY <1>1, NullAssumption DEF Construct, IInv, TypeOK, Mirror, Flags
<1>2. CASE Connect
  BY <1>2, ConnectIInv
<1>3. CASE AddX360Controller
  BY <1>3, AddX360ControllerIInv
<1>4. CASE UpdateState
  <2>1. tx_state_listener_ \in Listeners \cup {Null}
    BY DEF IInv, TypeOK
  <2> QED
    BY <1>4, <2>1, UpdateIInv DEF UpdateState
<1>5. CASE UpdateRightTrigger
  BY <1>5, UpdateIInv DEF UpdateRightTrigger
<1>6. CASE \E listener \in Listeners \cup {Null} : SetTxStateListener(listener)
  <2>1. PICK listener \in Listeners \cup {Null} : SetTxStateListener(listener)
    BY <1>6
  <2>2. TypeOK'
    BY <2>1 DEF SetTxStateListener, handleVars, updateVars, IInv, TypeOK
  <2>3. Mirror' /\ Flags'
    BY <2>1 DEF SetTxStateListener, handleVars, IInv, Mirror, Flags
  <2> QED
    BY <2>2, <2>3 DEF IInv
<1>7. CASE Destroy
  <2>1. /\ client_' = Null /\ target_' = Null
        /\ connected_' = FALSE /\ controller_added_' = FALSE
    BY <1>7, DisconnectClears DEF Destroy
  <2>2. PICK stranded \in BOOLEAN :
          driver' = [NoHandles EXCEPT !.stranded = stranded]
    BY <1>7, DisconnectClears DEF Destroy
  <2> QED
    BY <1>7, <2>1, <2>2, NullAssumption
    DEF Destroy, NoHandles, updateVars, IInv, TypeOK, Mirror, Flags
<1>8. CASE UNCHANGED vars
  BY <1>8 DEF vars, handleVars, updateVars, IInv, TypeOK, Mirror, Flags
<1> QED
  BY <1>1, <1>2, <1>3, <1>4, <1>5, <1>6, <1>7, <1>8 DEF Next

LEMMA SpecIInv == Spec => []IInv
<1> QED
  BY InitIInv, StepIInv, PTL DEF Spec

\* VigemClient keeps its members within their types.
THEOREM TypeCorrect == Spec => []TypeOK
<1>1. IInv => TypeOK
  BY DEF IInv
<1> QED
  BY <1>1, SpecIInv, PTL

\* The client library is never misused, whatever fails, the removal of the pad
\* included, and whatever is called again.
THEOREM NeverMisused == Spec => []LibraryNeverMisused
<1>1. IInv => LibraryNeverMisused
  BY DEF IInv, Mirror, LibraryNeverMisused
<1> QED
  BY <1>1, SpecIInv, PTL

\* VigemClient owns exactly the live handles, and its destructor gives every
\* handle back, also when the pad's removal is refused, which strands the pad.
THEOREM NothingLeaks == Spec => [](OwnsWhatIsLive /\ NothingLeftBehind)
<1>1. IInv => OwnsWhatIsLive /\ NothingLeftBehind
  BY DEF IInv, TypeOK, Mirror, Flags, OwnsWhatIsLive, NothingLeftBehind
<1> QED
  BY <1>1, SpecIInv, PTL

-----------------------------------------------------------------------------
(* The runner.                                                             *)

\* The runner's own variables.
OwnTypeOK ==
  /\ file \in Files
  /\ pc \in {"idle", "select", "connect", "add", "enter", "participant", "table",
             "loop", "unwind"}
  /\ overload \in Overloads /\ tableMode \in BOOLEAN
  /\ backend \in Backends /\ inForce \in Files \ {"junk"}
  /\ stop \in BOOLEAN /\ dangling \subseteq Overloads
  /\ frame \in SUBSET Listeners
  /\ exitCode \in {"none", "SUCCESS", "FAILURE"}
  /\ lastError \in {"", "missing", "load", "backend", "setup", "unhandled",
                    "runtime"}

\* A run has no result before it leaves, and its loop is entered without an
\* error.
Errors ==
  /\ pc \notin {"idle", "unwind"} => exitCode = "none"
  /\ pc \in {"participant", "table", "loop"} => lastError = ""
  /\ LastErrorIsOfLastRun

\* Where a run of the convenience overload has a client, and whom it notifies.
Ownership ==
  overload = "convenience" =>
    /\ pc \in {"idle", "select"} \/ backend = "udp_protobuf" => ~alive
    /\ alive /\ pc # "unwind" => tx_state_listener_ \in frame \cup {Null}

-----------------------------------------------------------------------------
(* The runner's steps are the client's steps.                              *)

LEMMA RunnerStepsAreClientSteps == [RunnerNext]_runnerVars => [Next]_vars
<1> SUFFICES ASSUME [RunnerNext]_runnerVars PROVE [Next]_vars
  OBVIOUS
<1>1. CASE UNCHANGED runnerVars
  BY <1>1 DEF runnerVars, clientVars
<1>2. CASE Edit \/ RequestStop \/ Call
  BY <1>2 DEF Edit, RequestStop, Call, clientVars
<1>3. CASE CallersClient
  BY <1>3 DEF CallersClient, Next
<1>4. CASE SelectBackend
  BY <1>4 DEF SelectBackend, Next, clientVars
<1>5. CASE ConnectClient \/ AddController
  BY <1>5 DEF ConnectClient, AddController, Next
<1>6. CASE Load \/ Subscribe \/ IterationThrows \/ Finish
  BY <1>6 DEF Load, Subscribe, IterationThrows, Finish, clientVars
<1>7. CASE BeginTable
  BY <1>7 DEF BeginTable, Next, clientVars
<1>8. CASE SubmitState
  BY <1>8 DEF SubmitState, Next
<1>9. CASE Unwind
  BY <1>9 DEF Unwind, Next
<1> QED
  BY <1>1, <1>2, <1>3, <1>4, <1>5, <1>6, <1>7, <1>8, <1>9 DEF RunnerNext, Run, SetUp

\* Whatever runs, callers and failures follow one another, what they do to the
\* client is a behaviour of VigemClient.
THEOREM RunnerUsesClient == RunnerSpec => Spec
<1>1. RunnerInit => Init
  BY DEF RunnerInit
<1> QED
  BY <1>1, RunnerStepsAreClientSteps, PTL DEF RunnerSpec, Spec

LEMMA RunnerIInv == RunnerSpec => []IInv
<1> QED
  BY RunnerUsesClient, SpecIInv, PTL

\* The client library is never misused by any sequence of runs.
THEOREM RunnerNeverMisuses == RunnerSpec => []LibraryNeverMisused
<1> QED
  BY RunnerUsesClient, NeverMisused, PTL

\* What is live belongs to the client, in every state of every run.
THEOREM RunnerOwnsWhatIsLive == RunnerSpec => []OwnsWhatIsLive
<1>1. IInv => OwnsWhatIsLive
  BY DEF IInv, TypeOK, Mirror, Flags, OwnsWhatIsLive
<1> QED
  BY <1>1, RunnerIInv, PTL

-----------------------------------------------------------------------------
(* The runner's own invariant, one group of actions after another.          *)

RunnerInv == OwnTypeOK /\ Errors /\ Ownership /\ ListenerAlive

LEMMA InitRunnerInv == RunnerInit => RunnerInv
BY DEF RunnerInit, Init, RunnerInv, OwnTypeOK, Errors, Ownership, ListenerAlive,
       LastErrorIsOfLastRun, Overloads, Backends, Files

\* Leaving the inner overload, with an error or with none after a success.
LEMMA LeaveKeeps ==
  ASSUME RunnerInv, NEW code, NEW error, Leave(code, error),
         UNCHANGED <<alive, tx_state_listener_>>,
         UNCHANGED <<file, overload, tableMode, backend, stop>>,
         dangling' \in SUBSET Overloads, ListenerAlive',
         inForce' \in Files \ {"junk"},
         \/ code = "SUCCESS" /\ error = ""
         \/ /\ code = "FAILURE"
            /\ error \in {"", "missing", "load", "unhandled", "runtime"}
            /\ error = "" => tableMode
  PROVE  RunnerInv'
<1>2. pc' \in {"idle", "unwind"} /\ frame' = {} /\ exitCode' = code /\ lastError' = error
  BY DEF Leave, Exit
<1>3. OwnTypeOK'
  BY <1>2 DEF RunnerInv, OwnTypeOK
<1>4. Errors'
  BY <1>2 DEF Errors, LastErrorIsOfLastRun
<1>5. overload = "convenience" /\ pc' # "unwind" => backend = "udp_protobuf"
  BY DEF Leave, OwnsClient, RunnerInv, OwnTypeOK, Backends
<1>6. Ownership'
  BY <1>2, <1>5 DEF RunnerInv, Ownership
<1> QED
  BY <1>3, <1>4, <1>6 DEF RunnerInv

LEMMA CallersInv == RunnerInv /\ (Edit \/ RequestStop \/ CallersClient \/ Call) => RunnerInv'
<1> SUFFICES ASSUME RunnerInv, Edit \/ RequestStop \/ CallersClient \/ Call PROVE RunnerInv'
  OBVIOUS
<1> USE DEF RunnerInv, OwnTypeOK, Errors, LastErrorIsOfLastRun, Ownership, ListenerAlive
<1>1. CASE Edit
  BY <1>1 DEF Edit, clientVars, vars, runVars, exitVars
<1>2. CASE RequestStop
  BY <1>2 DEF RequestStop, clientVars, vars, runVars, exitVars
<1>3. CASE CallersClient
  <2>1. overload' = "injected" /\ pc = "idle"
    BY <1>3 DEF CallersClient
  <2>2. UNCHANGED <<file, pc, tableMode, backend, inForce, stop, frame, exitCode,
                    lastError, dangling>>
    BY <1>3 DEF CallersClient, exitVars
  <2> QED
    BY <2>1, <2>2 DEF Overloads
<1>4. CASE Call
  <2>1. overload' = "convenience" => ~alive'
    BY <1>4 DEF Call, clientVars, vars
  <2>2. /\ pc' \in {"select", "enter"} /\ exitCode' = "none"
        /\ backend' = "vigem_x360" /\ stop' = FALSE
        /\ UNCHANGED <<file, inForce, frame, lastError, dangling>>
        /\ overload' \in Overloads /\ tableMode' \in BOOLEAN
    BY <1>4 DEF Call
  <2> QED
    BY <2>1, <2>2 DEF Backends
<1> QED
  BY <1>1, <1>2, <1>3, <1>4

\* The set-up of the convenience overload.
LEMMA SetUpInv ==
  RunnerInv /\ (SelectBackend \/ ConnectClient \/ AddController) => RunnerInv'
<1> SUFFICES ASSUME RunnerInv, SelectBackend \/ ConnectClient \/ AddController
             PROVE  RunnerInv'
  OBVIOUS
<1> USE DEF RunnerInv, OwnTypeOK, Errors, LastErrorIsOfLastRun, Ownership, ListenerAlive
<1>1. CASE SelectBackend
  <2>1. /\ pc = "select"
        /\ UNCHANGED <<file, overload, tableMode, inForce, stop, frame, dangling>>
    BY <1>1 DEF SelectBackend
  <2>2. CASE pc' = "connect"
    <3>1. backend' = "vigem_x360" /\ UNCHANGED <<exitCode, lastError>> /\ Construct
      BY <1>1, <2>2 DEF SelectBackend, Exit, exitVars
    <3>2. tx_state_listener_' = Null
      BY <3>1 DEF Construct
    <3> QED
      BY <2>1, <2>2, <3>1, <3>2 DEF Backends
  <2>3. CASE pc' = "enter"
    <3>1. /\ backend' \in Backends /\ UNCHANGED exitVars
          /\ UNCHANGED <<alive, tx_state_listener_>>
      BY <1>1, <2>3 DEF SelectBackend, Backends, Exit, clientVars, vars
    <3> QED
      BY <2>1, <2>3, <3>1 DEF exitVars
  <2>4. CASE pc' = "idle"
    <3>1. /\ UNCHANGED backend
          /\ exitCode' = "FAILURE" /\ lastError' \in {"missing", "load", "backend"}
          /\ UNCHANGED <<alive, tx_state_listener_>>
      BY <1>1, <2>4 DEF SelectBackend, Exit, clientVars, vars
    <3> QED
      BY <2>1, <2>4, <3>1
  <2> QED
    BY <1>1, <2>2, <2>3, <2>4 DEF SelectBackend
<1>2. CASE ConnectClient \/ AddController
  <2>1. /\ pc \in {"connect", "add"} /\ alive
        /\ UNCHANGED <<alive, tx_state_listener_, file, overload, tableMode, backend,
                       inForce, stop, frame, dangling>>
    BY <1>2 DEF ConnectClient, AddController, Connect, AddX360Controller, runVars
  <2>2. \/ pc' \in {"add", "enter"} /\ UNCHANGED <<exitCode, lastError>>
        \/ pc' = "unwind" /\ exitCode' = "FAILURE" /\ lastError' = "setup"
    BY <1>2 DEF ConnectClient, AddController, Proceed, Exit, exitVars
  <2> QED
    BY <2>1, <2>2
<1> QED
  BY <1>1, <1>2

\* The core overload, up to the loop.
LEMMA EnterInv == RunnerInv /\ (Load \/ Subscribe \/ BeginTable) => RunnerInv'
<1> SUFFICES ASSUME RunnerInv, Load \/ Subscribe \/ BeginTable PROVE RunnerInv'
  OBVIOUS
<1>t. /\ inForce \in Files \ {"junk"} /\ file \in Files
      /\ dangling \in SUBSET Overloads /\ ListenerAlive
  BY DEF RunnerInv, OwnTypeOK
<1>1. CASE Load
  <2>1. /\ UNCHANGED <<alive, tx_state_listener_>>
        /\ UNCHANGED <<file, overload, tableMode, backend, stop, dangling>>
        /\ ListenerAlive'
    BY <1>1, <1>t DEF Load, clientVars, vars, ListenerAlive
  <2>2. CASE \E error \in {"missing", "load"} :
               Leave("FAILURE", error) /\ UNCHANGED inForce
    <3>1. PICK error \in {"missing", "load"} :
            Leave("FAILURE", error) /\ UNCHANGED inForce
      BY <2>2
    <3>2. inForce' \in Files \ {"junk"} /\ dangling' \in SUBSET Overloads
      BY <1>t, <2>1, <3>1
    <3> QED
      BY <2>1, <3>1, <3>2, LeaveKeeps
  <2>3. CASE /\ pc = "enter" /\ file # "junk" /\ inForce' = file
             /\ pc' = "participant" /\ lastError' = ""
             /\ UNCHANGED <<exitCode, frame>>
    BY <1>t, <2>1, <2>3 DEF RunnerInv, OwnTypeOK, Errors, LastErrorIsOfLastRun, Ownership,
                            ListenerAlive
  <2> QED
    BY <1>1, <2>2, <2>3 DEF Load
<1>2. CASE Subscribe
  <2>1. /\ UNCHANGED <<alive, tx_state_listener_>>
        /\ UNCHANGED <<file, overload, tableMode, backend, stop, dangling>>
        /\ inForce' = inForce /\ ListenerAlive'
    BY <1>2, <1>t DEF Subscribe, clientVars, vars, runVars, ListenerAlive
  <2>2. CASE Leave("FAILURE", "unhandled")
    BY <1>t, <2>1, <2>2, LeaveKeeps
  <2>3. CASE pc = "participant" /\ pc' = "table" /\ UNCHANGED <<exitVars, frame>>
    BY <2>1, <2>3 DEF RunnerInv, OwnTypeOK, Errors, LastErrorIsOfLastRun, Ownership,
                      ListenerAlive, exitVars
  <2> QED
    BY <1>2, <2>2, <2>3 DEF Subscribe
<1>3. CASE BeginTable
  <2>1. /\ pc = "table" /\ UNCHANGED alive
        /\ UNCHANGED <<file, overload, tableMode, backend, stop, dangling>>
        /\ inForce' = inForce /\ ListenerAlive'
    BY <1>3, <1>t DEF BeginTable, SetTxStateListener, clientVars, vars, runVars,
                      ListenerAlive
  <2>2. CASE tableMode /\ Leave("FAILURE", lastError) /\ UNCHANGED clientVars
    <3>1. lastError = ""
      BY <2>1 DEF RunnerInv, Errors
    <3>2. UNCHANGED tx_state_listener_
      BY <2>2 DEF clientVars, vars
    <3>3. Leave("FAILURE", "") /\ tableMode
      BY <2>2, <3>1
    <3>4. inForce' \in Files \ {"junk"} /\ dangling' \in SUBSET Overloads
      BY <1>t, <2>1
    <3> QED
      BY <2>1, <3>2, <3>3, <3>4, LeaveKeeps
  <2>3. CASE pc' = "loop" /\ UNCHANGED <<clientVars, exitVars, frame>>
    <3>1. UNCHANGED tx_state_listener_ /\ UNCHANGED <<exitCode, lastError, frame>>
      BY <2>3 DEF clientVars, vars, exitVars
    <3> QED
      BY <2>1, <2>3, <3>1 DEF RunnerInv, OwnTypeOK, Errors, LastErrorIsOfLastRun, Ownership,
                              ListenerAlive
  <2>4. CASE /\ pc' = "loop" /\ UNCHANGED exitVars
             /\ \E l \in Listeners :
                  /\ frame' = {l}
                  /\ IF backend = "vigem_x360" THEN SetTxStateListener(l)
                     ELSE UNCHANGED clientVars
    <3>1. PICK l \in Listeners :
            /\ frame' = {l}
            /\ IF backend = "vigem_x360" THEN SetTxStateListener(l)
               ELSE UNCHANGED clientVars
      BY <2>4
    <3>2. backend = "vigem_x360" => tx_state_listener_' \in frame'
      BY <3>1 DEF SetTxStateListener
    <3>3. overload = "convenience" /\ backend # "vigem_x360" => ~alive
      BY DEF RunnerInv, OwnTypeOK, Ownership, Backends
    <3> QED
      BY <2>1, <2>4, <3>1, <3>2, <3>3
      DEF RunnerInv, OwnTypeOK, Errors, LastErrorIsOfLastRun, Ownership, ListenerAlive,
          exitVars
  <2> QED
    BY <1>3, <2>2, <2>3, <2>4 DEF BeginTable
<1> QED
  BY <1>1, <1>2, <1>3

\* The loop and the way out.
LEMMA LoopInv ==
  IInv /\ RunnerInv /\ (SubmitState \/ IterationThrows \/ Finish \/ Unwind) => RunnerInv'
<1> SUFFICES ASSUME IInv, RunnerInv, SubmitState \/ IterationThrows \/ Finish \/ Unwind
             PROVE  RunnerInv'
  OBVIOUS
<1>t. /\ inForce \in Files \ {"junk"} /\ dangling \in SUBSET Overloads /\ ListenerAlive
      /\ overload \in Overloads
  BY DEF RunnerInv, OwnTypeOK
<1>1. CASE SubmitState
  <2>1. /\ pc = "loop" /\ backend = "vigem_x360" /\ alive
        /\ UNCHANGED <<alive, tx_state_listener_>>
        /\ UNCHANGED <<file, overload, tableMode, backend, stop>>
        /\ inForce' = inForce
        /\ notified' \in {tx_state_listener_, Null}
    BY <1>1 DEF SubmitState, UpdateState, Update, runVars
  <2>2. overload = "convenience" => notified' \in frame \cup {Null}
    BY <2>1 DEF RunnerInv, Ownership
  <2>3. dangling' \in SUBSET Overloads /\ ListenerAlive'
    BY <1>1, <1>t, <2>2 DEF SubmitState, ListenerAlive
  <2>4. CASE UNCHANGED <<pc, exitVars, frame>>
    BY <2>1, <2>3, <2>4 DEF RunnerInv, OwnTypeOK, Errors, LastErrorIsOfLastRun, Ownership,
                            exitVars
  <2>5. CASE Leave("FAILURE", "runtime")
    BY <1>t, <2>1, <2>3, <2>5, LeaveKeeps
  <2> QED
    BY <1>1, <2>4, <2>5 DEF SubmitState
<1>2. CASE IterationThrows
  BY <1>2, <1>t, LeaveKeeps DEF IterationThrows, clientVars, vars, runVars, ListenerAlive
<1>3. CASE Finish
  <2>1. lastError = ""
    BY <1>3 DEF Finish, RunnerInv, Errors
  <2> QED
    BY <1>3, <1>t, <2>1, LeaveKeeps DEF Finish, clientVars, vars, runVars, ListenerAlive
<1>4. CASE Unwind
  BY <1>4 DEF Unwind, Destroy, runVars, exitVars, RunnerInv, OwnTypeOK, Errors,
              LastErrorIsOfLastRun, Ownership, ListenerAlive
<1> QED
  BY <1>1, <1>2, <1>3, <1>4

LEMMA StepRunnerInv == IInv /\ RunnerInv /\ [RunnerNext]_runnerVars => RunnerInv'
<1> SUFFICES ASSUME IInv, RunnerInv, [RunnerNext]_runnerVars PROVE RunnerInv'
  OBVIOUS
<1>1. CASE UNCHANGED runnerVars
  BY <1>1 DEF runnerVars, clientVars, vars, runVars, exitVars, RunnerInv, OwnTypeOK, Errors,
              LastErrorIsOfLastRun, Ownership, ListenerAlive
<1>2. CASE RunnerNext
  BY <1>2, CallersInv, SetUpInv, EnterInv, LoopInv DEF RunnerNext, Run, SetUp
<1> QED
  BY <1>1, <1>2

LEMMA RunnerSpecInv == RunnerSpec => [](IInv /\ RunnerInv)
<1> QED
  BY RunnerIInv, InitRunnerInv, StepRunnerInv, PTL DEF RunnerSpec

-----------------------------------------------------------------------------

\* The runner keeps its state within its types.
THEOREM RunnerTypeCorrect == RunnerSpec => []RunnerTypeOK
<1>1. IInv /\ RunnerInv => RunnerTypeOK
  BY DEF IInv, RunnerInv, OwnTypeOK, RunnerTypeOK
<1> QED
  BY <1>1, RunnerSpecInv, PTL

\* After a run of the convenience overload, whatever failed in it or in the
\* clean-up, every handle is given back and nothing is plugged in; what may be
\* left is a pad that the library refused to remove.
THEOREM EverythingIsGivenBack == RunnerSpec => []GivenBackAfterRun
<1>1. IInv /\ RunnerInv => GivenBackAfterRun
  <2> SUFFICES ASSUME IInv, RunnerInv, pc = "idle", overload = "convenience"
               PROVE  ~alive /\ GivenBack
    BY DEF GivenBackAfterRun
  <2>1. ~alive
    BY DEF RunnerInv, Ownership
  <2>2. /\ driver.live = {} /\ driver.connected = {} /\ driver.plugged = {}
        /\ driver.misused = {}
    BY <2>1 DEF IInv, TypeOK, Mirror, Flags
  <2>3. driver = [live |-> driver.live, connected |-> driver.connected,
                  plugged |-> driver.plugged, misused |-> driver.misused,
                  stranded |-> driver.stranded]
    BY DEF IInv, TypeOK
  <2> QED
    BY <2>1, <2>2, <2>3 DEF GivenBack, NoHandles
<1> QED
  BY <1>1, RunnerSpecInv, PTL

\* The error a run leaves is its own, whatever runs went before.
THEOREM ErrorIsOfLastRun == RunnerSpec => []LastErrorIsOfLastRun
<1>1. RunnerInv => LastErrorIsOfLastRun
  BY DEF RunnerInv, Errors
<1> QED
  BY <1>1, RunnerSpecInv, PTL

\* The client that a run owns calls no listener of a run that is over.
THEOREM ListenerStaysAlive == RunnerSpec => []ListenerAlive
<1>1. RunnerInv => ListenerAlive
  BY DEF RunnerInv
<1> QED
  BY <1>1, RunnerSpecInv, PTL
=============================================================================
