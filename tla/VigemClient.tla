---------------------------- MODULE VigemClient ----------------------------
(***************************************************************************)
(* The lifecycle of VigemClient: the handles of the ViGEm client library   *)
(* that it allocates, connects, plugs in and gives back, over any sequence *)
(* of calls in which any call of the library may fail.                     *)
(*                                                                         *)
(* The library is external.  It is modelled by what its callers owe it: a  *)
(* handle is used only while it is allocated, connected once, plugged in   *)
(* once, and not freed while it is connected or plugged in.  A pad whose   *)
(* removal it refuses is the library's to keep: its handle may be freed,   *)
(* and the pad is stranded on the bus until the process ends.  What a      *)
(* report holds is the subject of XusbReport.                              *)
(***************************************************************************)
EXTENDS FiniteSets

CONSTANTS
  Handles,    \* the handles that the library gives out
  Listeners,  \* the observers that may be registered
  Null        \* nullptr

ASSUME NullAssumption == Null \notin Handles \cup Listeners

VARIABLES
  alive,               \* whether a VigemClient exists
  client_, target_,    \* its handles
  connected_, controller_added_, last_error_, tx_state_listener_,
  driver,              \* the library: its live, connected, plugged and misused
                       \* handles, and whether a pad is stranded on the bus
  threw,               \* whether the last call of the lifecycle threw
  answer,              \* history: what the last update returned
  notified             \* history: the listener that the last update called

handleVars == <<client_, target_, connected_, controller_added_>>
updateVars == <<last_error_, answer, notified>>
vars == <<alive, handleVars, updateVars, tx_state_listener_, driver, threw>>

-----------------------------------------------------------------------------
(* The library.  Each operator is the library after a call on it.          *)

NoHandles ==
  [live |-> {}, connected |-> {}, plugged |-> {}, misused |-> {}, stranded |-> FALSE]

Used(d, h, legal) == IF legal THEN d ELSE [d EXCEPT !.misused = @ \cup {h}]

Alloc(d, h) == [d EXCEPT !.live = @ \cup {h}]

Free(d, h) ==
  [Used(d, h, h \in d.live \ (d.connected \cup d.plugged)) EXCEPT !.live = @ \ {h}]

TryConnect(d, c) == Used(d, c, c \in d.live \ d.connected)

BusConnect(d, c) == [TryConnect(d, c) EXCEPT !.connected = @ \cup {c}]

BusDisconnect(d, c) ==
  [Used(d, c, c \in d.connected) EXCEPT !.connected = @ \ {c}]

TryPlugIn(d, c, t) == Used(d, t, c \in d.connected /\ t \in d.live \ d.plugged)

PlugIn(d, c, t) == [TryPlugIn(d, c, t) EXCEPT !.plugged = @ \cup {t}]

Submit(d, c, t) == Used(d, t, c \in d.connected /\ t \in d.plugged)

Unplug(d, c, t) == [Submit(d, c, t) EXCEPT !.plugged = @ \ {t}]

RefuseUnplug(d, c, t) == [Unplug(d, c, t) EXCEPT !.stranded = TRUE]

-----------------------------------------------------------------------------

Init ==
  /\ alive = FALSE
  /\ client_ = Null /\ target_ = Null
  /\ connected_ = FALSE /\ controller_added_ = FALSE
  /\ last_error_ = "" /\ tx_state_listener_ = Null
  /\ driver = NoHandles
  /\ threw = FALSE /\ answer = "none" /\ notified = Null

Construct ==
  /\ ~alive
  /\ alive' = TRUE
  /\ client_' = Null /\ target_' = Null
  /\ connected_' = FALSE /\ controller_added_' = FALSE
  /\ last_error_' = "" /\ tx_state_listener_' = Null
  /\ threw' = FALSE /\ answer' = "none" /\ notified' = Null
  /\ UNCHANGED driver

\* A slip: a retry allocates although the first attempt already did.
EnsuredAgain(held) ==
  {[handle |-> h, driver |-> Alloc(driver, h)] : h \in Handles \ driver.live}

\* if (!held) held = alloc() : the handle the code goes on with, and the
\* library by then.
Ensured(held) ==
  IF held # Null THEN {[handle |-> held, driver |-> driver]}
  ELSE {[handle |-> h, driver |-> Alloc(driver, h)] : h \in Handles \ driver.live}

\* A slip: it goes on with a client that could not be allocated.
ConnectUnallocated ==
  /\ alive /\ client_ = Null
  /\ driver' = TryConnect(driver, client_)
  /\ threw' = TRUE
  /\ UNCHANGED <<alive, handleVars, tx_state_listener_, updateVars>>

\* Throws when the client cannot be allocated or connected; a client that
\* could not be connected stays allocated.
Connect ==
  /\ alive
  /\ \/ client_ = Null /\ threw' = TRUE /\ UNCHANGED <<client_, connected_, driver>>
     \/ connected_ /\ threw' = FALSE /\ UNCHANGED <<client_, connected_, driver>>
     \/ /\ ~connected_
        /\ \E e \in Ensured(client_), ok \in BOOLEAN :
             /\ client_' = e.handle
             /\ driver' = IF ok THEN BusConnect(e.driver, e.handle)
                          ELSE TryConnect(e.driver, e.handle)
             /\ connected_' = ok
             /\ threw' = ~ok
  /\ UNCHANGED <<alive, target_, controller_added_, tx_state_listener_, updateVars>>

\* A slip: the pad counts as added although the library refused it.
AddUnchecked ==
  /\ alive /\ connected_ /\ ~controller_added_
  /\ \E e \in Ensured(target_), ok \in BOOLEAN :
       /\ target_' = e.handle
       /\ driver' = IF ok THEN PlugIn(e.driver, client_, e.handle)
                    ELSE TryPlugIn(e.driver, client_, e.handle)
       /\ controller_added_' = TRUE
       /\ threw' = FALSE
  /\ UNCHANGED <<alive, client_, connected_, tx_state_listener_, updateVars>>

\* Throws before Connect, and when the pad cannot be allocated or plugged in;
\* a pad that could not be plugged in stays allocated.
AddX360Controller ==
  /\ alive
  /\ \/ /\ ~connected_ \/ target_ = Null
        /\ threw' = TRUE
        /\ UNCHANGED <<target_, controller_added_, driver>>
     \/ /\ connected_ /\ controller_added_
        /\ threw' = FALSE
        /\ UNCHANGED <<target_, controller_added_, driver>>
     \/ /\ connected_ /\ ~controller_added_
        /\ \E e \in Ensured(target_), ok \in BOOLEAN :
             /\ target_' = e.handle
             /\ driver' = IF ok THEN PlugIn(e.driver, client_, e.handle)
                          ELSE TryPlugIn(e.driver, client_, e.handle)
             /\ controller_added_' = ok
             /\ threw' = ~ok
  /\ UNCHANGED <<alive, client_, connected_, tx_state_listener_, updateVars>>

-----------------------------------------------------------------------------
(* Updates.                                                                *)

\* One submission to the pad, after which  listener  is told if it succeeds.
Update(listener) ==
  /\ alive
  /\ \/ /\ ~controller_added_
        /\ answer' = "false" /\ last_error_' = "not added" /\ notified' = Null
        /\ UNCHANGED driver
     \/ /\ controller_added_
        /\ driver' = Submit(driver, client_, target_)
        /\ \/ answer' = "true" /\ last_error_' = "" /\ notified' = listener
           \/ answer' = "false" /\ last_error_' = "update failed" /\ notified' = Null
  /\ UNCHANGED <<alive, handleVars, tx_state_listener_, threw>>

UpdateRightTrigger == Update(Null)

UpdateState == Update(tx_state_listener_)

SetTxStateListener(listener) ==
  /\ alive
  /\ tx_state_listener_' = listener
  /\ UNCHANGED <<alive, handleVars, updateVars, driver, threw>>

-----------------------------------------------------------------------------
(* The destructor.                                                         *)

\* Whether the pad could be removed is not looked at.
Removed(d, ok) ==
  IF controller_added_ /\ client_ # Null /\ target_ # Null
  THEN IF ok THEN Unplug(d, client_, target_) ELSE RefuseUnplug(d, client_, target_)
  ELSE d

TargetFreed(d) == IF target_ # Null THEN Free(d, target_) ELSE d

\* A slip: only a connected client is given back.
ClientFreedIfConnected(d) ==
  IF client_ # Null /\ connected_
  THEN Free(BusDisconnect(d, client_), client_) ELSE d

ClientFreed(d) ==
  IF client_ = Null THEN d
  ELSE Free(IF connected_ THEN BusDisconnect(d, client_) ELSE d, client_)

Disconnect ==
  /\ \E ok \in BOOLEAN : driver' = ClientFreed(TargetFreed(Removed(driver, ok)))
  /\ client_' = Null /\ target_' = Null
  /\ connected_' = (connected_ /\ client_ = Null)
  /\ controller_added_' =
       (controller_added_ /\ (client_ = Null \/ target_ = Null))

Destroy ==
  /\ alive
  /\ alive' = FALSE
  /\ Disconnect
  /\ UNCHANGED <<updateVars, tx_state_listener_, threw>>

Next ==
  \/ Construct \/ Connect \/ AddX360Controller
  \/ UpdateState \/ UpdateRightTrigger
  \/ \E listener \in Listeners \cup {Null} : SetTxStateListener(listener)
  \/ Destroy

Spec == Init /\ [][Next]_vars

-----------------------------------------------------------------------------
(* Properties.                                                             *)

\* Type invariant.
TypeOK ==
  /\ alive \in BOOLEAN /\ threw \in BOOLEAN
  /\ client_ \in Handles \cup {Null} /\ target_ \in Handles \cup {Null}
  /\ connected_ \in BOOLEAN /\ controller_added_ \in BOOLEAN
  /\ last_error_ \in {"", "not added", "update failed"}
  /\ answer \in {"none", "true", "false"}
  /\ tx_state_listener_ \in Listeners \cup {Null}
  /\ notified \in Listeners \cup {Null}
  /\ driver \in [live : SUBSET Handles, connected : SUBSET Handles,
                 plugged : SUBSET Handles, misused : SUBSET Handles,
                 stranded : BOOLEAN]

\* Whatever call fails, the removal of the pad included, and however calls are
\* repeated, the client library is never given a handle it does not know: no
\* handle is used before it is connected or plugged in, freed twice, freed
\* while connected or before the removal of its pad was tried, or used after.
LibraryNeverMisused == driver.misused = {}

\* The client owns what it allocated and no more: its two handles are those
\* that are live, and with the client everything goes, also when Connect or
\* AddX360Controller threw half-way.
OwnsWhatIsLive == driver.live = {client_, target_} \ {Null}

\* Nothing of the library is held but, perhaps, a pad on the bus that it
\* refused to remove.
GivenBack == driver = [NoHandles EXCEPT !.stranded = driver.stranded]

\* Once the client is gone no handle is live, no connection open, and no pad
\* plugged in.  A pad whose removal the library refused is not plugged in any
\* more, but stranded: the destructor does not look, and nothing tries again.
NothingLeftBehind ==
  ~alive => driver.live \cup driver.connected \cup driver.plugged = {}
=============================================================================
