----------------------------- MODULE MCRxTable -----------------------------
(***************************************************************************)
(* Instances of RxTable: two topics, or one listed twice (two              *)
(* subscriptions of one topic), identifiers of two widths, and a buffer    *)
(* with room for some of the rows, that can grow or cannot.                *)
(***************************************************************************)
EXTENDS RxTable

MCTopicLists == {<<"turret_pitch", "stick">>, <<"stick", "stick">>}
MCIds == {"3:7", "30:1004"}
MCWidthOf ==
  [text \in {"stick", "turret_pitch", "3:7", "30:1004"} |->
     CASE text = "stick"        -> 5
       [] text = "turret_pitch" -> 12
       [] text = "3:7"          -> 3
       [] text = "30:1004"      -> 7]
=============================================================================
