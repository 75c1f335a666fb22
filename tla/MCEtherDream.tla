------------------------------ MODULE MCEtherDream ------------------------------
(***************************************************************************)
(* EtherDreamBackend for TLC.  The profiles: the two whose behaviour was   *)
(* read from source or hardware, and variants of every flag the other way. *)
(***************************************************************************)
EXTENDS EtherDreamBackend

ED1 ==
    [naks_full |-> FALSE, partial_write |-> TRUE, begin_while_idle_acked |-> TRUE,
     stop_while_idle_naks |-> TRUE, stale_fullness |-> TRUE, estop_clear_immediate |-> TRUE,
     data_while_idle_naks |-> TRUE, close_stops_playback |-> FALSE, version |-> "answers"]

ED2 == [ED1 EXCEPT !.close_stops_playback = TRUE]

Contrary ==
    [naks_full |-> TRUE, partial_write |-> FALSE, begin_while_idle_acked |-> FALSE,
     stop_while_idle_naks |-> FALSE, stale_fullness |-> FALSE, estop_clear_immediate |-> FALSE,
     data_while_idle_naks |-> FALSE, close_stops_playback |-> FALSE, version |-> "naks"]

Refusing == [Contrary EXCEPT !.naks_full = FALSE]
Resetting == [Contrary EXCEPT !.version = "resets"]

AllScenarios == {
    [profiles |-> {ED1, Contrary}, rates |-> {1, 2}, target |-> 2, events |-> {}, budget |-> 0],
    [profiles |-> {ED1, Contrary}, rates |-> {1}, target |-> 1, events |-> {"estop", "interlock"},
     budget |-> 2],
    [profiles |-> {ED2, Contrary, Refusing}, rates |-> {1}, target |-> 2, events |-> {"foreign"},
     budget |-> 1],
    [profiles |-> {ED1}, rates |-> {2}, target |-> 1, events |-> {"unsolicited", "duplicate"},
     budget |-> 1],
    [profiles |-> {Contrary}, rates |-> {1}, target |-> 1, events |-> {"estop", "duplicate"},
     budget |-> 2],
    [profiles |-> {ED2, Resetting}, rates |-> {2}, target |-> 1,
     events |-> {"fails", "stop", "disconnect"}, budget |-> 1]}
===============================================================================
