--------------------------------- MODULE MCIdn ---------------------------------
(***************************************************************************)
(* IdnBackend for TLC.  The intervals have the proportions of the code, at *)
(* 100 ms a tick.  A chunk of 36 points takes two datagrams when one of    *)
(* them carries the configuration.                                         *)
(***************************************************************************)
EXTENDS IdnBackend

\* Xyrgbi and XyrgbHighRes.
MCSampleSize == [rgbi |-> 8, highres |-> 10]

Base == [direct |-> FALSE, streaming |-> TRUE, exclusive |-> TRUE, lengths |-> {20}, events |-> {},
         budget |-> 0]

AllScenarios == {
    [Base EXCEPT !.lengths = {36}, !.events = {"lose", "delay", "duplicate"}, !.budget = 2],
    [Base EXCEPT !.events = {"stop", "disconnect", "delay", "lose"}, !.budget = 2],
    [Base EXCEPT !.events = {"power", "senderr"}, !.budget = 2],
    [Base EXCEPT !.events = {"kick", "exclude", "stranger"}, !.budget = 1],
    [Base EXCEPT !.exclusive = FALSE, !.events = {"stranger"}, !.budget = 1],
    [Base EXCEPT !.streaming = FALSE, !.events = {"power", "senderr"}, !.budget = 1],
    [Base EXCEPT !.streaming = FALSE, !.events = {"stop", "disconnect", "lose"}, !.budget = 2],
    [Base EXCEPT !.direct = TRUE, !.lengths = {36},
                 !.events = {"configure", "disconnect", "lose", "reorder", "delay", "duplicate"},
                 !.budget = 1]}
===============================================================================
