-------------------------------- MODULE MCAudio --------------------------------
(***************************************************************************)
(* Instances of the two audio backends.  A setup says which of them a      *)
(* behaviour is of and what it may meet; the other backend stays idle.     *)
(***************************************************************************)
EXTENDS AvbBackend, OscilloscopeBackend

MCThreads == {Pipe, Scanner} \cup Conns
MCNobody == Scanner + 1

\* Nothing goes wrong.
Calm == [kind |-> "avb", single |-> FALSE, hangs |-> 0, unplugs |-> 0, scanner |-> FALSE,
         pps |-> {2}, outs |-> {2}, max_in |-> 1]

\* A stream that dies on a host with room for one, and one of two units of a name.
AsioSetups == {[Calm EXCEPT !.unplugs = 1, !.single = TRUE]}

\* Points at several rates; a stream that dies; calls that hang, on either host.
AllScenarios == {
     [Calm EXCEPT !.pps = {2, 3, 4}, !.outs = {2, 3}, !.max_in = 7],
     [Calm EXCEPT !.unplugs = 1, !.scanner = TRUE, !.max_in = 2],
     [Calm EXCEPT !.hangs = 1, !.scanner = TRUE],
     [Calm EXCEPT !.hangs = 1, !.single = TRUE, !.scanner = TRUE],
     [Calm EXCEPT !.hangs = 1, !.unplugs = 1],
     [Calm EXCEPT !.kind = "scope", !.pps = {2, 3, 4}, !.outs = {2, 3}, !.max_in = 6],
     [Calm EXCEPT !.kind = "scope", !.unplugs = 1, !.max_in = 4]}

vars == <<avbVars, scopeVars>>

Init == AvbInit /\ ScopeInit(IF setup.kind = "scope" THEN "lost" ELSE "ended")

Next ==
    \/ setup.kind = "avb" /\ AvbNext /\ UNCHANGED scopeVars
    \/ /\ setup.kind = "scope" /\ ScopeNext(setup)
       /\ UNCHANGED <<setup, pipeVars, connVars, plugVars, other, hostVars>>

Spec == Init /\ [][Next]_vars
FairSpec == Spec /\ AvbFairness /\ ScopeFairness

-------------------------------------------------------------------------------
TypeOK == AvbTypeOK /\ ScopeTypeOK

\* The room reserved for an accepted chunk is there until the chunk is in the ring,
\* whatever the callback and the thread that owns the stream do meanwhile: no point
\* of it is lost (the debug_assert of push_point).
NoPointDropped == AvbReserved /\ (scope.at = "push" => Reserved(scope.cur))

\* A call into a backend returns unless it, or the worker it joins, is stuck in the
\* driver: nobody waits for somebody else's hung call (SESSION_TIMEOUT and
\* init_timeout of AVB, the five seconds of the oscilloscope's connect).
CallsReturn == AvbCallsReturn /\ (scope.at # "idle" ~> scope.at = "idle")

\* The threads share the driver by its rules and the ring loses no point.
SharingSound == TypeOK /\ OneInDriver /\ OneStream /\ NoPointDropped /\ NoSnap

\* Nothing goes on drawing that the driver does not run.
NothingStray == UndrivenDark /\ AbandonedSilent

\* Calls return, workers left behind end, and a dead stream is replaced.
AudioRecovers == CallsReturn /\ DetachedEnds /\ ReconnectsShared
===============================================================================
