------------------------------ MODULE MCLaserCube ------------------------------
(* LaserCubeTransport in scenarios of which each leaves one side idle. *)
EXTENDS LaserCubeTransport

\* Arming, disarming, stopping and shutting down around writes.
Purging == [calls |-> {"write", "output", "shutdown"},
            sizes |-> {1}, sends |-> 2, losses |-> 0, packets |-> FALSE, commands |-> FALSE]
\* Streaming: the packets and their ACKs.
Streaming == [calls |-> {"write"}, sizes |-> {2}, sends |-> 9, losses |-> 1,
              packets |-> TRUE, commands |-> FALSE]
\* Switching the output over a lossy command socket.
Switching == [calls |-> {"output", "stop", "shutdown"}, sizes |-> {}, sends |-> 0, losses |-> 1,
              packets |-> FALSE, commands |-> TRUE]
\* The same over one that goes quiet for longer than the link may.
Quiet == [Switching EXCEPT !.calls = {"shutdown"}, !.losses = 2]

AllScenarios == {Purging, Streaming, Switching, Quiet}
===============================================================================
