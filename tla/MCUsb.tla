--------------------------------- MODULE MCUsb ---------------------------------
(***************************************************************************)
(* Instances of the two USB backends.  A setup says which of them a        *)
(* behaviour is of and what it may meet; the other backend stays idle.     *)
(***************************************************************************)
EXTENDS HeliosBackend, LaserCubeUsb

Calm == [kind |-> "helios", id |-> "name", runner |-> "known", other |-> FALSE, stop |-> FALSE,
         slow |-> 0, glitch |-> 0, refuse |-> 0, unplug |-> 0, hang |-> FALSE]

Cube == [Calm EXCEPT !.kind = "cube"]

AllScenarios == {
     [Calm EXCEPT !.slow = 3, !.stop = TRUE],
     [Calm EXCEPT !.slow = 2, !.other = TRUE, !.id = "port"],
     [Calm EXCEPT !.slow = 2, !.glitch = 1, !.stop = TRUE],
     [Calm EXCEPT !.slow = 1, !.unplug = 1, !.other = TRUE],
     [Calm EXCEPT !.slow = 1, !.unplug = 1, !.hang = TRUE],
     [Cube EXCEPT !.slow = 1, !.refuse = 1],
     [Cube EXCEPT !.refuse = 1, !.runner = "mute", !.stop = TRUE],
     [Cube EXCEPT !.glitch = 1, !.runner = "refused"],
     [Cube EXCEPT !.unplug = 1],
     [Cube EXCEPT !.hang = TRUE]}

vars == <<heliosVars, lcVars>>

Init ==
    /\ UsbInit
    /\ HeliosInit(IF budget.kind = "helios" THEN "scan" ELSE "end")
    /\ LcInit(IF budget.kind = "cube" THEN "scan" ELSE "end")

HeliosOnly == budget.kind = "helios" /\ UNCHANGED <<cubeVars, wishVars, driverVars, unsaid>>
CubeOnly == budget.kind = "cube" /\ UNCHANGED <<frameVars, hl, tries, stop_requested, adapterVars, backendVars>>

Next ==
    \/ HeliosOnly /\ HeliosNext
    \/ CubeOnly /\ LcNext

Spec == Init /\ [][Next]_vars

\* The thread goes on, a device that is well answers, and it plays; a scan ends.
Fairness ==
    /\ WF_vars((HeliosOnly /\ HeliosThread) \/ (CubeOnly /\ LcThread))
    /\ WF_vars((HeliosOnly /\ (Answer \/ OtherReleases)) \/ (CubeOnly /\ (AnswerCube \/ AnswerRunner)))
    /\ WF_vars((HeliosOnly /\ Swap) \/ (CubeOnly /\ Play))

FairSpec == Spec /\ Fairness

-------------------------------------------------------------------------------
TypeOK == UsbTypeOK /\ HeliosTypeOK /\ LcTypeOK

\* The Helios status poll is trusted only as far as it may be: answers lag by no more
\* than the polls that timed out, each of which lets at most one frame out too early,
\* and a backend never closes a handle whose device is gone, which would crash libusb.
\* The LaserCube's answers carry no echo of the command: they are shifted by no more
\* than the answers that came too late, and what the host believes of the output, the
\* device and its rate is true, or becomes true with what the device has been sent.
UsbSound ==
    /\ TypeOK
    /\ StatusLag /\ WrittenWhenReady /\ NeverClosedDead
    /\ (budget.kind = "cube" => AnswersLag) /\ ClosedIsOff /\ InfoTrue /\ AtRate

\* A device that hangs is noticed, one that is there is reopened, and a write returns.
UsbRecovers == HungNoticed /\ WriteReturns /\ HeliosReconnects /\ CubeReconnects
===============================================================================
