------------------------------- MODULE Reconnect -------------------------------
(***************************************************************************)
(* Losing and replacing the backend: reconnect in presentation/driver.rs   *)
(* and the retry loop it runs, reconnect_backend_with_retry in             *)
(* src/reconnect.rs.  The candidate is the device the reconnect target     *)
(* opens again; until it is accepted the driver's own backend is gone.     *)
(*   cand.up    the candidate's is_connected                               *)
(*   cand.fits  its backend kind and output model are the session's        *)
(*   cand.caps  its rate range, which connecting may tighten               *)
(* How often the device fails to come back is not bounded, only the policy *)
(* is: these failures are not counted in faults.                           *)
(***************************************************************************)
EXTENDS SessionState

Leave(e) == exit' = e /\ Goto("end") /\ UNCHANGED <<observed, is_armed, pps>>

RetryLater == retries' = (IF RetryLimit = NoLimit THEN 1 ELSE retries + 1) /\ Goto("rc_check")

\* close_and_disconnect on the candidate: both commands, errors ignored.
DropCandidate ==
    /\ cand' = [up |-> FALSE, fits |-> cand.fits, caps |-> cand.caps]
    /\ phys' \in IF cand.up THEN {phys, FALSE} ELSE {phys}
    /\ UNCHANGED <<connected, ring, caps, faults>>

-------------------------------------------------------------------------------
ReconnectBegin ==
    /\ pc = "rc_begin"
    /\ \/ ~HasPolicy /\ Leave("Disconnected") /\ UNCHANGED retries
       \/ HasPolicy /\ retries' = 0 /\ Goto("rc_check") /\ UNCHANGED passVars
    /\ UNCHANGED <<ctlVars, devVars, srcVars, loopVars, setup, cand, conn, histVars>>

\* The head of the retry loop. The first attempt is immediate, unless the last
\* reconnect is so recent that the device counts as flapping.
ReconnectCheck ==
    /\ pc = "rc_check"
    /\ \/ stop_requested /\ Leave("Stopped")
       \/ ~stop_requested /\ retries = RetryLimit /\ Leave("Disconnected")
       \/ /\ ~stop_requested /\ retries # RetryLimit
          /\ \/ (retries > 0 \/ conn > 0) /\ Goto("rc_backoff")
             \/ retries = 0 /\ Goto("rc_open")
          /\ UNCHANGED passVars
    /\ UNCHANGED <<ctlVars, devVars, srcVars, loopVars, rcVars, histVars>>

\* sleep_with_stop
ReconnectBackoff ==
    /\ pc = "rc_backoff"
    /\ IF stop_requested THEN Leave("Stopped") ELSE Goto("rc_open") /\ UNCHANGED passVars
    /\ UNCHANGED <<ctlVars, devVars, srcVars, loopVars, rcVars, histVars>>

\* open_device fails for good, fails for now (or yields no backend), or hands
\* out a backend, possibly one that is connected and lit already.
ReconnectOpenFails ==
    /\ pc = "rc_open"
    /\ \/ Leave("Disconnected") /\ UNCHANGED retries
       \/ RetryLater /\ UNCHANGED passVars
    /\ UNCHANGED <<ctlVars, devVars, srcVars, loopVars, setup, cand, conn, histVars>>

ReconnectOpen ==
    /\ pc = "rc_open"
    /\ \E up, fits \in BOOLEAN, c \in CapsSet :
          /\ cand' = [up |-> up, fits |-> fits, caps |-> c]
          /\ phys' \in IF up THEN BOOLEAN ELSE {phys}
    /\ Goto("rc_validate")
    /\ UNCHANGED <<connected, ring, caps, faults, setup, retries, conn>>
    /\ UNCHANGED <<ctlVars, srcVars, loopVars, passVars, histVars>>

\* The validator: kind, output model, and the rate at this moment.
Valid == cand.fits /\ InBounds(rate.pps, cand.caps.min, cand.caps.max)

ReconnectValidate ==
    /\ pc = "rc_validate"
    /\ IF Valid
       THEN Goto(IF cand.up THEN "rc_close" ELSE "rc_connect") /\ UNCHANGED <<devVars, cand, passVars>>
       ELSE DropCandidate /\ Leave("IncompatibleDevice")
    /\ UNCHANGED <<ctlVars, srcVars, loopVars, setup, retries, conn, histVars>>

\* Connecting may enable the output, and may reveal other capabilities.
ReconnectConnect ==
    /\ pc = "rc_connect"
    /\ \E fits \in BOOLEAN, c \in CapsSet : cand' = [up |-> TRUE, fits |-> fits, caps |-> c]
    /\ phys' \in {phys, TRUE}
    /\ Goto("rc_close")
    /\ UNCHANGED <<connected, ring, caps, faults, setup, retries, conn>>
    /\ UNCHANGED <<ctlVars, srcVars, loopVars, passVars, histVars>>

ReconnectConnectFails ==
    /\ pc = "rc_connect"
    /\ phys' \in BOOLEAN
    /\ \/ Leave("IncompatibleDevice") /\ UNCHANGED retries
       \/ Leave("Disconnected") /\ UNCHANGED retries
       \/ RetryLater /\ UNCHANGED passVars
    /\ UNCHANGED <<connected, ring, caps, faults, setup, cand, conn>>
    /\ UNCHANGED <<ctlVars, srcVars, loopVars, histVars>>

\* No candidate is used before its shutter is confirmed closed.
ReconnectClose ==
    /\ pc = "rc_close"
    /\ phys' = FALSE
    /\ Goto("rc_revalidate")
    /\ UNCHANGED <<connected, ring, caps, faults, rcVars>>
    /\ UNCHANGED <<ctlVars, srcVars, loopVars, passVars, histVars>>

ReconnectCloseFails ==
    /\ pc = "rc_close"
    /\ phys' \in {phys, FALSE}
    /\ cand' = [up |-> FALSE, fits |-> cand.fits, caps |-> cand.caps]
    /\ RetryLater
    /\ UNCHANGED <<connected, ring, caps, faults, setup, conn>>
    /\ UNCHANGED <<ctlVars, srcVars, loopVars, passVars, histVars>>

ReconnectRevalidate ==
    /\ pc = "rc_revalidate"
    /\ IF Valid
       THEN Goto("rc_bounds") /\ UNCHANGED <<devVars, cand, passVars>>
       ELSE DropCandidate /\ Leave("IncompatibleDevice")
    /\ UNCHANGED <<ctlVars, srcVars, loopVars, setup, retries, conn, histVars>>

\* The rate may have moved since it was validated, so installing the bounds
\* checks it once more, under the lock that set_pps takes.
ReconnectRejected ==
    /\ pc = "rc_bounds"
    /\ ~InBounds(rate.pps, cand.caps.min, cand.caps.max)
    /\ DropCandidate
    /\ Leave("IncompatibleDevice")
    /\ UNCHANGED <<ctlVars, srcVars, loopVars, setup, retries, conn, histVars>>

\* The candidate becomes the backend. Everything tied to the old connection is
\* reset; the handled state restarts at the initial word, so that a desired
\* state that is armed runs the whole preparation again.
ReconnectAccept ==
    /\ pc = "rc_bounds"
    /\ UpdatePpsBounds(cand.caps.min, cand.caps.max)
    /\ connected' = TRUE
    /\ caps' = cand.caps
    /\ shutter' = "Closed"
    /\ handled' = InitialState
    /\ cache' = NoSlice
    /\ blank' = IF Source = "stream" THEN 0 ELSE blank
    /\ retain' = FALSE
    /\ tries' = 0
    /\ conn' = conn + 1
    /\ blanked' = FALSE
    /\ prepared' = InitialState
    /\ Goto("top")
    /\ UNCHANGED <<phys, ring, faults, src_end, passVars, setup, retries, cand, wrote>>

ReconnectStep ==
    \/ ReconnectBegin \/ ReconnectCheck \/ ReconnectBackoff
    \/ ReconnectOpenFails \/ ReconnectOpen
    \/ ReconnectValidate \/ ReconnectConnect \/ ReconnectConnectFails
    \/ ReconnectClose \/ ReconnectCloseFails \/ ReconnectRevalidate
    \/ ReconnectRejected \/ ReconnectAccept
================================================================================
