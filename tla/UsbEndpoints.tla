------------------------------ MODULE UsbEndpoints ------------------------------
(***************************************************************************)
(* A USB DAC as its two backends see it: an interface that one handle can  *)
(* claim, and a pair of endpoints (protocols/usb_transfer.rs) on which     *)
(* requests go out and answers come in.  The answers of the device do not  *)
(* say which request they belong to.  A transfer ends with a result of     *)
(* rusb; a host that times out goes on, and the answer it did not wait for *)
(* stays in the endpoint.                                                  *)
(*                                                                         *)
(* Requests and answers carry a mark that neither side sees: `fresh` says  *)
(* that the host still waits for the answer.  The faults a behaviour may meet are  *)
(* bounded by the budget it starts with:                                   *)
(*   slow     transfers that end in a timeout although the device is well  *)
(*   glitch   errors of the fatal class from a device that is still there  *)
(*   refuse   requests the device answers with an error status             *)
(*   unplug   removals                                                     *)
(*   hang     whether the device may stop answering for good               *)
(***************************************************************************)
EXTENDS Naturals, Sequences, FiniteSets

CONSTANTS Setups    \* the budgets to start with, and which backend is meant

VARIABLES
    budget,
    present,    \* the device is plugged in
    silent,     \* the device has hung: it takes and answers nothing
    glitched,   \* the device has reported a fatal error and is still there
    claim,      \* who has the interface of the device that is plugged in
    reqs,       \* requests the device has not handled
    replies,    \* answers in the IN endpoint
    late        \* answers the host has given up waiting for

usbVars == <<budget, present, silent, glitched, claim, reqs, replies, late>>
busVars == <<present, silent, claim>>
pipeVars == <<reqs, replies, late>>

Claimants == {"free", "session", "candidate", "scan", "other", "leaked"}

UsbTypeOK ==
    /\ \A f \in {"slow", "glitch", "refuse", "unplug"} : budget[f] \in Nat
    /\ budget.hang \in BOOLEAN
    /\ present \in BOOLEAN /\ silent \in BOOLEAN /\ glitched \in BOOLEAN
    /\ claim \in Claimants
    /\ \A q \in {reqs, replies} : \A i \in DOMAIN q : q[i].fresh \in BOOLEAN
    /\ late \in Nat

UsbInit ==
    /\ budget \in Setups
    /\ present = TRUE /\ silent = FALSE /\ glitched = FALSE
    /\ claim = "free" /\ reqs = <<>> /\ replies = <<>> /\ late = 0

Spend(f) == budget[f] > 0 /\ budget' = [budget EXCEPT ![f] = @ - 1]

Errors == {"NoDevice", "Io", "Timeout"}

\* is_fatal_rusb. Of the fatal errors of a device that is there Io stands for all.
Fatal(e) == e \in {"NoDevice", "Io"}

-------------------------------------------------------------------------------
(* Transfers *)

\* The handle in use belongs to the device that is plugged in.
Attached == claim \in {"session", "candidate", "scan"}

Aged(q) == [i \in DOMAIN q |-> [q[i] EXCEPT !.fresh = FALSE]]

\* A request is written whole.
Submit(what, arg) ==
    /\ Attached /\ ~silent
    /\ reqs' = Append(Aged(reqs), [what |-> what, arg |-> arg, fresh |-> TRUE])
    /\ replies' = Aged(replies)
    /\ UNCHANGED <<budget, glitched, late>>

\* A transfer fails: the device is gone, hung or slow, or reports an error.
\* A write that comes out short is an Io error too.
TransferFails(e) ==
    \/ ~Attached /\ e = "NoDevice" /\ UNCHANGED <<budget, glitched>>
    \/ Attached /\ silent /\ e = "Timeout" /\ UNCHANGED <<budget, glitched>>
    \/ Attached /\ ~silent /\ e = "Timeout" /\ Spend("slow") /\ UNCHANGED glitched
    \/ Attached /\ e = "Io" /\ Spend("glitch") /\ glitched' = TRUE

\* The answer to the last request is still to come, or to be read.
Awaited == \E q \in {reqs, replies} : \E i \in DOMAIN q : q[i].fresh

\* A read fails. It times out of itself if no answer is due.
ReadFails(e) ==
    /\ e = "Timeout" => replies = <<>>
    /\ \/ TransferFails(e)
       \/ Attached /\ ~silent /\ reqs = <<>> /\ e = "Timeout" /\ UNCHANGED <<budget, glitched>>

\* The host gives up waiting for it.
StopWaiting ==
    /\ late' = IF Awaited THEN late + 1 ELSE late
    /\ reqs' = Aged(reqs) /\ replies' = Aged(replies)

\* A read takes the oldest answer.
Take(what) ==
    /\ Attached /\ replies # <<>> /\ Head(replies).what = what
    /\ replies' = Tail(replies)
    /\ UNCHANGED <<reqs, late, budget, glitched>>

-------------------------------------------------------------------------------
(* The device *)

\* Handles the oldest request, and answers it unless it asks for no answer.
Handle(what, answered, ok, value) ==
    /\ present /\ ~silent /\ reqs # <<>>
    /\ what = Head(reqs).what
    /\ reqs' = Tail(reqs)
    /\ replies' = IF answered
                  THEN Append(replies, [what |-> what, ok |-> ok, value |-> value,
                                        fresh |-> Head(reqs).fresh])
                  ELSE replies
    /\ UNCHANGED <<busVars, glitched, late>>

Hang ==
    /\ present /\ budget.hang /\ ~silent
    /\ silent' = TRUE /\ budget' = [budget EXCEPT !.hang = FALSE]
    /\ UNCHANGED <<present, claim, glitched, pipeVars>>

\* With the device goes everything that was in it, and the claim.
Unplug ==
    /\ present /\ Spend("unplug")
    /\ present' = FALSE /\ silent' = FALSE /\ glitched' = FALSE
    /\ claim' = "free" /\ reqs' = <<>> /\ replies' = <<>> /\ late' = 0

Plug == ~present /\ present' = TRUE /\ UNCHANGED <<budget, silent, glitched, claim, pipeVars>>
===============================================================================
