---------------------------- MODULE SessionControl ----------------------------
(***************************************************************************)
(* The state that a session's control handles share with its driver        *)
(* thread: the desired-state word, the stop flag, the notification         *)
(* channel and the rate record (src/session.rs).                           *)
(*                                                                         *)
(* A call that changes the desired state takes effect in two steps, as in  *)
(* set_desired_armed: the word is updated atomically (here one step; the   *)
(* compare-exchange loop is module SessionControlCAS, which implements     *)
(* this one), and the notification is sent afterwards.  Between the two    *)
(* the driver may already see the new word and no message.                 *)
(***************************************************************************)
EXTENDS Naturals, Integers, Sequences

CONSTANTS
    Handles,    \* the threads that hold a SessionControl
    Calls,      \* the calls these threads make: a subset of CallNames
    Rates,      \* the point rates a caller may ask for
    MaxWord,    \* bound: no call takes the desired-state word above this
    MaxQueue    \* bound: no call starts with this many messages queued

CallNames == {"arm", "disarm", "stop", "set_pps"}

ASSUME ControlAssumption ==
    /\ Calls \subseteq CallNames
    /\ Rates \subseteq Nat
    /\ MaxWord \in Nat
    /\ MaxQueue \in Nat
    /\ Handles # {}

VARIABLES
    desired,         \* SessionControlInner::desired_state
    stop_requested,  \* SessionControlInner::stop_requested
    control_tx,      \* the messages in the mpsc channel, oldest first
    rx_alive,        \* the driver still holds the receiving end
    rate,            \* SessionControlInner::rate: [pps, min, max]
    call             \* per handle: the notification it still has to send

ctlVars == <<desired, stop_requested, control_tx, rx_alive, rate, call>>

ControlMsg == {"Arm", "Disarm", "Stop"}

\* DesiredState: the low bit is the arm bit, the rest counts the edges.
InitialState == 0
ArmBit(w) == w % 2
IsArmed(w) == ArmBit(w) = 1
NextWord(w, armed_bit) == 2 * ((w + 2) \div 2) + armed_bit

InBounds(pps, min, max) == min <= pps /\ pps <= max

\* Calls between recording and notifying.
Pending == {h \in Handles : call[h] # "idle"}
HasRoom == Len(control_tx) < MaxQueue

-------------------------------------------------------------------------------
(* The calls of a handle. *)

\* The word after set_desired_armed: an edge moves the generation, a call for
\* the state already recorded leaves the word alone.
WordAfter(armed_bit) ==
    IF ArmBit(desired) = armed_bit THEN desired ELSE NextWord(desired, armed_bit)

SetDesiredArmed(h, armed_bit, msg) ==
    /\ call[h] = "idle"
    /\ HasRoom
    /\ WordAfter(armed_bit) <= MaxWord
    /\ desired' = WordAfter(armed_bit)
    /\ call' = [call EXCEPT ![h] = msg]
    /\ UNCHANGED <<stop_requested, control_tx, rx_alive, rate>>

Arm(h) == "arm" \in Calls /\ SetDesiredArmed(h, 1, "Arm")

Disarm(h) == "disarm" \in Calls /\ SetDesiredArmed(h, 0, "Disarm")

Stop(h) ==
    /\ "stop" \in Calls
    /\ call[h] = "idle"
    /\ HasRoom
    /\ stop_requested' = TRUE
    /\ call' = [call EXCEPT ![h] = "Stop"]
    /\ UNCHANGED <<desired, control_tx, rx_alive, rate>>

\* The send of a call in progress. Once the driver has dropped the receiver the
\* send fails and the call returns an error, with its effect already recorded.
Notify(h) ==
    /\ call[h] # "idle"
    /\ control_tx' = IF rx_alive THEN Append(control_tx, call[h]) ELSE control_tx
    /\ call' = [call EXCEPT ![h] = "idle"]
    /\ UNCHANGED <<desired, stop_requested, rx_alive, rate>>

\* Out-of-range requests return an error and change nothing.
SetPps(h, p) ==
    /\ "set_pps" \in Calls
    /\ call[h] = "idle"
    /\ InBounds(p, rate.min, rate.max)
    /\ rate' = [pps |-> p, min |-> rate.min, max |-> rate.max]
    /\ UNCHANGED <<desired, stop_requested, control_tx, rx_alive, call>>

HandleStep(h) ==
    \/ Arm(h)
    \/ Disarm(h)
    \/ Stop(h)
    \/ Notify(h)
    \/ \E p \in Rates : SetPps(h, p)

-------------------------------------------------------------------------------
(* The driver's side of the channel and of the rate record. *)

\* process_control_messages: empty the channel, but return at the first Stop.
StopAt(k) == control_tx[k] = "Stop" /\ \A j \in 1..(k - 1) : control_tx[j] # "Stop"

ControlAction ==
    IF \E k \in 1..Len(control_tx) : control_tx[k] = "Stop" THEN "Stop"
    ELSE IF control_tx # <<>> THEN "StateChanged" ELSE "None"

ProcessControlMessages ==
    /\ IF ControlAction = "Stop"
       THEN \E k \in 1..Len(control_tx) :
               StopAt(k) /\ control_tx' = SubSeq(control_tx, k + 1, Len(control_tx))
       ELSE control_tx' = <<>>
    /\ UNCHANGED <<desired, stop_requested, rx_alive, rate, call>>

\* Faulty variant: new bounds without a look at the rate in force.
UpdatePpsBoundsUnchecked(min, max) ==
    /\ rate' = [pps |-> rate.pps, min |-> min, max |-> max]
    /\ UNCHANGED <<desired, stop_requested, control_tx, rx_alive, call>>

\* update_pps_bounds succeeds only when the rate in force fits the new range.
UpdatePpsBounds(min, max) ==
    /\ InBounds(rate.pps, min, max)
    /\ rate' = [pps |-> rate.pps, min |-> min, max |-> max]
    /\ UNCHANGED <<desired, stop_requested, control_tx, rx_alive, call>>

\* The driver returns and its receiver is dropped with the queued messages.
DropReceiver ==
    /\ rx_alive' = FALSE
    /\ control_tx' = <<>>
    /\ UNCHANGED <<desired, stop_requested, rate, call>>

-------------------------------------------------------------------------------
(* A new session, and the types of its shared state *)

ControlInit(pps, min, max) ==
    /\ desired = InitialState
    /\ stop_requested = FALSE
    /\ control_tx = <<>>
    /\ rx_alive = TRUE
    /\ rate = [pps |-> pps, min |-> min, max |-> max]
    /\ call = [h \in Handles |-> "idle"]

\* The handles with a driver of which only this side is seen.
ControlNext ==
    \/ \E h \in Handles : HandleStep(h)
    \/ ProcessControlMessages
    \/ \E lo, hi \in Rates : UpdatePpsBounds(lo, hi)
    \/ DropReceiver

ControlSpec ==
    /\ \E p, lo, hi \in Rates : ControlInit(p, lo, hi) /\ InBounds(p, lo, hi)
    /\ [][ControlNext]_ctlVars

\* The types of the state that SessionControlInner shares.
ControlTypeOK ==
    /\ desired \in 0..MaxWord
    /\ stop_requested \in BOOLEAN
    /\ control_tx \in Seq(ControlMsg)
    /\ rx_alive \in BOOLEAN
    /\ rate \in [pps : Nat, min : Nat, max : Nat]
    /\ call \in [Handles -> ControlMsg \cup {"idle"}]
===============================================================================
