--------------------------- MODULE SessionControlCAS ---------------------------
(***************************************************************************)
(* set_desired_armed as the code runs it: a load of the desired-state word *)
(* and a compare-exchange loop, interleaved between the handles, and then  *)
(* the send under the channel's lock (src/session.rs).  It implements      *)
(* SessionControl, where the same call is one step and a notification.     *)
(***************************************************************************)
EXTENDS Naturals, Integers, Sequences

CONSTANTS Handles, Calls, Rates, MaxWord, MaxQueue

VARIABLES
    desired, stop_requested, control_tx, rx_alive, rate,
    at,        \* per handle: "idle", "cas" (about to compare-exchange), "send"
    current,   \* per handle: the word it last saw
    msg        \* per handle: the message its call will send

casVars == <<desired, stop_requested, control_tx, rx_alive, rate, at, current, msg>>

\* A call counts as recorded from its compare-exchange on, or from the load
\* that finds the state asked for.
SC == INSTANCE SessionControl WITH
          call <- [h \in Handles |-> IF at[h] = "send" THEN msg[h] ELSE "idle"]

ASSUME CASAssumption ==
    /\ Calls \subseteq SC!CallNames
    /\ Rates \subseteq Nat
    /\ MaxWord \in Nat
    /\ MaxQueue \in Nat
    /\ Handles # {}

BeginCall(h, m) ==
    /\ at[h] = "idle"
    /\ SC!HasRoom
    /\ msg' = [msg EXCEPT ![h] = m]

\* The word that was just read: break out of the loop, or go on to exchange it.
AfterRead(h, armed_bit) ==
    /\ at' = [at EXCEPT ![h] = IF SC!ArmBit(desired) = armed_bit THEN "send" ELSE "cas"]
    /\ current' = [current EXCEPT ![h] = desired]

\* Faulty variant: the notification goes out before the state is recorded.
LoadArmNotifies(h) ==
    /\ "arm" \in Calls
    /\ BeginCall(h, "Arm")
    /\ AfterRead(h, 1)
    /\ control_tx' = Append(control_tx, "Arm")
    /\ UNCHANGED <<desired, stop_requested, rx_alive, rate>>

LoadArm(h) ==
    /\ "arm" \in Calls
    /\ BeginCall(h, "Arm")
    /\ AfterRead(h, 1)
    /\ UNCHANGED <<desired, stop_requested, control_tx, rx_alive, rate>>

LoadDisarm(h) ==
    /\ "disarm" \in Calls
    /\ BeginCall(h, "Disarm")
    /\ AfterRead(h, 0)
    /\ UNCHANGED <<desired, stop_requested, control_tx, rx_alive, rate>>

\* The armed_bit of the call under way.
WantedBit(h) == IF msg[h] = "Arm" THEN 1 ELSE 0

\* Faulty variant: a plain store, in place of the compare-exchange.
BlindStore(h) ==
    /\ at[h] = "cas"
    /\ SC!HasRoom
    /\ SC!NextWord(current[h], WantedBit(h)) <= MaxWord
    /\ desired' = SC!NextWord(current[h], WantedBit(h))
    /\ at' = [at EXCEPT ![h] = "send"]
    /\ UNCHANGED <<stop_requested, control_tx, rx_alive, rate, current, msg>>

CompareExchange(h) ==
    /\ at[h] = "cas"
    /\ SC!HasRoom
    /\ IF desired = current[h]
       THEN /\ SC!NextWord(current[h], WantedBit(h)) <= MaxWord
            /\ desired' = SC!NextWord(current[h], WantedBit(h))
            /\ at' = [at EXCEPT ![h] = "send"]
            /\ UNCHANGED current
       ELSE AfterRead(h, WantedBit(h)) /\ UNCHANGED desired
    /\ UNCHANGED <<stop_requested, control_tx, rx_alive, rate, msg>>

StoreStop(h) ==
    /\ "stop" \in Calls
    /\ BeginCall(h, "Stop")
    /\ stop_requested' = TRUE
    /\ at' = [at EXCEPT ![h] = "send"]
    /\ UNCHANGED <<desired, control_tx, rx_alive, rate, current>>

SendMessage(h) ==
    /\ at[h] = "send"
    /\ control_tx' = IF rx_alive THEN Append(control_tx, msg[h]) ELSE control_tx
    /\ at' = [at EXCEPT ![h] = "idle"]
    /\ UNCHANGED <<desired, stop_requested, rx_alive, rate, current, msg>>

SetRate(h, p) ==
    /\ "set_pps" \in Calls
    /\ at[h] = "idle"
    /\ SC!InBounds(p, rate.min, rate.max)
    /\ rate' = [pps |-> p, min |-> rate.min, max |-> rate.max]
    /\ UNCHANGED <<desired, stop_requested, control_tx, rx_alive, at, current, msg>>

DriverSide ==
    /\ UNCHANGED <<at, current, msg>>
    /\ \/ SC!ProcessControlMessages
       \/ \E lo, hi \in Rates : SC!UpdatePpsBounds(lo, hi)
       \/ SC!DropReceiver

CASInit ==
    /\ \E p, lo, hi \in Rates :
          /\ SC!InBounds(p, lo, hi)
          /\ rate = [pps |-> p, min |-> lo, max |-> hi]
    /\ desired = SC!InitialState
    /\ stop_requested = FALSE
    /\ control_tx = <<>>
    /\ rx_alive = TRUE
    /\ at = [h \in Handles |-> "idle"]
    /\ current = [h \in Handles |-> SC!InitialState]
    /\ msg = [h \in Handles |-> "Stop"]

HandleStep(h) ==
    \/ LoadArm(h)
    \/ LoadDisarm(h)
    \/ CompareExchange(h)
    \/ StoreStop(h)
    \/ SendMessage(h)
    \/ \E p \in Rates : SetRate(h, p)

CASNext == (\E h \in Handles : HandleStep(h)) \/ DriverSide

CASSpec == CASInit /\ [][CASNext]_casVars

-------------------------------------------------------------------------------
(* Properties *)

\* The types of the shared state and of the locals of set_desired_armed.
CASTypeOK ==
    /\ desired \in 0..MaxWord
    /\ stop_requested \in BOOLEAN
    /\ control_tx \in Seq(SC!ControlMsg)
    /\ rx_alive \in BOOLEAN
    /\ rate \in [pps : Nat, min : Nat, max : Nat]
    /\ at \in [Handles -> {"idle", "cas", "send"}]
    /\ current \in [Handles -> 0..MaxWord]
    /\ msg \in [Handles -> SC!ControlMsg]

\* The word changes only upwards and only by flipping the arm bit: each change
\* is one edge, and no word ever returns, so that a driver that finds the word
\* it saw before knows that nothing happened in between (no ABA), however the
\* compare-exchange loops interleave.
EdgesCounted ==
    [][desired' # desired =>
          desired' > desired /\ SC!ArmBit(desired') # SC!ArmBit(desired)]_casVars

\* A call that is about to exchange the word wants the other arm state than the
\* one it read: the loop never counts a call for the state already in force.
CASWantsEdge ==
    \A h \in Handles :
        at[h] = "cas" =>
            /\ msg[h] \in {"Arm", "Disarm"}
            /\ SC!ArmBit(current[h]) # WantedBit(h)

\* The interleaved loops implement the one-step calls of SessionControl.
ImplementsControl == SC!ControlSpec
================================================================================
