------------------------------ MODULE HeliosBackend ------------------------------
(***************************************************************************)
(* The Helios backend (protocols/helios/backend.rs, native.rs) under the   *)
(* session that drives it: the scan that finds the DAC by its name, the    *)
(* opening of the interface, the status poll before every frame, the write *)
(* of the frame, the shutter, and losing and reopening the handle.         *)
(*                                                                         *)
(* A backend is a record: `open`, it has an open handle; `fatal`, its      *)
(* fatal_disconnect; `seen`, whether an operation on the handle has found  *)
(* the device gone.  The handle of the session's backend stays open while *)
(* a candidate is looked for, unless it was disconnected before.           *)
(*                                                                         *)
(* The device takes a frame when it is ready, is then not, and becomes     *)
(* ready when it has swapped buffers.                                      *)
(***************************************************************************)
EXTENDS UsbEndpoints

CONSTANTS
    StatusErrorLimit,   \* STATUS_ERROR_LIMIT
    MaxTransient,       \* MAX_TRANSIENT_WRITE_RETRIES
    OutAttempts,        \* INIT_FW_OUT_ATTEMPTS
    InAttempts          \* INIT_FW_IN_ATTEMPTS

VARIABLES
    ready,              \* the device can take a frame
    own, cand,          \* the session's backend and the candidate for it
    hl,                 \* where the driver's thread is
    tries,              \* attempts of the firmware probe: out, and in for this one
    status_error_count,
    write_pending,
    transient_retries,
    stop_requested,
    overrun,            \* frames that came since the device was ready, but the first
    spoiled             \* whose handle, known to be of a device that is gone, was closed

adapterVars == <<write_pending, transient_retries>>
backendVars == <<own, cand, status_error_count, spoiled>>
frameVars == <<ready, overrun>>
heliosVars == <<usbVars, frameVars, hl, tries, stop_requested, adapterVars, backendVars>>

None == [open |-> FALSE, fatal |-> FALSE, seen |-> FALSE]
Opened == [open |-> TRUE, fatal |-> FALSE, seen |-> FALSE]

Places == {"scan", "ask", "name", "claim", "probe_out", "probe_in", "sdk", "first_close",
           "give_up", "retry", "top", "poll", "status", "write", "close", "stop", "end"}

HeliosTypeOK ==
    /\ ready \in BOOLEAN /\ overrun \in Nat
    /\ {own, cand} \subseteq [open : BOOLEAN, fatal : BOOLEAN, seen : BOOLEAN]
    /\ hl \in Places
    /\ tries.out \in 0..OutAttempts /\ tries.in \in 0..InAttempts
    /\ status_error_count \in 0..StatusErrorLimit
    /\ transient_retries \in 0..MaxTransient
    /\ {write_pending, stop_requested} \subseteq BOOLEAN
    /\ spoiled \subseteq {"scan", "open", "backend"}

HeliosInit(place) ==
    /\ ready = TRUE /\ own = None /\ cand = None /\ hl = place
    /\ tries = [out |-> 0, in |-> 0]
    /\ status_error_count = 0 /\ write_pending = FALSE /\ transient_retries = 0
    /\ stop_requested = FALSE /\ overrun = 0 /\ spoiled = {}

From(p) == hl = p /\ UNCHANGED <<stop_requested, present, silent>>

-------------------------------------------------------------------------------
(* The handle *)

\* Dropping the handle closes it, which releases the interface. `who` has it, and
\* `gone` says that an operation on it has found the device gone.
Dropped(who, gone) ==
    /\ spoiled' = (IF gone THEN spoiled \cup {who} ELSE spoiled)
    /\ claim' = IF Attached THEN "free" ELSE claim

Closed(b) == Dropped("backend", b.seen)

\* A handle that is forgotten keeps what it has claimed.
Leaked == claim' = (IF Attached THEN "leaked" ELSE claim) /\ UNCHANGED spoiled

\* Faulty variant: an orderly disconnect closes whatever handle there is.
DisconnectCloses(b) == IF b.open THEN Closed(b) ELSE UNCHANGED <<claim, spoiled>>

\* disconnect()
Disconnect(b) ==
    IF ~b.open THEN UNCHANGED <<claim, spoiled>> ELSE IF b.fatal THEN Leaked ELSE Closed(b)

\* map_err_ctx: the error that an operation of a backend ended in.
Noted(b, e) == [open |-> b.open, fatal |-> b.fatal \/ Fatal(e), seen |-> b.seen \/ e = "NoDevice"]

\* send_control for a request that asks for no answer, and what it comes to.
Command == Attached /\ ~silent /\ UNCHANGED <<budget, glitched>>

\* drain_stale_responses takes what is in the endpoint and what comes within 5 ms.
Drain ==
    /\ replies' = <<>>
    /\ \/ /\ reqs = <<>> \/ ~silent
          /\ reqs' = <<>> /\ late' = 0 /\ UNCHANGED budget
       \/ /\ reqs # <<>> /\ UNCHANGED reqs /\ late' = Len(reqs)
          /\ IF silent THEN UNCHANGED budget ELSE Spend("slow")
    /\ UNCHANGED glitched

-------------------------------------------------------------------------------
(* Finding the DAC: HeliosDiscoverer::scan and open_by_id *)

\* The id of a DAC is its name, or the port it is at if the name cannot be read;
\* the port is an alias for an id saved from it. Other ids match nothing.
Found(named) == IF named \/ budget.id = "port" THEN "claim" ELSE "retry"

\* read_name claims the interface, drains it and asks.
ScanClaims ==
    /\ From("scan") /\ present /\ claim = "free"
    /\ claim' = "scan" /\ Drain /\ hl' = "ask"
    /\ UNCHANGED <<frameVars, tries, adapterVars, backendVars>>

\* The interface is taken: no name. Without a device nothing is found.
ScanBusy ==
    /\ From("scan") /\ (present => claim # "free")
    /\ hl' = IF present THEN Found(FALSE) ELSE "retry"
    /\ UNCHANGED <<budget, glitched, claim, pipeVars, frameVars, tries, adapterVars, backendVars>>

\* The temporary handle is closed, whatever came of it: also by a transfer that has
\* just found the device gone.
Unname(named) ==
    /\ Dropped("scan", ~Attached)
    /\ hl' = (IF present THEN Found(named) ELSE "retry")
    /\ UNCHANGED <<frameVars, tries, adapterVars, own, cand, status_error_count>>

AskName ==
    /\ From("ask") /\ Submit("name", 0) /\ hl' = "name"
    /\ UNCHANGED <<claim, frameVars, tries, adapterVars, backendVars>>

AskNameFails ==
    /\ From("ask") /\ (\E e \in Errors : TransferFails(e))
    /\ Unname(FALSE) /\ UNCHANGED pipeVars

ReadName == From("name") /\ Take("name") /\ Unname(TRUE)

\* Another answer is in the way, or none comes.
ReadNameFails ==
    /\ From("name")
    /\ \/ Attached /\ replies # <<>> /\ Head(replies).what # "name" /\ Drain
       \/ (\E e \in Errors : ReadFails(e)) /\ UNCHANGED pipeVars
    /\ Unname(FALSE)

-------------------------------------------------------------------------------
(* connect: HeliosDac::open, and the shutter that has to be closed first *)

Open ==
    /\ From("claim") /\ present /\ claim = "free"
    /\ claim' = "candidate" /\ Drain
    /\ tries' = [out |-> 1, in |-> 0] /\ hl' = "probe_out"
    /\ UNCHANGED <<frameVars, adapterVars, backendVars>>

OpenBusy ==
    /\ From("claim") /\ (present => claim # "free") /\ hl' = "retry"
    /\ UNCHANGED <<budget, glitched, claim, pipeVars, frameVars, tries, adapterVars, backendVars>>

\* Faulty variant: a handle that could not be used keeps its interface.
OpenFailsClaimed == Leaked /\ hl' = "retry"

\* open() fails on a transfer and drops the handle it has not handed out, also if
\* the transfer has found the device gone.
OpenFails == Dropped("open", ~Attached) /\ hl' = "retry"

\* The next attempt of the probe, if there is one.
NextOut ==
    IF tries.out < OutAttempts
    THEN tries' = [out |-> tries.out + 1, in |-> 0] /\ hl' = "probe_out" /\ UNCHANGED <<claim, spoiled>>
    ELSE OpenFails /\ UNCHANGED tries

ProbeOut ==
    /\ From("probe_out")
    /\ \/ /\ Submit("firmware", 0) /\ tries' = [tries EXCEPT !.in = 1] /\ hl' = "probe_in"
          /\ UNCHANGED <<claim, spoiled>>
       \/ (\E e \in Errors : TransferFails(e)) /\ NextOut /\ UNCHANGED pipeVars
    /\ UNCHANGED <<frameVars, adapterVars, own, cand, status_error_count>>

ProbeIn ==
    /\ From("probe_in") /\ Take("firmware") /\ hl' = "sdk"
    /\ UNCHANGED <<claim, tries, frameVars, adapterVars, backendVars>>

\* Any other answer is passed over, and any error is taken for a slow device.
ProbeInAgain ==
    /\ From("probe_in")
    /\ \/ \E what \in {"status", "name"} : Take(what)
       \/ (\E e \in Errors : ReadFails(e)) /\ UNCHANGED pipeVars
    /\ IF tries.in < InAttempts
       THEN tries' = [tries EXCEPT !.in = @ + 1] /\ UNCHANGED <<claim, hl, spoiled>>
       ELSE NextOut
    /\ UNCHANGED <<frameVars, adapterVars, own, cand, status_error_count>>

\* send_sdk_version
SendSdk ==
    /\ From("sdk")
    /\ \/ Command /\ hl' = "first_close" /\ cand' = Opened /\ UNCHANGED <<claim, spoiled>>
       \/ (\E e \in Errors : TransferFails(e)) /\ OpenFails /\ UNCHANGED cand
    /\ UNCHANGED <<pipeVars, tries, frameVars, adapterVars, own, status_error_count>>

\* The candidate replaces the backend, whose Drop leaks a handle that is open.
Accept ==
    /\ From("first_close") /\ Command
    /\ own' = cand /\ cand' = None /\ claim' = "session" /\ hl' = "top"
    /\ status_error_count' = 0 /\ write_pending' = FALSE /\ transient_retries' = 0
    /\ UNCHANGED <<pipeVars, tries, frameVars, spoiled>>

FirstCloseFails ==
    /\ From("first_close")
    /\ \E e \in Errors : TransferFails(e) /\ cand' = Noted(cand, e)
    /\ hl' = "give_up"
    /\ UNCHANGED <<claim, pipeVars, tries, frameVars, adapterVars, own, status_error_count, spoiled>>

\* close_and_disconnect: the shutter once more, then the handle.
GiveUpCandidate ==
    /\ From("give_up")
    /\ \/ Command /\ Disconnect(cand)
       \/ \E e \in Errors : TransferFails(e) /\ Disconnect(Noted(cand, e))
    /\ cand' = None /\ hl' = "retry"
    /\ UNCHANGED <<pipeVars, tries, frameVars, adapterVars, own, status_error_count>>

\* The retry loop goes on until a stop is requested.
Retry ==
    /\ From("retry") /\ hl' = (IF stop_requested THEN "stop" ELSE "scan")
    /\ UNCHANGED <<budget, glitched, claim, pipeVars, frameVars, tries, adapterVars, backendVars>>

-------------------------------------------------------------------------------
(* The driver's loop and UsbFrameSwapAdapter::step *)

Top ==
    /\ From("top")
    /\ hl' = IF stop_requested THEN "close" ELSE IF own.open THEN "poll" ELSE "scan"
    /\ UNCHANGED <<budget, glitched, claim, pipeVars, frameVars, tries, adapterVars, backendVars>>

\* An operation on the session's backend that asks for no answer; errors are noted.
OwnCommand ==
    \/ Command /\ UNCHANGED own
    \/ \E e \in Errors : TransferFails(e) /\ own' = Noted(own, e)

\* An arm or a disarm is handled: set_shutter, and the adapter starts over.
SetShutter ==
    /\ From("top") /\ ~stop_requested /\ own.open /\ OwnCommand
    /\ write_pending' = FALSE /\ transient_retries' = 0 /\ hl' = "poll"
    /\ UNCHANGED <<claim, pipeVars, frameVars, tries, cand, status_error_count, spoiled>>

\* on_status_error: a handle that fails for good is leaked, one that fails too
\* often in a row is closed.
OnStatusError(e) ==
    /\ IF Fatal(e)
       THEN own' = None /\ Leaked /\ UNCHANGED status_error_count
       ELSE /\ status_error_count' = status_error_count + 1
            /\ IF status_error_count' >= StatusErrorLimit
               THEN own' = None /\ Closed(own)
               ELSE UNCHANGED <<own, claim, spoiled>>
    /\ hl' = "top"
    /\ UNCHANGED <<frameVars, tries, adapterVars, cand>>

\* is_ready_for_frame: status()
AskStatus ==
    /\ From("poll") /\ Submit("status", 0) /\ hl' = "status"
    /\ UNCHANGED <<claim, frameVars, tries, adapterVars, backendVars>>

AskStatusFails ==
    /\ From("poll") /\ UNCHANGED pipeVars
    /\ \E e \in Errors : TransferFails(e) /\ OnStatusError(e)

ReadStatus ==
    /\ From("status") /\ Take("status")
    /\ status_error_count' = 0
    /\ hl' = IF Head(replies).value = 1 THEN "write" ELSE "top"
    /\ UNCHANGED <<claim, frameVars, tries, adapterVars, own, cand, spoiled>>

\* The answer to something else: the endpoint is drained, the poll has failed.
ReadStatusWrong ==
    /\ From("status") /\ Attached
    /\ replies # <<>> /\ Head(replies).what # "status" /\ Drain
    /\ OnStatusError("Invalid")

ReadStatusFails ==
    /\ From("status") /\ StopWaiting
    /\ \E e \in Errors : ReadFails(e) /\ OnStatusError(e)

\* A frame reaches the device, which cannot keep two.
FrameIn == ready' = FALSE /\ overrun' = IF ready THEN 0 ELSE overrun + 1

\* write_frame_after_ready. A stall that clear_halt lifts ends well too.
WriteFrame ==
    /\ From("write") /\ Attached /\ ~silent
    /\ FrameIn /\ write_pending' = FALSE /\ transient_retries' = 0 /\ hl' = "top"
    /\ UNCHANGED <<budget, glitched, claim, pipeVars, tries, backendVars>>

\* A fatal error sends the driver to reconnect with the handle still open; others
\* are retried, and then disconnect the backend. The frame may have arrived.
WriteFails ==
    /\ From("write")
    /\ \E e \in Errors :
          /\ TransferFails(e)
          /\ UNCHANGED frameVars \/ (e = "Timeout" /\ FrameIn)
          /\ IF Fatal(e)
             THEN /\ own' = Noted(own, e) /\ hl' = "scan" /\ write_pending' = TRUE
                  /\ UNCHANGED <<transient_retries, claim, spoiled>>
             ELSE IF transient_retries < MaxTransient
             THEN /\ transient_retries' = transient_retries + 1 /\ write_pending' = TRUE
                  /\ hl' = "top" /\ UNCHANGED <<own, claim, spoiled>>
             ELSE /\ transient_retries' = 0 /\ write_pending' = FALSE
                  /\ Disconnect(own) /\ own' = None /\ hl' = "scan"
    /\ UNCHANGED <<pipeVars, tries, cand, status_error_count>>

\* stop_and_close_shutter
CloseShutter ==
    /\ From("close") /\ (IF own.open THEN OwnCommand ELSE UNCHANGED <<budget, glitched, own>>)
    /\ hl' = "stop"
    /\ UNCHANGED <<claim, pipeVars, frameVars, tries, adapterVars, cand, status_error_count, spoiled>>

\* end_session: stop(), then disconnect().
EndSession ==
    /\ From("stop")
    /\ \/ ~own.open /\ UNCHANGED <<budget, glitched, claim, spoiled>>
       \/ own.open /\ Command /\ Disconnect(own)
       \/ own.open /\ \E e \in Errors : TransferFails(e) /\ Disconnect(Noted(own, e))
    /\ own' = None /\ hl' = "end"
    /\ UNCHANGED <<pipeVars, frameVars, tries, adapterVars, cand, status_error_count>>

HeliosThread ==
    \/ ScanClaims \/ ScanBusy \/ AskName \/ AskNameFails \/ ReadName \/ ReadNameFails
    \/ Open \/ OpenBusy \/ ProbeOut \/ ProbeIn \/ ProbeInAgain \/ SendSdk
    \/ Accept \/ FirstCloseFails \/ GiveUpCandidate \/ Retry
    \/ Top \/ SetShutter \/ AskStatus \/ AskStatusFails
    \/ ReadStatus \/ ReadStatusWrong \/ ReadStatusFails
    \/ WriteFrame \/ WriteFails \/ CloseShutter \/ EndSession

-------------------------------------------------------------------------------
(* The device, other scans, and the application *)

Answer ==
    /\ \E what \in {"status", "firmware", "name"} :
          Handle(what, TRUE, TRUE, IF what = "status" /\ ready THEN 1 ELSE 0)
    /\ UNCHANGED <<budget, frameVars, hl, tries, stop_requested, adapterVars, backendVars>>

Swap ==
    /\ present /\ ~silent /\ ~ready /\ ready' = TRUE /\ overrun' = 0
    /\ UNCHANGED <<usbVars, hl, tries, stop_requested, adapterVars, backendVars>>

\* Another scan of the process reads the name. Its answer may come too late for it.
OtherClaims ==
    /\ present /\ claim = "free" /\ budget.other /\ claim' = "other" /\ Drain
    /\ UNCHANGED <<present, silent, frameVars, hl, tries, stop_requested, adapterVars, backendVars>>

OtherReleases ==
    /\ claim = "other" /\ claim' = "free"
    /\ \/ budget' = [budget EXCEPT !.other = FALSE] /\ UNCHANGED reqs
       \/ /\ ~silent /\ budget.slow > 0
          /\ budget' = [budget EXCEPT !.other = FALSE, !.slow = @ - 1]
          /\ reqs' = Append(Aged(reqs), [what |-> "name", arg |-> 0, fresh |-> TRUE])
    /\ UNCHANGED <<present, silent, glitched, replies, late>>
    /\ UNCHANGED <<frameVars, hl, tries, stop_requested, adapterVars, backendVars>>

Stop ==
    /\ ~stop_requested /\ budget.stop /\ stop_requested' = TRUE
    /\ UNCHANGED <<usbVars, frameVars, hl, tries, adapterVars, backendVars>>

\* A DAC that was unplugged comes back ready.
HeliosBus ==
    /\ \/ (Hang \/ Unplug) /\ UNCHANGED frameVars
       \/ Plug /\ ready' = TRUE /\ overrun' = 0
    /\ UNCHANGED <<hl, tries, stop_requested, adapterVars, backendVars>>

HeliosNext ==
    HeliosThread \/ Answer \/ Swap \/ OtherClaims \/ OtherReleases \/ Stop \/ HeliosBus

-------------------------------------------------------------------------------
(* Properties *)

\* Answers to earlier polls that are still under way, for each of which a poll gave
\* up: an answer in the way of another is cleared (drain_stale_responses), so that
\* the poll falls behind only by answers that came too late.
OldStatuses(q) == {i \in DOMAIN q : q[i].what = "status" /\ ~q[i].fresh}

StatusLag == Cardinality(OldStatuses(reqs)) + Cardinality(OldStatuses(replies)) <= late

\* A frame is written only to a DAC that is ready, also when it is written again
\* after an error that may have come after the frame had arrived: the device is
\* polled before every write of UsbFrameSwapAdapter. Answers that came too late for
\* their polls put the poll behind: each costs at most one frame that comes too early,
\* however long the session goes on with them, and none does once it has drained.
WrittenWhenReady == hl = "write" /\ Attached /\ ~ready => overrun < late

\* No backend closes its handle once an operation on it has found the device gone,
\* whatever operation that was and whoever tears down: libusb_close on a device that
\* was removed can crash the process, so disconnect, on_status_error and Drop leak it.
\* (read_name and an open that fails have handles of their own and close them in any
\* case: `spoiled` has them too.)
NeverClosedDead == "backend" \notin spoiled

Running == own.open /\ Attached /\ hl \in {"top", "poll", "status", "write"}

\* A session that has lost its DAC gets it back, unless the DAC is away, hung or has
\* reported an error of the fatal class without going away: whatever handle the
\* session, its candidates and scans have opened is closed again.
HeliosReconnects ==
    ~Running /\ hl # "end" ~> Running \/ hl = "end" \/ ~present \/ silent \/ glitched

\* A DAC that has hung is given up, however its polls and writes time out.
HungNoticed == silent /\ own.open /\ claim = "session" ~> ~own.open \/ ~silent \/ glitched
===============================================================================
