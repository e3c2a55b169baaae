--------------------------- MODULE LocalhostAuth ---------------------------
(***************************************************************************)
(* EVESSO.LocalhostAuth: a call opens the browser, serves the callback URL *)
(* from a goroutine and waits for the first of three things: the server    *)
(* fails, a callback has been handled, or 5 minutes have passed.  Handlers *)
(* tell the call that they are done through stopChannel, which holds one   *)
(* element and is received from once.                                      *)
(*                                                                         *)
(* What a handler does before that is module Callback; here it takes any   *)
(* time, or for ever.  Server, Shutdown included, is that of net/http.     *)
(***************************************************************************)
EXTENDS Naturals

CONSTANT Requests    \* connections the browser makes to the callback URL

VARIABLES
    main,     \* where the call stands
    result,   \* what it has returned
    due,      \* its context's 5 minutes have passed
    server,   \* the server goroutine
    closing,  \* srv.Shutdown has been called
    errs,     \* what errChannel holds
    stop,     \* how many elements stopChannel holds
    request   \* request[q]: a connection and the handler it starts

vars == <<main, result, due, server, closing, errs, stop, request>>

(* The call: before the browser is open, in its select, in Shutdown before *)
(* and after its first look at the connections, and back.                  *)
MainSteps == {"opening", "waiting", "stopping", "polling", "returned"}

Results == {"none", "ok", "openFailed", "serveFailed", "deadline"}

ServerSteps == {"unborn", "starting", "listening", "ended"}

(* A connection: accepted and nothing read; the handler at work; the       *)
(* handler in its deferred send; answered; closed by Shutdown; refused.    *)
RequestSteps ==
    {"none", "connected", "working", "sending", "answered", "cut", "refused"}

(* The connections Shutdown does not find idle. *)
Busy(q) == request[q] \in {"connected", "working", "sending"}

Init ==
    /\ main = "opening"
    /\ result = "none"
    /\ due = FALSE
    /\ server = "unborn"
    /\ closing = FALSE
    /\ errs = "empty"
    /\ stop = 0
    /\ request = [q \in Requests |-> "none"]

Become(q, step) == request' = [request EXCEPT ![q] = step]

Returned(r) == main' = "returned" /\ result' = r

-----------------------------------------------------------------------------
(* The call.                                                               *)

(* The browser runs, and the server goroutine is started. *)
Open ==
    /\ main = "opening"
    /\ main' = "waiting"
    /\ server' = "starting"
    /\ UNCHANGED <<result, due, closing, errs, stop, request>>

(* utils.OSExec or url.Parse fails. *)
OpenFails ==
    /\ main = "opening"
    /\ Returned("openFailed")
    /\ UNCHANGED <<due, server, closing, errs, stop, request>>

(* case serveErr := <-errChannel *)
ServeFailed ==
    /\ main = "waiting"
    /\ errs # "empty"
    /\ errs' = "empty"
    /\ Returned(IF errs = "error" THEN "serveFailed" ELSE "ok")
    /\ UNCHANGED <<due, server, closing, stop, request>>

(* Shutdown closes the listener; what it waits for comes below. *)
Shutdown == main' = "stopping" /\ closing' = TRUE

(* case <-stopChannel *)
Stopped ==
    /\ main = "waiting"
    /\ stop > 0
    /\ stop' = stop - 1
    /\ Shutdown
    /\ UNCHANGED <<result, due, server, errs, request>>

TimedOutLeavesServer ==
    /\ main = "waiting"
    /\ due
    /\ Returned("ok")
    /\ UNCHANGED <<due, server, closing, errs, stop, request>>

(* case <-ctx.Done() *)
TimedOut ==
    /\ main = "waiting"
    /\ due
    /\ Shutdown
    /\ UNCHANGED <<result, due, server, errs, stop, request>>

(* Shutdown looks at the connections once Serve has let go of the listener, *)
(* and closes those on which nothing has come for 5 seconds.                *)
Poll(cut) ==
    /\ main \in {"stopping", "polling"}
    /\ server # "listening"
    /\ cut \subseteq {q \in Requests : request[q] = "connected"}
    /\ request' = [q \in Requests |-> IF q \in cut THEN "cut" ELSE request[q]]
    /\ UNCHANGED <<due, server, closing, errs, stop>>

QuiescedAtOnce(cut) == Poll(cut) /\ Returned("ok")

Quiesced(cut) ==
    /\ Poll(cut)
    /\ \A q \in Requests : ~Busy(q)'
    /\ Returned("ok")

StillBusy(cut) ==
    /\ Poll(cut)
    /\ \E q \in Requests : Busy(q)'
    /\ main' = "polling"
    /\ UNCHANGED result

GiveUpNever ==
    /\ main = "polling"
    /\ due
    /\ \A q \in Requests : ~Busy(q)
    /\ Returned("deadline")
    /\ UNCHANGED <<due, server, closing, errs, stop, request>>

(* Shutdown returns ctx.Err(), the handlers go on. *)
GiveUp ==
    /\ main = "polling"
    /\ due
    /\ Returned("deadline")
    /\ UNCHANGED <<due, server, closing, errs, stop, request>>

(* The 5 minutes of context.WithTimeout. *)
Expire ==
    /\ main \in {"waiting", "stopping", "polling"}
    /\ ~due
    /\ due' = TRUE
    /\ UNCHANGED <<main, result, server, closing, errs, stop, request>>

-----------------------------------------------------------------------------
(* The server goroutine.                                                   *)

Listen ==
    /\ server = "starting"
    /\ ~closing
    /\ server' = "listening"
    /\ UNCHANGED <<main, result, due, closing, errs, stop, request>>

ListenFailsSilently ==
    /\ server \in {"starting", "listening"}
    /\ server' = "ended"
    /\ errs' = "nil"
    /\ UNCHANGED <<main, result, due, closing, stop, request>>

(* The port is taken, the certificate cannot be read, or Accept fails. *)
ListenFails ==
    /\ server \in {"starting", "listening"}
    /\ ~closing
    /\ server' = "ended"
    /\ errs' = "error"
    /\ UNCHANGED <<main, result, due, closing, stop, request>>

(* http.ErrServerClosed is passed on as nil. *)
ServerClosed ==
    /\ server \in {"starting", "listening"}
    /\ closing
    /\ server' = "ended"
    /\ errs' = "nil"
    /\ UNCHANGED <<main, result, due, closing, stop, request>>

-----------------------------------------------------------------------------
(* The browser and the handlers.                                           *)

Connect(q) ==
    /\ request[q] = "none"
    /\ main # "opening"
    /\ Become(q, IF server = "listening" /\ ~closing THEN "connected" ELSE "refused")
    /\ UNCHANGED <<main, result, due, server, closing, errs, stop>>

(* The request is read and its handler starts, during Shutdown too. *)
Handle(q) ==
    /\ request[q] = "connected"
    /\ Become(q, "working")
    /\ UNCHANGED <<main, result, due, server, closing, errs, stop>>

(* Any of the handler's returns, an error or not. *)
Finish(q) ==
    /\ request[q] = "working"
    /\ Become(q, "sending")
    /\ UNCHANGED <<main, result, due, server, closing, errs, stop>>

SendUnbuffered(q) ==
    /\ request[q] = "sending"
    /\ main = "waiting"
    /\ stop = 0
    /\ stop' = 1
    /\ Become(q, "answered")
    /\ UNCHANGED <<main, result, due, server, closing, errs>>

SendOverflows(q) ==
    /\ request[q] = "sending"
    /\ stop' = stop + 1
    /\ Become(q, "answered")
    /\ UNCHANGED <<main, result, due, server, closing, errs>>

(* defer func() { stopChannel <- struct{}{} }(): the response is written   *)
(* when the handler has returned, after the send.                          *)
Send(q) ==
    /\ request[q] = "sending"
    /\ stop = 0
    /\ stop' = 1
    /\ Become(q, "answered")
    /\ UNCHANGED <<main, result, due, server, closing, errs>>

-----------------------------------------------------------------------------

(* The steps of the call. *)
Proceed ==
    \/ Open \/ OpenFails
    \/ ServeFailed \/ Stopped \/ TimedOut
    \/ \E cut \in SUBSET Requests : Quiesced(cut) \/ StillBusy(cut)
    \/ GiveUp

Serve == Listen \/ ListenFails \/ ServerClosed

Next ==
    \/ Proceed
    \/ Serve
    \/ Expire
    \/ \E q \in Requests : Connect(q) \/ Handle(q) \/ Finish(q) \/ Send(q)

Spec == Init /\ [][Next]_vars

(* The call and the server goroutine run, time passes, and a send that     *)
(* finds room is made.  That Shutdown gives up is fair by itself: however  *)
(* often it finds handlers busy, its select on ctx.Done() is taken.        *)
(* Nothing says that a handler ever finishes or that the browser comes.    *)
FairSpec ==
    /\ Spec
    /\ WF_vars(Proceed)
    /\ WF_vars(GiveUp)
    /\ WF_vars(Serve)
    /\ WF_vars(Expire)
    /\ \A q \in Requests : WF_vars(Send(q))

-----------------------------------------------------------------------------
(* Properties.                                                             *)

(* The variables hold values of their types, stopChannel never more than   *)
(* its capacity.                                                           *)
TypeOK ==
    /\ main \in MainSteps
    /\ result \in Results
    /\ main = "returned" <=> result # "none"
    /\ due \in BOOLEAN
    /\ server \in ServerSteps
    /\ closing \in BOOLEAN
    /\ errs \in {"empty", "nil", "error"}
    /\ stop \in 0..1
    /\ request \in [Requests -> RequestSteps]

(* When LocalhostAuth returns nil no handler is at work any more: a        *)
(* program that goes on, or exits, cuts no authorization off half way.     *)
NilMeansQuiet == result = "ok" => \A q \in Requests : ~Busy(q)

(* LocalhostAuth returns nil only because a callback was handled or its    *)
(* 5 minutes passed (autoconfig.go:335-342, README.md:113); a server that  *)
(* could not start, or died, is not reported as success.                   *)
NilHasACause ==
    result = "ok" => due \/ \E q \in Requests : request[q] = "answered"

(* Once LocalhostAuth has returned, in whatever way, its listener is       *)
(* closed and no later connection is served: the next call can have the    *)
(* port.                                                                   *)
PortIsFree ==
    main = "returned" =>
        /\ server # "listening"
        /\ server = "starting" => closing

(* LocalhostAuth returns, although handlers may never finish and those     *)
(* that do may be stuck in their send (README.md:479: it blocks for up to  *)
(* 5 minutes).                                                             *)
Returns == main = "waiting" ~> main = "returned"

(* A handler that is done is kept from answering its browser only by       *)
(* another one that did answer, even if nobody receives from stopChannel.  *)
SomebodyIsAnswered ==
    \A q \in Requests :
        request[q] = "sending" ~> \E r \in Requests : request[r] = "answered"
=============================================================================
