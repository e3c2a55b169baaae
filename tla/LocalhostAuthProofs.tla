------------------------ MODULE LocalhostAuthProofs ------------------------
(***************************************************************************)
(* The safety properties of LocalhostAuth, for any number of connections.  *)
(***************************************************************************)
EXTENDS LocalhostAuth, TLAPS

(* Some callback has been answered. *)
Answered == \E q \in Requests : request[q] = "answered"

(* What the call knows of the server where it stands.  Shutdown has been   *)
(* called exactly on the ways that lead through it, and only then can the  *)
(* goroutine report nil.                                                   *)
ServerInv ==
    /\ main = "opening" => server = "unborn"
    /\ main \in {"stopping", "polling"} => closing
    /\ main = "polling" => server # "listening"
    /\ closing => main \notin {"opening", "waiting"}
    /\ errs # "empty" => server = "ended"
    /\ errs = "nil" => closing

(* An element in stopChannel, or a call past its select, has a cause. *)
CauseInv ==
    /\ stop > 0 => Answered
    /\ main \in {"stopping", "polling"} => due \/ Answered

IInv ==
    /\ TypeOK
    /\ ServerInv
    /\ CauseInv
    /\ NilMeansQuiet
    /\ NilHasACause
    /\ PortIsFree

-----------------------------------------------------------------------------

LEMMA InitInv == Init => IInv
<1> SUFFICES ASSUME Init PROVE IInv
  OBVIOUS
<1>1. TypeOK
  <2>1. due \in BOOLEAN /\ closing \in BOOLEAN
    BY DEF Init
  <2>2. request \in [Requests -> RequestSteps]
    BY DEF Init, RequestSteps
  <2>3. stop \in 0..1
    BY DEF Init
  <2>4. /\ main \in MainSteps
        /\ result \in Results
        /\ main = "returned" <=> result # "none"
        /\ server \in ServerSteps
        /\ errs \in {"empty", "nil", "error"}
    BY DEF Init, MainSteps, Results, ServerSteps
  <2> QED BY <2>1, <2>2, <2>3, <2>4 DEF TypeOK
<1>2. ServerInv /\ PortIsFree
  BY DEF Init, ServerInv, PortIsFree
<1>3. CauseInv
  BY DEF Init, CauseInv
<1>4. NilMeansQuiet /\ NilHasACause
  BY DEF Init, NilMeansQuiet, NilHasACause
<1> QED BY <1>1, <1>2, <1>3, <1>4 DEF IInv

(* A step that leaves the connections and the listener's state alone. *)
LEMMA MainStep ==
    ASSUME IInv,
           \/ Open \/ OpenFails \/ ServeFailed \/ Stopped \/ TimedOut \/ GiveUp \/ Expire
    PROVE  IInv'
<1>1. /\ UNCHANGED request
      /\ Answered' <=> Answered
      /\ \A q \in Requests : Busy(q)' <=> Busy(q)
  BY DEF Open, OpenFails, ServeFailed, Stopped, TimedOut, GiveUp, Expire, Answered, Busy
<1> USE <1>1 DEF IInv, ServerInv, CauseInv, PortIsFree, Shutdown, Returned
<1> HIDE DEF Answered, Busy
<1>2. TypeOK'
  <2>1. /\ main' \in MainSteps
        /\ result' \in Results
        /\ server' \in ServerSteps
        /\ closing' \in BOOLEAN
        /\ due' \in BOOLEAN
        /\ errs' \in {"empty", "nil", "error"}
    BY DEF TypeOK, MainSteps, Results, ServerSteps,
       Open, OpenFails, ServeFailed, Stopped, TimedOut, GiveUp, Expire
  <2>2. main' = "returned" <=> result' # "none"
    BY DEF TypeOK, Open, OpenFails, ServeFailed, Stopped, TimedOut, GiveUp, Expire
  <2>3. stop' \in 0..1
    BY DEF TypeOK, Open, OpenFails, ServeFailed, Stopped, TimedOut, GiveUp, Expire
  <2> QED BY <2>1, <2>2, <2>3 DEF TypeOK
<1>3. ServerInv' /\ PortIsFree'
  BY DEF TypeOK, Open, OpenFails, ServeFailed, Stopped, TimedOut, GiveUp, Expire
<1>4. CauseInv'
  BY DEF TypeOK, Open, OpenFails, ServeFailed, Stopped, TimedOut, GiveUp, Expire
<1>5. result' = "ok" => result = "ok"
  BY DEF TypeOK, Open, OpenFails, ServeFailed, Stopped, TimedOut, GiveUp, Expire
<1>6. due => due'
  BY DEF Open, OpenFails, ServeFailed, Stopped, TimedOut, GiveUp, Expire
<1>7. NilMeansQuiet' /\ NilHasACause'
  BY <1>5, <1>6 DEF NilMeansQuiet, NilHasACause, Answered
<1> QED BY <1>2, <1>3, <1>4, <1>7

(* Shutdown's polls: the connections it closes were not answered. *)
LEMMA PollStep ==
    ASSUME IInv, NEW cut \in SUBSET Requests, Quiesced(cut) \/ StillBusy(cut)
    PROVE  IInv'
<1>1. /\ main \in {"stopping", "polling"} /\ server # "listening"
      /\ cut \subseteq {q \in Requests : request[q] = "connected"}
      /\ request' = [q \in Requests |-> IF q \in cut THEN "cut" ELSE request[q]]
      /\ UNCHANGED <<due, server, closing, errs, stop>>
  BY DEF Quiesced, StillBusy, Poll
<1>2. \/ main' = "returned" /\ result' = "ok" /\ \A q \in Requests : ~Busy(q)'
      \/ main' = "polling" /\ result' = result
  BY DEF Quiesced, StillBusy, Returned
<1>3. main # "returned" /\ result = "none"
  BY <1>1 DEF IInv, TypeOK
<1>4. TypeOK'
  BY <1>1, <1>2, <1>3 DEF IInv, TypeOK, MainSteps, Results, RequestSteps
<1>5. ServerInv' /\ PortIsFree'
  BY <1>1, <1>2 DEF IInv, ServerInv, PortIsFree
<1>6. Answered => Answered'
  <2>1. ASSUME NEW q \in Requests, request[q] = "answered"
        PROVE  request'[q] = "answered"
    BY <1>1, <2>1
  <2> QED BY <2>1 DEF Answered
<1>7. due \/ Answered
  BY <1>1 DEF IInv, CauseInv
<1>8. CauseInv' /\ NilHasACause'
  BY <1>1, <1>6, <1>7 DEF IInv, CauseInv, NilHasACause, Answered
<1>9. NilMeansQuiet'
  BY <1>2, <1>3 DEF NilMeansQuiet
<1> QED BY <1>4, <1>5, <1>8, <1>9 DEF IInv

LEMMA ServerStep ==
    ASSUME IInv, Serve
    PROVE  IInv'
<1>1. /\ UNCHANGED <<main, result, due, closing, stop, request>>
      /\ server \in {"starting", "listening"}
      /\ \/ server' = "listening" /\ ~closing /\ server = "starting" /\ errs' = errs
         \/ server' = "ended" /\ errs' = "error" /\ ~closing
         \/ server' = "ended" /\ errs' = "nil" /\ closing
  BY DEF Serve, Listen, ListenFails, ServerClosed
<1>2. TypeOK'
  BY <1>1 DEF IInv, TypeOK, ServerSteps
<1>3. ServerInv' /\ PortIsFree'
  BY <1>1 DEF IInv, ServerInv, PortIsFree
<1>4. CauseInv' /\ NilHasACause' /\ NilMeansQuiet'
  BY <1>1 DEF IInv, CauseInv, NilHasACause, NilMeansQuiet, Answered, Busy
<1> QED BY <1>2, <1>3, <1>4 DEF IInv

(* A connection is accepted only while the call has not returned. *)
LEMMA RequestStep ==
    ASSUME IInv, NEW q \in Requests,
           Connect(q) \/ Handle(q) \/ Finish(q) \/ Send(q)
    PROVE  IInv'
<1>1. UNCHANGED <<main, result, due, server, closing, errs>>
  BY DEF Connect, Handle, Finish, Send
<1>2. PICK step \in RequestSteps :
        /\ request' = [request EXCEPT ![q] = step]
        /\ step \in {"connected", "working", "sending"} =>
              Busy(q) \/ server = "listening"
        /\ request[q] # "answered"
        /\ stop' = stop \/ (stop' = 1 /\ step = "answered")
  BY DEF Connect, Handle, Finish, Send, Become, RequestSteps, Busy
<1>3. TypeOK'
  BY <1>1, <1>2 DEF IInv, TypeOK
<1>4. ServerInv' /\ PortIsFree'
  BY <1>1 DEF IInv, ServerInv, PortIsFree
<1>5. request'[q] = step /\ \A r \in Requests \ {q} : request'[r] = request[r]
  BY <1>2 DEF IInv, TypeOK
<1>6. Answered => Answered'
  BY <1>2, <1>5 DEF Answered
<1>7. stop' > 0 => Answered'
  BY <1>2, <1>5, <1>6 DEF IInv, CauseInv, Answered
<1>8. CauseInv' /\ NilHasACause'
  BY <1>1, <1>6, <1>7 DEF IInv, CauseInv, NilHasACause, Answered
<1>9. NilMeansQuiet'
  <2>1. result = "ok" => main = "returned" /\ server # "listening" /\ ~Busy(q)
    BY DEF IInv, TypeOK, PortIsFree, NilMeansQuiet
  <2>2. result = "ok" => ~Busy(q)'
    BY <1>2, <1>5, <2>1 DEF Busy
  <2> QED BY <1>1, <1>5, <2>2 DEF IInv, NilMeansQuiet, Busy
<1> QED BY <1>3, <1>4, <1>8, <1>9 DEF IInv

LEMMA NextInv == IInv /\ [Next]_vars => IInv'
<1> SUFFICES ASSUME IInv, [Next]_vars PROVE IInv'
  OBVIOUS
<1>1. CASE Proceed \/ Expire
  BY <1>1, MainStep, PollStep DEF Proceed
<1>2. CASE Serve
  BY <1>2, ServerStep
<1>3. CASE \E q \in Requests : Connect(q) \/ Handle(q) \/ Finish(q) \/ Send(q)
  BY <1>3, RequestStep
<1>4. CASE UNCHANGED vars
  BY <1>4 DEF vars, IInv, TypeOK, ServerInv, CauseInv, NilMeansQuiet, NilHasACause,
     PortIsFree, Answered, Busy
<1> QED BY <1>1, <1>2, <1>3, <1>4 DEF Next

LEMMA Invariance == Spec => []IInv
BY InitInv, NextInv, PTL DEF Spec

-----------------------------------------------------------------------------

(* The variables keep their types, and stopChannel its capacity. *)
THEOREM TypeCorrect == Spec => []TypeOK
<1>1. IInv => TypeOK
  BY DEF IInv
<1> QED BY <1>1, Invariance, PTL

(* LocalhostAuth never returns nil over a handler that is still at work.   *)
THEOREM NothingIsCutOff == Spec => []NilMeansQuiet
<1>1. IInv => NilMeansQuiet
  BY DEF IInv
<1> QED BY <1>1, Invariance, PTL

(* LocalhostAuth never returns nil for a server that failed. *)
THEOREM SuccessHasACause == Spec => []NilHasACause
<1>1. IInv => NilHasACause
  BY DEF IInv
<1> QED BY <1>1, Invariance, PTL

(* Whichever way LocalhostAuth returns, its port is free. *)
THEOREM PortIsReleased == Spec => []PortIsFree
<1>1. IInv => PortIsFree
  BY DEF IInv
<1> QED BY <1>1, Invariance, PTL
=============================================================================
