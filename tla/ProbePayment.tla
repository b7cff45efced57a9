---------------------------- MODULE ProbePayment ----------------------------
(***************************************************************************)
(* EstimateRouteFee's probe of an invoice: sendProbePayment.               *)
(*                                                                         *)
(* Two goroutines. The handler waits in a select for a payment status, an  *)
(* error of the worker, or the shutdown of the sub-server. The worker runs *)
(* SendPaymentV2 on a probePaymentStream: it prepares the payment,         *)
(* subscribes to it, sends it, and forwards every status to the handler on *)
(* an unbuffered channel. errChan has capacity 1 and is closed when the    *)
(* handler returns; a send on a closed Go channel panics, and a select     *)
(* whose send case is on a closed channel may take it.                     *)
(*                                                                         *)
(* The router and the control tower (which queues the statuses of the      *)
(* payment for its subscriber and closes the queue behind the last one),   *)
(* and gRPC's contexts, are outside this repository.                       *)
(***************************************************************************)
EXTENDS Naturals, Sequences

CONSTANT MaxAttempts      \* bound on the route attempts of the payment

ASSUME MaxAttemptsAssumption == MaxAttempts \in Nat

VARIABLES
  payment,       \* status of the payment in the control tower
  dispatched,    \* SendPaymentAsync was called for it
  attempts,      \* route attempts made so far
  updates,       \* the subscription's queue
  updatesClosed, \* the control tower closed the queue
  ctx,           \* the RPC context: live, or why it is done
  quit,          \* Server.quit is closed
  worker,        \* where the goroutine running SendPaymentV2 is
  carried,       \* the status it offers, or the error it reports
  errChan,       \* buffer of errChan
  errClosed,     \* errChan is closed
  handler,       \* sendProbePayment: waiting or returned
  result         \* what it returned

payVars == <<payment, dispatched, attempts, updates, updatesClosed>>
envVars == <<ctx, quit>>
workVars == <<worker, carried>>
chanVars == <<errChan, errClosed>>
handVars == <<handler, result>>
vars == <<payVars, envVars, workVars, chanVars, handVars>>

\* A payment that failed for INCORRECT_PAYMENT_DETAILS is told apart by what
\* its last attempt says: refused by the last hop of its route, by another hop,
\* or nothing, because there is no attempt or no route in it.
Refused == {"REFUSED_BY_FINAL_HOP", "REFUSED_BY_OTHER_HOP", "REFUSED_NO_ROUTE"}
Terminal == {"SUCCEEDED", "FAILED_OTHER"} \cup Refused
Statuses == {"INITIATED", "IN_FLIGHT"} \cup Terminal
Errors == {"bad_request", "subscribe_failed", "marshal_failed",
           "shutting_down", "deadline_exceeded"}

CtxDone == ctx # "live"

-----------------------------------------------------------------------------
Init ==
  /\ payment = "none" /\ dispatched = FALSE /\ attempts = 0
  /\ updates = <<>> /\ updatesClosed = FALSE
  /\ ctx = "live" /\ quit = FALSE
  /\ worker = "starting" /\ carried = "none"
  /\ errChan = <<>> /\ errClosed = FALSE
  /\ handler = "waiting" /\ result = "none"

-----------------------------------------------------------------------------
(* Ways on for the worker. *)

\* SendPaymentV2 returned err: the goroutine has to report it.
WorkerFails(err) == worker' = "reporting" /\ carried' = err

\* SendPaymentV2 returned nil: the goroutine ends.
WorkerEnds == worker' = "done" /\ carried' = "none"

\* trackPaymentStream returned the context's error: trackPayment turns a
\* cancellation into nil, a deadline stays an error.
WorkerCtxError ==
  IF ctx = "canceled" THEN WorkerEnds ELSE WorkerFails("deadline_exceeded")

\* timelockAndFee and paymentDetails: only the failure source of another hop
\* is an error, a missing attempt or route is an estimate of zero.
PaymentDetails(status) ==
  CASE status = "REFUSED_BY_FINAL_HOP" -> "fee_estimate"
    [] status = "REFUSED_BY_OTHER_HOP" -> "unexpected_failure_source"
    [] status = "REFUSED_NO_ROUTE"     -> "zero_fee"

\* Faulty: a status nobody thought of is returned as it is.
AnswerToVerbatim(status) ==
  CASE status \in {"INITIATED", "IN_FLIGHT"} -> "none"
    [] status = "SUCCEEDED"                  -> "warning_succeeded"
    [] OTHER                                 -> status

\* Faulty: the failure source is not looked at.
AnswerToAnySource(status) ==
  CASE status \in {"INITIATED", "IN_FLIGHT"} -> "none"
    [] status = "SUCCEEDED"                  -> "warning_succeeded"
    [] status = "REFUSED_NO_ROUTE"           -> "zero_fee"
    [] status = "FAILED_OTHER"               -> "failure_reason"
    [] OTHER                                 -> "fee_estimate"

\* How the handler answers to a status it receives; "none" is: keep waiting.
AnswerTo(status) ==
  CASE status \in {"INITIATED", "IN_FLIGHT"} -> "none"
    [] status = "SUCCEEDED"                  -> "warning_succeeded"
    [] status \in Refused                    -> PaymentDetails(status)
    [] status = "FAILED_OTHER"               -> "failure_reason"
    [] OTHER                                 -> "unexpected_status"

\* return of sendProbePayment; the deferred close(errChan) runs.
HandlerReturns(answer) ==
  /\ handler' = "returned"
  /\ result' = answer
  /\ errClosed' = TRUE

-----------------------------------------------------------------------------
(* Faulty variants of the definitions below. *)

\* An error is reported by a plain send: the worker blocks when nobody reads.
ReportUnconditionally ==
  /\ worker = "reporting"
  /\ errChan = <<>> /\ ~errClosed /\ handler = "waiting"
  /\ errChan' = <<carried>>
  /\ WorkerEnds
  /\ UNCHANGED <<payVars, envVars, errClosed, handVars>>

\* The worker's error is only logged.
ReportNothing ==
  /\ worker = "reporting"
  /\ WorkerEnds
  /\ UNCHANGED <<payVars, envVars, chanVars, handVars>>

\* errChan is closed as soon as the payment has been sent.
PrepareClosesErrChan ==
  /\ worker = "starting"
  /\ \/ WorkerFails("bad_request") /\ errClosed' = TRUE
        /\ UNCHANGED <<payVars, errChan>>
     \/ /\ payment' = "INITIATED" /\ dispatched' = TRUE
        /\ updates' = <<"INITIATED">>
        /\ worker' = "tracking"
        /\ UNCHANGED <<attempts, updatesClosed, carried, chanVars>>
  /\ UNCHANGED <<envVars, handVars>>

-----------------------------------------------------------------------------
(* The worker: SendPaymentV2 on the probe's stream. *)

\* The request is refused (extractIntentFromSendRequest, PreparePayment), or
\* the subscription fails with the payment already initiated and never sent,
\* or the payment is handed to the router.
PrepareAndSend ==
  /\ worker = "starting"
  /\ \/ WorkerFails("bad_request")
        /\ UNCHANGED payVars
     \/ /\ WorkerFails("subscribe_failed")
        /\ payment' = "INITIATED"
        /\ UNCHANGED <<dispatched, attempts, updates, updatesClosed>>
     \/ /\ payment' = "INITIATED" /\ dispatched' = TRUE
        /\ updates' = <<"INITIATED">>
        /\ worker' = "tracking"
        /\ UNCHANGED <<attempts, updatesClosed, carried>>
  /\ UNCHANGED <<envVars, chanVars, handVars>>

\* select of trackPaymentStream, first case: an update is marshalled and
\* offered on the stream.
TakeUpdate ==
  /\ worker = "tracking"
  /\ updates # <<>>
  /\ updates' = Tail(updates)
  /\ \/ worker' = "offering" /\ carried' = Head(updates)
     \/ WorkerFails("marshal_failed")
  /\ UNCHANGED <<payment, dispatched, attempts, updatesClosed>>
  /\ UNCHANGED <<envVars, chanVars, handVars>>

\* The other cases: no more updates, shutdown, context done.
StopTracking ==
  /\ worker = "tracking"
  /\ \/ updates = <<>> /\ updatesClosed /\ WorkerEnds
     \/ quit /\ WorkerFails("shutting_down")
     \/ CtxDone /\ WorkerCtxError
  /\ UNCHANGED <<payVars, envVars, chanVars, handVars>>

\* probePaymentStream.Send meets the handler's receive: one step of both.
Deliver ==
  /\ worker = "offering" /\ handler = "waiting"
  /\ worker' = "tracking" /\ carried' = "none"
  /\ IF AnswerTo(carried) = "none"
     THEN UNCHANGED <<errClosed, handVars>>
     ELSE HandlerReturns(AnswerTo(carried))
  /\ UNCHANGED <<payVars, envVars, errChan>>

\* probePaymentStream.Send gives up: the context is done.
SendCtxDone ==
  /\ worker = "offering" /\ CtxDone
  /\ WorkerCtxError
  /\ UNCHANGED <<payVars, envVars, chanVars, handVars>>

\* The goroutine's last select: errChan <- err, or the context is done.
Report ==
  /\ worker = "reporting"
  /\ \/ errClosed /\ worker' = "panicked"
        /\ UNCHANGED <<carried, errChan>>
     \/ ~errClosed /\ errChan = <<>> /\ errChan' = <<carried>> /\ WorkerEnds
     \/ CtxDone /\ WorkerEnds /\ UNCHANGED errChan
  /\ UNCHANGED <<payVars, envVars, errClosed, handVars>>

-----------------------------------------------------------------------------
(* The handler's other cases. *)

TakeError ==
  /\ handler = "waiting" /\ errChan # <<>>
  /\ errChan' = <<>>
  /\ HandlerReturns(Head(errChan))
  /\ UNCHANGED <<payVars, envVars, workVars>>

TakeQuit ==
  /\ handler = "waiting" /\ quit
  /\ HandlerReturns("shutting_down")
  /\ UNCHANGED <<payVars, envVars, workVars, errChan>>

-----------------------------------------------------------------------------
(* Outside: the router, the client, the sub-server's Stop. *)

Settle(status) ==
  /\ payment' = status
  /\ updates' = IF worker \in {"tracking", "offering"}
                THEN Append(updates, status) ELSE updates
  /\ updatesClosed' = (status \in Terminal)

\* The router advances a payment it was given, until its attempts or its
\* timeout are used up. No hop settles or refuses what was never sent.
RouterAdvances ==
  /\ dispatched
  /\ payment \in {"INITIATED", "IN_FLIGHT"}
  /\ \/ attempts < MaxAttempts /\ attempts' = attempts + 1
        /\ Settle("IN_FLIGHT")
     \/ /\ \E t \in Terminal :
             /\ attempts > 0 \/ t \in {"FAILED_OTHER", "REFUSED_NO_ROUTE"}
             /\ Settle(t)
        /\ UNCHANGED attempts
  /\ UNCHANGED <<dispatched, envVars, workVars, chanVars, handVars>>

ClientGivesUp ==
  /\ ctx = "live" /\ handler = "waiting"
  /\ ctx' \in {"canceled", "deadline"}
  /\ UNCHANGED <<payVars, quit, workVars, chanVars, handVars>>

\* gRPC cancels the context of a handler that returned; the client's deadline
\* may still come first.
ContextEnds ==
  /\ ctx = "live" /\ handler = "returned"
  /\ ctx' \in {"canceled", "deadline"}
  /\ UNCHANGED <<payVars, quit, workVars, chanVars, handVars>>

Stop ==
  /\ ~quit
  /\ quit' = TRUE
  /\ UNCHANGED <<payVars, ctx, workVars, chanVars, handVars>>

-----------------------------------------------------------------------------
Worker == PrepareAndSend \/ TakeUpdate \/ StopTracking \/ SendCtxDone \/ Report
Handler == TakeError \/ TakeQuit

Next ==
  \/ Worker \/ Handler \/ Deliver
  \/ RouterAdvances \/ ClientGivesUp \/ ContextEnds \/ Stop

Spec == Init /\ [][Next]_vars

\* Goroutines keep running, gRPC cancels the context of a finished call, and
\* the payment ends at the latest when its TimeoutSeconds are over.
Fairness ==
  /\ WF_vars(Worker) /\ WF_vars(Handler) /\ WF_vars(Deliver)
  /\ WF_vars(ContextEnds)
  /\ WF_vars(RouterAdvances)

FairSpec == Spec /\ Fairness

-----------------------------------------------------------------------------
TypeOK ==
  /\ payment \in Statuses \cup {"none"}
  /\ dispatched \in BOOLEAN /\ attempts \in 0..MaxAttempts
  /\ updates \in Seq(Statuses) /\ updatesClosed \in BOOLEAN
  /\ ctx \in {"live", "canceled", "deadline"} /\ quit \in BOOLEAN
  /\ worker \in {"starting", "tracking", "offering", "reporting", "done",
                 "panicked"}
  /\ carried \in Statuses \cup Errors \cup {"none"}
  /\ errChan \in Seq(Errors) /\ Len(errChan) <= 1 /\ errClosed \in BOOLEAN
  /\ handler \in {"waiting", "returned"}
  /\ result \in Errors \cup
        {"none", "warning_succeeded", "fee_estimate", "zero_fee",
         "unexpected_failure_source", "failure_reason", "unexpected_status"}

\* The answer is about the payment that was probed: the fee of a route only if
\* an attempt got to the end of that route and was refused there, an estimate
\* of zero only if the refused payment has no route to tell of, an error if
\* another hop refused it, the refund warning only if it was settled, a failure
\* reason only if it failed otherwise, and "shutting down" only if lnd is.
AnswerMatchesPayment ==
  /\ result = "fee_estimate" => payment = "REFUSED_BY_FINAL_HOP" /\ attempts > 0
  /\ result = "zero_fee" => payment = "REFUSED_NO_ROUTE"
  /\ result = "unexpected_failure_source" => payment = "REFUSED_BY_OTHER_HOP"
  /\ result = "warning_succeeded" => payment = "SUCCEEDED"
  /\ result = "failure_reason" => payment = "FAILED_OTHER"
  /\ result = "shutting_down" => quit

\* The worker can only hit the closed error channel when the sub-server shuts
\* down or the call's deadline passes while the handler is returning: a probe
\* that simply ends, or is canceled, never does.
PanicNeedsShutdownOrDeadline ==
  worker = "panicked" => quit \/ ctx = "deadline"

\* The code's promise on Stop, "signals any active goroutines for a graceful
\* closure": no goroutine of a probe crashes the process.
GracefulClosure == worker # "panicked"

\* No goroutine outlives the call for ever, whatever it is blocked on.
WorkerDoesNotLeak ==
  handler = "returned" ~> worker \in {"done", "panicked"}

\* A client that stays gets its answer.
PatientClientAnswered ==
  <>(handler = "returned" \/ CtxDone)

\* The handler of sendProbePayment and its worker never leave each other behind:
\* no goroutine leaks, and no client waits in vain.
NobodyLeftWaiting == WorkerDoesNotLeak /\ PatientClientAnswered

\* "The estimation duration is limited by a timeout": the handler returns.
EstimationEnds == <>(handler = "returned")

=============================================================================
