-------------------------- MODULE ProbePayment_proofs --------------------------
(***************************************************************************)
(* Proofs about ProbePayment, for any number of route attempts: what the    *)
(* handler answers is true of the payment, and what can make the worker     *)
(* panic.                                                                   *)
(***************************************************************************)
EXTENDS ProbePayment, TLAPS

\* A final status ends the queue, and is the payment's; no hop refuses a payment
\* of which no attempt was made.
QueueInv ==
    /\ \A i \in 1..Len(updates) :
          updates[i] \in Terminal => i = Len(updates) /\ payment = updates[i]
    /\ worker = "offering" =>
          carried \in Statuses /\ (carried \in Terminal => updates = <<>> /\ payment = carried)
    /\ worker = "starting" => payment = "none" /\ ~dispatched /\ updates = <<>>
    /\ payment = "REFUSED_BY_FINAL_HOP" => attempts > 0

\* An error is reported once, by a worker that ends, and "shutting_down" only
\* when lnd does.
ErrorInv ==
    /\ worker = "reporting" => carried \in Errors /\ (carried = "shutting_down" => quit)
    /\ errChan # <<>> => worker = "done" /\ (Head(errChan) = "shutting_down" => quit)

\* The channel is closed when the handler returns.  A worker that still runs then
\* has nothing to forward and nothing to report, unless the sub-server stops or
\* the call's deadline has passed.
ClosedInv ==
    /\ errClosed <=> handler = "returned"
    /\ errClosed =>
          \/ quit \/ ctx = "deadline" \/ worker = "done"
          \/ worker = "tracking" /\ updates = <<>> /\ payment \in Terminal

ProbeInv ==
    /\ TypeOK /\ QueueInv /\ ErrorInv /\ ClosedInv
    /\ AnswerMatchesPayment /\ PanicNeedsShutdownOrDeadline

LEMMA OneElement ==
    ASSUME NEW S, NEW x \in S
    PROVE  <<x>> \in Seq(S) /\ Len(<<x>>) = 1
  OBVIOUS

LEMMA MembershipDecided ==
    ASSUME NEW S, NEW x, NEW y, y = (x \in S)
    PROVE  y \in BOOLEAN
  OBVIOUS

LEMMA InitProbe == Init => ProbeInv
<1> SUFFICES ASSUME Init PROVE ProbeInv
  OBVIOUS
<1> USE MaxAttemptsAssumption DEF Init, ProbeInv, TypeOK, QueueInv, ErrorInv, ClosedInv,
     AnswerMatchesPayment, PanicNeedsShutdownOrDeadline, Statuses, Terminal, Refused,
     MaxAttemptsAssumption
<1>1. TypeOK
  <2>1. updates \in Seq(Statuses) /\ errChan \in Seq(Errors) /\ Len(errChan) <= 1
    OBVIOUS
  <2>2. {dispatched, updatesClosed, quit, errClosed} \subseteq BOOLEAN
    BY Zenon
  <2> QED BY <2>1, <2>2
<1>2. QueueInv
  OBVIOUS
<1>3. ErrorInv
  OBVIOUS
<1>4. ClosedInv
  OBVIOUS
<1>5. AnswerMatchesPayment
  OBVIOUS
<1>6. PanicNeedsShutdownOrDeadline
  OBVIOUS
<1> QED BY <1>1, <1>2, <1>3, <1>4, <1>5, <1>6

\* The steps that leave the handler and its answer alone.
LEMMA WorkerSteps ==
    ASSUME ProbeInv, Worker
    PROVE  ProbeInv'
<1> USE DEF ProbeInv, TypeOK, QueueInv, ErrorInv, ClosedInv, AnswerMatchesPayment,
     PanicNeedsShutdownOrDeadline, Statuses, Terminal, Refused, Errors, payVars, envVars, workVars,
     chanVars, handVars, WorkerFails, WorkerEnds, WorkerCtxError, CtxDone
<1>1. CASE PrepareAndSend
  <2>1. TypeOK'
    <3>1. updates' \in Seq(Statuses)
      <4>1. updates' = updates \/ updates' = <<"INITIATED">>
        BY <1>1 DEF PrepareAndSend
      <4> QED BY <4>1, OneElement
    <3>2. dispatched' \in BOOLEAN
      BY <1>1, Zenon DEF PrepareAndSend
    <3>3. /\ payment' \in {payment, "INITIATED"}
          /\ UNCHANGED <<attempts, updatesClosed, envVars, chanVars, handVars>>
          /\ worker' \in {"tracking", "reporting"}
          /\ carried' \in {carried} \cup Errors
      BY <1>1 DEF PrepareAndSend
    <3> QED BY <3>1, <3>2, <3>3
  <2>2. QueueInv'
    BY <1>1 DEF PrepareAndSend
  <2>3. ErrorInv'
    BY <1>1 DEF PrepareAndSend
  <2>4. ClosedInv'
    BY <1>1 DEF PrepareAndSend
  <2>5. AnswerMatchesPayment'
    BY <1>1 DEF PrepareAndSend
  <2>6. PanicNeedsShutdownOrDeadline'
    BY <1>1 DEF PrepareAndSend
  <2> QED BY <2>1, <2>2, <2>3, <2>4, <2>5, <2>6
<1>2. CASE TakeUpdate
  BY <1>2 DEF TakeUpdate
<1>3. CASE StopTracking
  BY <1>3 DEF StopTracking
<1>4. CASE SendCtxDone
  BY <1>4 DEF SendCtxDone
<1>5. CASE Report
  <2>1. TypeOK'
    <3>1. errChan' \in Seq(Errors) /\ Len(errChan') <= 1
      <4>1. errChan' = errChan \/ (errChan' = <<carried>> /\ carried \in Errors)
        BY <1>5 DEF Report
      <4>2. errChan \in Seq(Errors) /\ Len(errChan) <= 1
        OBVIOUS
      <4>3. CASE errChan' = <<carried>> /\ carried \in Errors
        <5> HIDE DEF Errors
        <5>1. <<carried>> \in Seq(Errors) /\ Len(<<carried>>) = 1
          BY <4>3, OneElement
        <5> QED BY <4>3, <5>1
      <4> QED BY <4>1, <4>2, <4>3
    <3>2. /\ worker' \in {"panicked", "done"} /\ carried' \in {carried, "none"}
          /\ UNCHANGED <<payVars, envVars, errClosed, handVars>>
      BY <1>5 DEF Report
    <3> QED BY <3>1, <3>2
  <2>2. QueueInv'
    BY <1>5 DEF Report
  <2>3. ErrorInv'
    BY <1>5 DEF Report
  <2>4. ClosedInv'
    BY <1>5 DEF Report
  <2>5. AnswerMatchesPayment'
    BY <1>5 DEF Report
  <2>6. PanicNeedsShutdownOrDeadline'
    BY <1>5 DEF Report
  <2> QED BY <2>1, <2>2, <2>3, <2>4, <2>5, <2>6
<1> QED BY <1>1, <1>2, <1>3, <1>4, <1>5 DEF Worker

LEMMA HandlerSteps ==
    ASSUME ProbeInv, Handler \/ Deliver
    PROVE  ProbeInv'
<1> USE DEF ProbeInv, TypeOK, QueueInv, ErrorInv, ClosedInv, AnswerMatchesPayment,
     PanicNeedsShutdownOrDeadline, Statuses, Terminal, Refused, Errors, payVars, envVars, workVars,
     chanVars, handVars, HandlerReturns
<1>1. CASE TakeError
  BY <1>1 DEF TakeError
<1>2. CASE TakeQuit
  BY <1>2 DEF TakeQuit
<1>3. CASE Deliver
  <2>1. CASE AnswerTo(carried) = "none"
    BY <1>3, <2>1 DEF Deliver
  <2>2. CASE AnswerTo(carried) # "none"
    <3>1. \/ carried = "SUCCEEDED" /\ AnswerTo(carried) = "warning_succeeded"
          \/ carried = "REFUSED_BY_FINAL_HOP" /\ AnswerTo(carried) = "fee_estimate"
          \/ carried = "REFUSED_BY_OTHER_HOP"
             /\ AnswerTo(carried) = "unexpected_failure_source"
          \/ carried = "REFUSED_NO_ROUTE" /\ AnswerTo(carried) = "zero_fee"
          \/ carried = "FAILED_OTHER" /\ AnswerTo(carried) = "failure_reason"
      BY <1>3, <2>2 DEF Deliver, AnswerTo, PaymentDetails
    <3> QED BY <1>3, <2>2, <3>1 DEF Deliver
  <2> QED BY <2>1, <2>2
<1> QED BY <1>1, <1>2, <1>3 DEF Handler

LEMMA OutsideSteps ==
    ASSUME ProbeInv, RouterAdvances \/ ClientGivesUp \/ ContextEnds \/ Stop
    PROVE  ProbeInv'
<1> USE MaxAttemptsAssumption DEF ProbeInv, TypeOK, QueueInv, ErrorInv, ClosedInv,
     AnswerMatchesPayment, PanicNeedsShutdownOrDeadline, Statuses, Terminal, Refused, Errors, payVars,
     envVars, workVars, chanVars, handVars, MaxAttemptsAssumption
<1>1. CASE RouterAdvances
  <2>0. PICK status \in Statuses :
          /\ payment' = status
          /\ updates' = IF worker \in {"tracking", "offering"}
                        THEN Append(updates, status) ELSE updates
          /\ updatesClosed' = (status \in Terminal)
          /\ attempts' \in 0..MaxAttempts
          /\ status = "REFUSED_BY_FINAL_HOP" => attempts' > 0
    BY <1>1 DEF RouterAdvances, Settle
  <2>a. payment \in {"INITIATED", "IN_FLIGHT"} /\ dispatched
        /\ UNCHANGED <<dispatched, envVars, workVars, chanVars, handVars>>
    BY <1>1 DEF RouterAdvances
  <2>1. TypeOK'
    <3>1. updates' \in Seq(Statuses)
      BY <2>0
    <3>2. updatesClosed' \in BOOLEAN
      <4>1. updatesClosed' = (status \in Terminal)
        BY <2>0
      <4> HIDE DEF Terminal, Refused
      <4> QED BY <4>1, MembershipDecided
    <3> QED BY <2>0, <2>a, <3>1, <3>2
  <2>2. QueueInv'
    <3>1. \A i \in 1..Len(updates) : updates[i] \notin Terminal
      BY <2>a
    <3>2. worker # "starting" /\ (worker = "offering" => carried \notin Terminal)
      BY <2>a
    <3>3. CASE worker \in {"tracking", "offering"}
      <4>1. updates' = Append(updates, status)
        BY <2>0, <3>3
      <4>2. /\ Len(updates') = Len(updates) + 1
            /\ updates'[Len(updates) + 1] = status
            /\ \A i \in 1..Len(updates) : updates'[i] = updates[i]
        BY <4>1
      <4> QED BY <2>0, <2>a, <3>1, <3>2, <4>2
    <3>4. CASE worker \notin {"tracking", "offering"}
      BY <2>0, <2>a, <3>1, <3>2, <3>4
    <3> QED BY <3>3, <3>4
  <2>3. ErrorInv'
    BY <1>1 DEF RouterAdvances, Settle
  <2>4. ClosedInv'
    BY <1>1 DEF RouterAdvances, Settle
  <2>5. AnswerMatchesPayment'
    BY <1>1 DEF RouterAdvances, Settle
  <2>6. PanicNeedsShutdownOrDeadline'
    BY <1>1 DEF RouterAdvances, Settle
  <2> QED BY <2>1, <2>2, <2>3, <2>4, <2>5, <2>6
<1>2. CASE ClientGivesUp \/ ContextEnds
  BY <1>2 DEF ClientGivesUp, ContextEnds
<1>3. CASE Stop
  BY <1>3 DEF Stop
<1> QED BY <1>1, <1>2, <1>3

LEMMA ProbeAlways == Spec => []ProbeInv
<1>1. ProbeInv /\ UNCHANGED vars => ProbeInv'
  BY DEF vars, payVars, envVars, workVars, chanVars, handVars, ProbeInv, TypeOK, QueueInv,
     ErrorInv, ClosedInv, AnswerMatchesPayment, PanicNeedsShutdownOrDeadline
<1>2. ProbeInv /\ [Next]_vars => ProbeInv'
  BY <1>1, WorkerSteps, HandlerSteps, OutsideSteps DEF Next
<1> QED BY <1>2, InitProbe, PTL DEF Spec

\* Types; in particular errChan holds at most one error.
THEOREM ProbeTypes == Spec => []TypeOK
<1>1. ProbeInv => TypeOK
  BY DEF ProbeInv
<1> QED BY <1>1, ProbeAlways, PTL

\* The answer is true of the payment at every later moment too: the fee of a
\* route only for an attempt that was refused at its end, an estimate of zero
\* only for a refused payment without a route, an error for one that another hop
\* refused, the refund warning only for a settled one.
THEOREM AnswersAreTrue == Spec => []AnswerMatchesPayment
<1>1. ProbeInv => AnswerMatchesPayment
  BY DEF ProbeInv
<1> QED BY <1>1, ProbeAlways, PTL

\* The worker sends on the closed channel only when the sub-server stops or the
\* call's deadline has passed.
THEOREM PanicsExplained == Spec => []PanicNeedsShutdownOrDeadline
<1>1. ProbeInv => PanicNeedsShutdownOrDeadline
  BY DEF ProbeInv
<1> QED BY <1>1, ProbeAlways, PTL
=============================================================================
