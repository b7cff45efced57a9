------------------------ MODULE HtlcInterceptor_proofs ------------------------
(***************************************************************************)
(* For any number of clients and forwards: the interceptor slot and the    *)
(* registration with the switch belong to one session at a time, nothing   *)
(* is stranded in the switch, and no forward is decided twice.             *)
(***************************************************************************)
EXTENDS HtlcInterceptor, TLAPS

\* Every variable of the interceptor keeps its type.
THEOREM TypeCorrect == Spec => []TypeOK
<1>1. Init => TypeOK
  BY DEF Init, TypeOK, Phases, Outcomes
<1>2. TypeOK /\ [Next]_vars => TypeOK'
  <2> SUFFICES ASSUME TypeOK, [Next]_vars PROVE TypeOK'
    OBVIOUS
  <2> USE DEF TypeOK, Phases, Outcomes
  <2>0. UNCHANGED requireInterceptor
    BY DEF Next, vars
  <2>1. ASSUME NEW s \in Sessions, Acquire(s) PROVE TypeOK'
    BY <2>0, <2>1 DEF Acquire, Goto
  <2>2. ASSUME NEW s \in Sessions, Register(s) PROVE TypeOK'
    BY <2>0, <2>2 DEF Register, Goto
  <2>3. ASSUME NEW s \in Sessions, RecvFails(s) PROVE TypeOK'
    BY <2>0, <2>3 DEF RecvFails, Goto
  <2>4. ASSUME NEW s \in Sessions, NEW r \in Responses, Refuse(s, r)
        PROVE TypeOK'
    BY <2>0, <2>4 DEF Refuse, Goto
  <2>5. ASSUME NEW s \in Sessions, NEW r \in Responses, Resolve(s, r)
        PROVE TypeOK'
    BY <2>0, <2>5 DEF Resolve, ResponseAccepted, Responses
  <2>6. ASSUME NEW s \in Sessions, Unregister(s) PROVE TypeOK'
    BY <2>0, <2>6 DEF Unregister, Goto
  <2>7. ASSUME NEW s \in Sessions, Release(s) PROVE TypeOK'
    BY <2>0, <2>7 DEF Release, Goto
  <2>8. ASSUME NEW s \in Sessions, StreamBreaks(s) PROVE TypeOK'
    BY <2>0, <2>8 DEF StreamBreaks
  <2>9. ASSUME NEW h \in Htlcs, Switch(h) PROVE TypeOK'
    BY <2>0, <2>9 DEF Switch, OnIntercept, ForwardUnintercepted, AutoFail
  <2>10. CASE UNCHANGED vars
    BY <2>10 DEF vars
  <2>11. QED
    BY <2>1, <2>2, <2>3, <2>4, <2>5, <2>6, <2>7, <2>8, <2>9, <2>10
       DEF Next, Session
<1>3. QED
  BY <1>1, <1>2, PTL DEF Spec

-----------------------------------------------------------------------------
(* The flag, the phases and the registration change only in the handler: the *)
(* inductive step looks at how one session moves while the others stand.     *)

\* What a step may do to the slot: nothing, or one of the five moves of a
\* handler, each with its effect on the flag and on the registration.
SlotStep ==
  \/ UNCHANGED <<phase, forwardInterceptorActive, interceptor>>
  \/ \E s \in Sessions :
       \/ Goto(s, "idle", "rejected")
          /\ UNCHANGED <<forwardInterceptorActive, interceptor>>
       \/ Goto(s, "idle", "registering") /\ forwardInterceptorActive = 0
          /\ forwardInterceptorActive' = 1 /\ UNCHANGED interceptor
       \/ Goto(s, "registering", "serving") /\ interceptor' = s
          /\ UNCHANGED forwardInterceptorActive
       \/ Goto(s, "serving", "returning")
          /\ UNCHANGED <<forwardInterceptorActive, interceptor>>
       \/ Goto(s, "returning", "releasing") /\ interceptor' = NoSession
          /\ UNCHANGED forwardInterceptorActive
       \/ Goto(s, "releasing", "closed") /\ forwardInterceptorActive' = 0
          /\ UNCHANGED interceptor

LEMMA NextIsSlotStep == [Next]_vars => SlotStep
BY DEF Next, vars, Session, Switch, SlotStep, Acquire, Register, RecvFails,
       Refuse, Resolve, Unregister, Release, StreamBreaks, OnIntercept,
       ForwardUnintercepted, AutoFail

LEMMA SlotInductive ==
  ASSUME TypeOK, OneInterceptor, SlotStep
  PROVE  OneInterceptor'
<1> USE ConstantsAssumption DEF TypeOK, OneInterceptor, InSlot, Goto
<1>1. CASE UNCHANGED <<phase, forwardInterceptorActive, interceptor>>
  BY <1>1
<1>2. ASSUME NEW s \in Sessions, Goto(s, "idle", "rejected"),
             UNCHANGED <<forwardInterceptorActive, interceptor>>
      PROVE OneInterceptor'
  BY <1>2
<1>3. ASSUME NEW s \in Sessions, Goto(s, "idle", "registering"),
             forwardInterceptorActive = 0, forwardInterceptorActive' = 1,
             UNCHANGED interceptor
      PROVE OneInterceptor'
  BY <1>3
<1>4. ASSUME NEW s \in Sessions, Goto(s, "registering", "serving"),
             interceptor' = s, UNCHANGED forwardInterceptorActive
      PROVE OneInterceptor'
  BY <1>4
<1>5. ASSUME NEW s \in Sessions, Goto(s, "serving", "returning"),
             UNCHANGED <<forwardInterceptorActive, interceptor>>
      PROVE OneInterceptor'
  BY <1>5
<1>6. ASSUME NEW s \in Sessions, Goto(s, "returning", "releasing"),
             interceptor' = NoSession, UNCHANGED forwardInterceptorActive
      PROVE OneInterceptor'
  BY <1>6
<1>7. ASSUME NEW s \in Sessions, Goto(s, "releasing", "closed"),
             forwardInterceptorActive' = 0, UNCHANGED interceptor
      PROVE OneInterceptor'
  BY <1>7
<1>8. QED
  BY <1>1, <1>2, <1>3, <1>4, <1>5, <1>6, <1>7 DEF SlotStep

\* The router never has two interceptor sessions, its flag says exactly
\* whether there is one, and the switch never calls an ended one.
THEOREM SlotExclusive == Spec => []OneInterceptor
<1>1. Init => OneInterceptor
  BY ConstantsAssumption DEF Init, OneInterceptor, InSlot
<1>2. TypeOK /\ OneInterceptor /\ [Next]_vars => OneInterceptor'
  BY NextIsSlotStep, SlotInductive
<1>3. QED
  BY <1>1, <1>2, TypeCorrect, PTL DEF Spec

\* A serving session keeps its registration until it returns by itself.
THEOREM RegistrationSafe == Spec => RegistrationNotStolen
<1>1. TypeOK /\ OneInterceptor /\ [Next]_vars =>
        [\A s \in Sessions :
           interceptor = s /\ interceptor' # s => phase[s] = "returning"]_vars
  <2> SUFFICES ASSUME TypeOK, OneInterceptor, [Next]_vars,
                      NEW s \in Sessions, interceptor = s, interceptor' # s
               PROVE  phase[s] = "returning"
    OBVIOUS
  <2>1. SlotStep
    BY NextIsSlotStep
  <2>2. phase[s] \in {"serving", "returning"}
    BY DEF OneInterceptor
  <2>3. PICK t \in Sessions :
          \/ Goto(t, "registering", "serving") /\ interceptor' = t
          \/ Goto(t, "returning", "releasing") /\ interceptor' = NoSession
    BY <2>1 DEF SlotStep
  <2>4. InSlot(s) /\ InSlot(t)
    BY <2>2, <2>3 DEF InSlot, Goto
  <2>5. t = s
    BY <2>4 DEF OneInterceptor
  <2>6. QED
    BY <2>2, <2>3, <2>5 DEF Goto
<1>2. QED
  BY <1>1, TypeCorrect, SlotExclusive, PTL DEF Spec, RegistrationNotStolen

-----------------------------------------------------------------------------
(* Forwards. *)

\* The switch holds exactly the forwards that await a decision.
HeldIsPending == \A h \in Htlcs : h \in held <=> outcome[h] = "pending"

\* Forwards are held only for a registered session, unless one is required.
HeldForSomeone ==
  HeldIsPending /\ (~requireInterceptor /\ held # {} => interceptor # NoSession)

LEMMA HeldInductive ==
  ASSUME TypeOK, HeldForSomeone, [Next]_vars
  PROVE  HeldForSomeone'
<1> USE ConstantsAssumption DEF TypeOK, HeldForSomeone, HeldIsPending
<1>0. UNCHANGED requireInterceptor
  BY DEF Next, vars
<1>1. ASSUME NEW s \in Sessions, Acquire(s) \/ RecvFails(s) \/ Release(s)
                                   \/ StreamBreaks(s)
      PROVE HeldForSomeone'
  BY <1>0, <1>1 DEF Acquire, RecvFails, Release, StreamBreaks
<1>2. ASSUME NEW s \in Sessions, NEW r \in Responses, Refuse(s, r)
      PROVE HeldForSomeone'
  BY <1>0, <1>2 DEF Refuse
<1>3. ASSUME NEW s \in Sessions, Register(s) PROVE HeldForSomeone'
  BY <1>0, <1>3 DEF Register
<1>4. ASSUME NEW s \in Sessions, NEW r \in Responses, Resolve(s, r)
      PROVE HeldForSomeone'
  BY <1>0, <1>4 DEF Resolve, ResponseAccepted, Responses
<1>5. ASSUME NEW s \in Sessions, Unregister(s) PROVE HeldForSomeone'
  BY <1>0, <1>5 DEF Unregister
<1>6. ASSUME NEW h \in Htlcs, Switch(h) PROVE HeldForSomeone'
  BY <1>0, <1>6 DEF Switch, OnIntercept, ForwardUnintercepted, AutoFail
<1>7. CASE UNCHANGED vars
  BY <1>7 DEF vars
<1>8. QED
  BY <1>1, <1>2, <1>3, <1>4, <1>5, <1>6, <1>7 DEF Next, Session

LEMMA HeldInvariant == Spec => []HeldForSomeone
<1>1. Init => HeldForSomeone
  BY DEF Init, HeldForSomeone, HeldIsPending
<1>2. QED
  BY <1>1, HeldInductive, TypeCorrect, PTL DEF Spec

\* Without a required interceptor, whatever is held is held for a session
\* whose deferred SetInterceptor(nil) is still to come.
THEOREM NothingStranded == Spec => []NoForwardStranded
<1>1. TypeOK /\ OneInterceptor /\ HeldForSomeone => NoForwardStranded
  BY DEF TypeOK, OneInterceptor, HeldForSomeone, NoForwardStranded
<1>2. QED
  BY <1>1, TypeCorrect, SlotExclusive, HeldInvariant, PTL

\* No answer, late or repeated, changes a forward that was already decided.
THEOREM DecidedForGood == Spec => DecidedOnce
<1>1. TypeOK /\ HeldForSomeone /\ [Next]_vars =>
        [\A h \in Htlcs : ~Unresolved(h) => outcome'[h] = outcome[h]]_vars
  <2> SUFFICES ASSUME TypeOK, HeldForSomeone, [Next]_vars,
                      NEW h \in Htlcs, outcome[h] \notin {"none", "pending"}
               PROVE  outcome'[h] = outcome[h]
    BY DEF Unresolved
  <2> USE DEF TypeOK, HeldForSomeone, HeldIsPending
  <2>1. ASSUME NEW s \in Sessions, Session(s) \/ StreamBreaks(s)
        PROVE outcome'[h] = outcome[h]
    BY <2>1 DEF Session, Acquire, Register, RecvFails, Refuse, Resolve,
                Unregister, Release, StreamBreaks
  <2>2. ASSUME NEW g \in Htlcs, Switch(g)
        PROVE outcome'[h] = outcome[h]
    BY <2>2 DEF Switch, OnIntercept, ForwardUnintercepted, AutoFail
  <2>3. QED
    BY <2>1, <2>2 DEF Next, vars
<1>2. QED
  BY <1>1, TypeCorrect, HeldInvariant, PTL DEF Spec, DecidedOnce

=============================================================================
