--------------------------- MODULE HtlcInterceptor ---------------------------
(***************************************************************************)
(* The HtlcInterceptor streaming RPC of the router sub-server.             *)
(*                                                                         *)
(* A session (one call of Server.HtlcInterceptor) takes the single         *)
(* interceptor slot with a compare-and-swap, registers itself with the     *)
(* switch, then alternates Recv and resolveFromClient until either fails.  *)
(* The two deferred calls run in reverse order of their registration: the  *)
(* switch is told there is no interceptor first, the slot is given back    *)
(* last.                                                                   *)
(*                                                                         *)
(* The interceptable switch is lnd's htlcswitch package, which is not part *)
(* of this repository: it is modelled as forward_interceptor.go uses it    *)
(* (a registered callback, a set of held forwards, Resolve by circuit key).*)
(***************************************************************************)
EXTENDS Naturals, FiniteSets

CONSTANTS
  Sessions,            \* calls of the HtlcInterceptor RPC
  Htlcs,               \* forwards, named by their incoming circuit key
  NoSession,           \* the nil interceptor
  NoKey                \* a response without IncomingCircuitKey

ASSUME ConstantsAssumption ==
  /\ NoSession \notin Sessions
  /\ NoKey \notin Htlcs

VARIABLES
  forwardInterceptorActive,  \* Server.forwardInterceptorActive
  phase,                     \* where each session's handler is
  broken,                    \* the session's stream is dead: Recv and Send fail
  interceptor,               \* callback registered with the switch
  held,                      \* forwards the switch holds for the interceptor
  outcome,                   \* what became of each forward
  requireInterceptor         \* setting of the switch: forwards stay held
                             \* while nobody is connected

vars == <<forwardInterceptorActive, phase, broken, interceptor, held, outcome,
          requireInterceptor>>

-----------------------------------------------------------------------------
(* Responses of the client, with the distinctions resolveFromClient makes. *)

Responses ==
  [ key      : Htlcs \cup {NoKey},
    action   : {"SETTLE", "FAIL", "RESUME", "unrecognized"},
    message  : {"nil", "wrong_length", "right_length"},
    code     : {"zero", "supported", "unsupported"},
    preimage : {"nil", "malformed", "valid"} ]

\* The checks before the switch is called, one conjunct per early return.
FailAccepted(r) ==
  IF r.message # "nil"
  THEN r.code = "zero" /\ r.message = "right_length"
  ELSE r.code # "unsupported"

ResponseAccepted(r) ==
  /\ r.key # NoKey
  /\ r.action # "unrecognized"
  /\ r.action = "FAIL" => FailAccepted(r)
  /\ r.action = "SETTLE" => r.preimage = "valid"

Outcomes == {"none", "pending", "RESUME", "FAIL", "SETTLE", "auto_failed",
             "not_intercepted", "released"}

Unresolved(h) == outcome[h] \in {"none", "pending"}

-----------------------------------------------------------------------------
Init ==
  /\ forwardInterceptorActive = 0
  /\ phase = [s \in Sessions |-> "idle"]
  /\ broken = [s \in Sessions |-> FALSE]
  /\ interceptor = NoSession
  /\ held = {}
  /\ outcome = [h \in Htlcs |-> "none"]
  /\ requireInterceptor \in BOOLEAN

Goto(s, from, to) ==
  /\ phase[s] = from
  /\ phase' = [phase EXCEPT ![s] = to]

-----------------------------------------------------------------------------
(* Faulty variants of the actions below, one slip each. The runs check that *)
(* every property tells at least one of them from the code.                 *)

\* A plain counter instead of a compare-and-swap: everybody gets in.
AcquireCounting(s) ==
  /\ Goto(s, "idle", "registering")
  /\ forwardInterceptorActive' = forwardInterceptorActive + 1
  /\ UNCHANGED <<broken, interceptor, held, outcome>>

\* The deferred reset is registered before the check, so that the rejected
\* caller frees the slot of the session that has it.
AcquireDeferFirst(s) ==
  /\ IF forwardInterceptorActive = 0
     THEN Goto(s, "idle", "registering") /\ forwardInterceptorActive' = 1
     ELSE Goto(s, "idle", "rejected") /\ forwardInterceptorActive' = 0
  /\ UNCHANGED <<broken, interceptor, held, outcome>>

\* The slot is given back before the switch is told.
RecvFailsSlotFirst(s) ==
  /\ broken[s]
  /\ Goto(s, "serving", "returning")
  /\ forwardInterceptorActive' = 0
  /\ UNCHANGED <<broken, interceptor, held, outcome>>

\* SetInterceptor(nil) is not deferred.
RecvFailsStaysRegistered(s) ==
  /\ broken[s]
  /\ Goto(s, "serving", "releasing")
  /\ UNCHANGED <<forwardInterceptorActive, broken, interceptor, held, outcome>>

\* A Recv error is logged and the loop goes on.
RecvFailsContinues(s) ==
  /\ broken[s]
  /\ Goto(s, "serving", "serving")
  /\ UNCHANGED <<forwardInterceptorActive, broken, interceptor, held, outcome>>

\* Resolve does not look whether the forward is still held.
ResolveUnheld(s, r) ==
  /\ ~broken[s]
  /\ phase[s] = "serving"
  /\ ResponseAccepted(r)
  /\ held' = held \ {r.key}
  /\ outcome' = [outcome EXCEPT ![r.key] = r.action]
  /\ UNCHANGED <<forwardInterceptorActive, phase, broken, interceptor>>

-----------------------------------------------------------------------------
(* The handler of a session. *)

\* CompareAndSwap(0, 1): a second caller gets ErrInterceptorAlreadyExists.
Acquire(s) ==
  /\ IF forwardInterceptorActive = 0
     THEN Goto(s, "idle", "registering") /\ forwardInterceptorActive' = 1
     ELSE Goto(s, "idle", "rejected") /\ UNCHANGED forwardInterceptorActive
  /\ UNCHANGED <<broken, interceptor, held, outcome>>

\* SetInterceptor(onIntercept)
Register(s) ==
  /\ Goto(s, "registering", "serving")
  /\ interceptor' = s
  /\ UNCHANGED <<forwardInterceptorActive, broken, held, outcome>>

\* Recv returns an error: run returns it and the deferred calls start.
RecvFails(s) ==
  /\ broken[s]
  /\ Goto(s, "serving", "returning")
  /\ UNCHANGED <<forwardInterceptorActive, broken, interceptor, held, outcome>>

\* Recv returns r and resolveFromClient refuses it, or the switch no longer
\* holds that forward (ErrFwdNotExists): either error ends the session.
Refuse(s, r) ==
  /\ ~broken[s]
  /\ ~ResponseAccepted(r) \/ r.key \notin held
  /\ Goto(s, "serving", "returning")
  /\ UNCHANGED <<forwardInterceptorActive, broken, interceptor, held, outcome>>

\* Recv returns r, resolveFromClient accepts it and the switch acts on it.
Resolve(s, r) ==
  /\ ~broken[s]
  /\ phase[s] = "serving"
  /\ ResponseAccepted(r)
  /\ r.key \in held
  /\ held' = held \ {r.key}
  /\ outcome' = [outcome EXCEPT ![r.key] = r.action]
  /\ UNCHANGED <<forwardInterceptorActive, phase, broken, interceptor>>

\* defer SetInterceptor(nil): unless an interceptor is required, the switch
\* lets every held forward go on.
Unregister(s) ==
  /\ Goto(s, "returning", "releasing")
  /\ interceptor' = NoSession
  /\ IF requireInterceptor
     THEN UNCHANGED <<held, outcome>>
     ELSE /\ held' = {}
          /\ outcome' = [h \in Htlcs |-> IF h \in held THEN "released"
                                         ELSE outcome[h]]
  /\ UNCHANGED <<forwardInterceptorActive, broken>>

\* defer CompareAndSwap(1, 0)
Release(s) ==
  /\ Goto(s, "releasing", "closed")
  /\ forwardInterceptorActive' = 0
  /\ UNCHANGED <<broken, interceptor, held, outcome>>

-----------------------------------------------------------------------------
(* Client connection and switch. *)

StreamBreaks(s) ==
  /\ phase[s] \in {"registering", "serving"}
  /\ ~broken[s]
  /\ broken' = [broken EXCEPT ![s] = TRUE]
  /\ UNCHANGED <<forwardInterceptorActive, phase, interceptor, held, outcome>>

\* The switch offers a new forward: it is held first, then onIntercept sends
\* it on the stream. Whether Send reaches the client makes no difference here:
\* the forward stays held either way.
OnIntercept(h) ==
  /\ outcome[h] = "none"
  /\ interceptor # NoSession
  /\ held' = held \cup {h}
  /\ outcome' = [outcome EXCEPT ![h] = "pending"]
  /\ UNCHANGED <<forwardInterceptorActive, phase, broken, interceptor>>

\* Nobody is registered: the switch forwards the packet itself, or holds it
\* when an interceptor is required.
ForwardUnintercepted(h) ==
  /\ outcome[h] = "none"
  /\ interceptor = NoSession
  /\ IF requireInterceptor
     THEN held' = held \cup {h} /\ outcome' = [outcome EXCEPT ![h] = "pending"]
     ELSE /\ outcome' = [outcome EXCEPT ![h] = "not_intercepted"]
          /\ UNCHANGED held
  /\ UNCHANGED <<forwardInterceptorActive, phase, broken, interceptor>>

\* AutoFailHeight is reached while the forward is held.
AutoFail(h) ==
  /\ h \in held
  /\ held' = held \ {h}
  /\ outcome' = [outcome EXCEPT ![h] = "auto_failed"]
  /\ UNCHANGED <<forwardInterceptorActive, phase, broken, interceptor>>

-----------------------------------------------------------------------------
Session(s) ==
  \/ Acquire(s)
  \/ Register(s)
  \/ RecvFails(s)
  \/ \E r \in Responses : Refuse(s, r)
  \/ \E r \in Responses : Resolve(s, r)
  \/ Unregister(s)
  \/ Release(s)

Switch(h) == OnIntercept(h) \/ ForwardUnintercepted(h) \/ AutoFail(h)

Next ==
  /\ \/ \E s \in Sessions : Session(s) \/ StreamBreaks(s)
     \/ \E h \in Htlcs : Switch(h)
  /\ UNCHANGED requireInterceptor

Spec == Init /\ [][Next]_vars

\* The handler goroutine keeps running; the client owes nothing.
Fairness ==
  \A s \in Sessions :
    WF_vars(/\ Register(s) \/ RecvFails(s) \/ Unregister(s) \/ Release(s)
            /\ UNCHANGED requireInterceptor)

FairSpec == Spec /\ Fairness

-----------------------------------------------------------------------------
Phases == {"idle", "registering", "serving", "returning", "releasing",
           "closed", "rejected"}

\* Every variable keeps the shape the code gives it.
TypeOK ==
  /\ forwardInterceptorActive \in {0, 1}
  /\ phase \in [Sessions -> Phases]
  /\ broken \in [Sessions -> BOOLEAN]
  /\ interceptor \in Sessions \cup {NoSession}
  /\ held \in SUBSET Htlcs
  /\ outcome \in [Htlcs -> Outcomes]
  /\ requireInterceptor \in BOOLEAN

InSlot(s) == phase[s] \in {"registering", "serving", "returning", "releasing"}

\* "We ensure there is only one interceptor at a time": the slot flag is taken
\* exactly while one session is between its two compare-and-swaps, and the
\* callback the switch calls belongs to that session, never to an ended one.
OneInterceptor ==
  /\ \A s, t \in Sessions : InSlot(s) /\ InSlot(t) => s = t
  /\ forwardInterceptorActive = 1 <=> \E s \in Sessions : InSlot(s)
  /\ \A s \in Sessions :
       interceptor = s <=> phase[s] \in {"serving", "returning"}

\* A session that serves is not unregistered by the deferred calls of an
\* earlier one: the registration only leaves a session that is returning.
RegistrationNotStolen ==
  [][\A s \in Sessions :
       interceptor = s /\ interceptor' # s => phase[s] = "returning"]_vars

\* While nobody is connected nothing stays held, unless an interceptor is
\* required: no payment is stuck behind a client that went away, because the
\* session that is still registered will run SetInterceptor(nil).
NoForwardStranded ==
  ~requireInterceptor /\ held # {} =>
    \E s \in Sessions : interceptor = s /\ phase[s] \in {"serving", "returning"}

\* A forward is decided once: a late or repeated answer never changes what was
\* already done with it.
DecidedOnce ==
  [][\A h \in Htlcs : ~Unresolved(h) => outcome'[h] = outcome[h]]_vars

\* When the stream dies the slot is given back, so a new client can connect.
SlotFreed ==
  \A s \in Sessions :
    InSlot(s) /\ broken[s] ~> phase[s] = "closed"

=============================================================================
