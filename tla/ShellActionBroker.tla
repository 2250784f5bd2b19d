------------------------- MODULE ShellActionBroker -------------------------
(***************************************************************************)
(* The daemon's rendezvous with the GNOME Shell executor                   *)
(* (internal/shellaction/broker.go).  A goroutine in Request registers a   *)
(* one-slot channel under the action's id, emits the action as a D-Bus     *)
(* signal and waits for the first of: the caller's context, a timer, the   *)
(* answer.  The D-Bus handler of the answer runs Complete, which looks the *)
(* channel up under the broker's mutex and sends outside of it.            *)
(*                                                                         *)
(* Each element of Calls is one invocation of Request (so it is also the   *)
(* identity of the channel that invocation makes), each element of         *)
(* Completions one invocation of Complete with the result it carries.      *)
(* Steps are the code's atomic regions: a critical section of the mutex,   *)
(* a channel operation, or the emission.                                   *)
(***************************************************************************)
EXTENDS Naturals, FiniteSets

CONSTANTS
    Calls,        \* invocations of Broker.Request
    Completions,  \* invocations of Broker.Complete
    Ids,          \* action ids
    IdOf,         \* IdOf[c]: the id of call c (the caller's, or randomID's)
    None          \* a nil channel, an empty channel, no outcome yet

\* The errors Request returns.
Errors == {"invalid", "unavailable", "already_pending", "emit_failed",
           "cancelled", "timed_out"}

ASSUME BrokerAssumption ==
    /\ IdOf \in [Calls -> Ids]
    /\ None \notin Calls
    /\ None \notin Completions
    /\ Errors \cap Completions = {}

VARIABLES
    emitter,      \* b.emitter # nil
    pending,      \* b.pending: Ids -> the call whose channel is registered
    slot,         \* slot[c]: the buffered result in c's channel (capacity 1)
    pc,           \* where each call of Request is
    outcome,      \* what Request returned: an error name or a completion
    emitted,      \* calls whose action was emitted to the shell
    cpc,          \* where each call of Complete is
    answers,      \* answers[k]: the emitted call the shell's result is for
    held,         \* held[k]: the channel Complete found under the mutex
    verdict       \* what Complete returned

reqVars  == <<pc, outcome, emitted>>
compVars == <<cpc, answers, held, verdict>>
vars == <<emitter, pending, slot, pc, outcome, emitted,
          cpc, answers, held, verdict>>

Verdicts == {"none", "invalid", "accepted", "no_pending_request",
             "already_completed"}

\* A call is in flight from the insertion into pending to the deferred delete.
InFlight(c) == pc[c] \in {"registered", "waiting", "leaving"}

TypeOK ==
    /\ emitter \in BOOLEAN
    /\ pending \in [Ids -> Calls \cup {None}]
    /\ slot \in [Calls -> Completions \cup {None}]
    /\ pc \in [Calls -> {"idle", "registered", "waiting", "leaving", "returned"}]
    /\ outcome \in [Calls -> Errors \cup Completions \cup {None}]
    /\ emitted \subseteq Calls
    /\ cpc \in [Completions -> {"idle", "found", "returned"}]
    /\ answers \in [Completions -> Calls \cup {None}]
    /\ held \in [Completions -> Calls \cup {None}]
    /\ verdict \in [Completions -> Verdicts]

\* NewBroker: an empty pending map and no emitter.
Init ==
    /\ emitter = FALSE
    /\ pending = [i \in Ids |-> None]
    /\ slot = [c \in Calls |-> None]
    /\ pc = [c \in Calls |-> "idle"]
    /\ outcome = [c \in Calls |-> None]
    /\ emitted = {}
    /\ cpc = [k \in Completions |-> "idle"]
    /\ answers = [k \in Completions |-> None]
    /\ held = [k \in Completions |-> None]
    /\ verdict = [k \in Completions |-> "none"]

-----------------------------------------------------------------------------
\* SetEmitter: the D-Bus server installs its signal emitter, or removes it.
SetEmitter ==
    /\ emitter' = ~emitter
    /\ UNCHANGED <<pending, slot, reqVars, compVars>>

\* Request returns an error before it touched the pending map.
Refuse(c, error) ==
    /\ pc' = [pc EXCEPT ![c] = "returned"]
    /\ outcome' = [outcome EXCEPT ![c] = error]
    /\ UNCHANGED <<emitter, pending, slot, emitted, compVars>>

\* validateRequest fails (the request's fields are the caller's choice).
RequestInvalid(c) == pc[c] = "idle" /\ Refuse(c, "invalid")

\* First critical section, no emitter installed.
RequestUnavailable(c) == pc[c] = "idle" /\ ~emitter /\ Refuse(c, "unavailable")

\* First critical section, the id is in use.
RequestDuplicate(c) ==
    /\ pc[c] = "idle" /\ emitter
    /\ pending[IdOf[c]] # None
    /\ Refuse(c, "already_pending")

\* Mutant: the exists-check on the id is dropped.
RequestRegisterUnchecked(c) ==
    /\ pc[c] = "idle" /\ emitter
    /\ pending' = [pending EXCEPT ![IdOf[c]] = c]
    /\ pc' = [pc EXCEPT ![c] = "registered"]
    /\ UNCHANGED <<emitter, slot, outcome, emitted, compVars>>

\* First critical section: register the channel under the id.
RequestRegister(c) ==
    /\ pc[c] = "idle" /\ emitter
    /\ pending[IdOf[c]] = None
    /\ pending' = [pending EXCEPT ![IdOf[c]] = c]
    /\ pc' = [pc EXCEPT ![c] = "registered"]
    /\ UNCHANGED <<emitter, slot, outcome, emitted, compVars>>

\* emitter(request) outside the mutex, then the timer is started.
RequestEmit(c) ==
    /\ pc[c] = "registered"
    /\ emitted' = emitted \cup {c}
    /\ pc' = [pc EXCEPT ![c] = "waiting"]
    /\ UNCHANGED <<emitter, pending, slot, outcome, compVars>>

\* Request has its return value; the deferred delete has not run.
Leave(c, result) ==
    /\ pc' = [pc EXCEPT ![c] = "leaving"]
    /\ outcome' = [outcome EXCEPT ![c] = result]
    /\ UNCHANGED <<emitter, pending, emitted, compVars>>

RequestEmitFails(c) ==
    pc[c] = "registered" /\ Leave(c, "emit_failed") /\ UNCHANGED slot

\* The three branches of the select.  Go picks any branch that is ready.
RequestCancelled(c) ==
    pc[c] = "waiting" /\ Leave(c, "cancelled") /\ UNCHANGED slot

\* Mutant: the timer branch is missing from the select.
RequestTimesOutNever(c) == FALSE

RequestTimesOut(c) ==
    pc[c] = "waiting" /\ Leave(c, "timed_out") /\ UNCHANGED slot

\* Mutant: the receive branch is taken on a channel without a result.
RequestReceivesZero(c) ==
    pc[c] = "waiting" /\ Leave(c, "zero_result") /\ UNCHANGED slot

RequestReceives(c) ==
    /\ pc[c] = "waiting"
    /\ slot[c] # None
    /\ Leave(c, slot[c])
    /\ slot' = [slot EXCEPT ![c] = None]

\* Mutant: no deferred delete, the entry stays in the map.
RequestReturnLeaks(c) ==
    /\ pc[c] = "leaving"
    /\ pc' = [pc EXCEPT ![c] = "returned"]
    /\ UNCHANGED <<emitter, pending, slot, outcome, emitted, compVars>>

\* The deferred critical section: delete(b.pending, request.ID).
RequestReturn(c) ==
    /\ pc[c] = "leaving"
    /\ pending' = [pending EXCEPT ![IdOf[c]] = None]
    /\ pc' = [pc EXCEPT ![c] = "returned"]
    /\ UNCHANGED <<emitter, slot, outcome, emitted, compVars>>

-----------------------------------------------------------------------------
(***************************************************************************)
(* The shell executor answers an action it received, at any later time and *)
(* possibly more than once; that it may never answer is the absence of the *)
(* step.                                                                   *)
(***************************************************************************)
Finish(k, v) ==
    /\ cpc' = [cpc EXCEPT ![k] = "returned"]
    /\ verdict' = [verdict EXCEPT ![k] = v]

\* DecodeResult / Complete refuse a malformed result.
CompleteInvalid(k) ==
    /\ cpc[k] = "idle"
    /\ Finish(k, "invalid")
    /\ UNCHANGED <<emitter, pending, slot, reqVars, answers, held>>

\* Mutant: the lookup ignores the result's id and takes any waiting channel.
CompleteLookupAny(k, c) ==
    /\ cpc[k] = "idle"
    /\ c \in emitted
    /\ answers' = [answers EXCEPT ![k] = c]
    /\ \E i \in Ids :
          /\ held' = [held EXCEPT ![k] = pending[i]]
          /\ IF pending[i] = None
             THEN Finish(k, "no_pending_request")
             ELSE cpc' = [cpc EXCEPT ![k] = "found"] /\ UNCHANGED verdict
    /\ UNCHANGED <<emitter, pending, slot, reqVars>>

\* Complete's critical section: look the channel up by the result's id.
CompleteLookup(k, c) ==
    /\ cpc[k] = "idle"
    /\ c \in emitted
    /\ answers' = [answers EXCEPT ![k] = c]
    /\ held' = [held EXCEPT ![k] = pending[IdOf[c]]]
    /\ IF pending[IdOf[c]] = None
       THEN Finish(k, "no_pending_request")
       ELSE cpc' = [cpc EXCEPT ![k] = "found"] /\ UNCHANGED verdict
    /\ UNCHANGED <<emitter, pending, slot, reqVars>>

\* Mutant: the send goes to whatever channel the id names by then.
CompleteSendRereads(k) ==
    /\ cpc[k] = "found"
    /\ LET c == pending[IdOf[held[k]]] IN
       IF c # None /\ slot[c] = None
       THEN slot' = [slot EXCEPT ![c] = k] /\ Finish(k, "accepted")
       ELSE UNCHANGED slot /\ Finish(k, "already_completed")
    /\ UNCHANGED <<emitter, pending, reqVars, answers, held>>

\* The non-blocking send, outside the mutex.
CompleteSend(k) ==
    /\ cpc[k] = "found"
    /\ IF slot[held[k]] = None
       THEN slot' = [slot EXCEPT ![held[k]] = k] /\ Finish(k, "accepted")
       ELSE UNCHANGED slot /\ Finish(k, "already_completed")
    /\ UNCHANGED <<emitter, pending, reqVars, answers, held>>

-----------------------------------------------------------------------------
\* A Request goroutine's own steps, without the choices of its environment.
RequestProgress(c) ==
    \/ RequestEmit(c) \/ RequestEmitFails(c)
    \/ RequestTimesOut(c) \/ RequestReceives(c) \/ RequestReturn(c)

Next ==
    \/ SetEmitter
    \/ \E c \in Calls :
          \/ RequestInvalid(c) \/ RequestUnavailable(c) \/ RequestDuplicate(c)
          \/ RequestRegister(c) \/ RequestEmit(c) \/ RequestEmitFails(c)
          \/ RequestCancelled(c) \/ RequestTimesOut(c) \/ RequestReceives(c)
          \/ RequestReturn(c)
    \/ \E k \in Completions :
          \/ CompleteInvalid(k)
          \/ \E c \in Calls : CompleteLookup(k, c)
          \/ CompleteSend(k)

Spec == Init /\ [][Next]_vars

\* Goroutines are scheduled and the timer started in Request always fires.
Fairness ==
    /\ \A c \in Calls : WF_vars(RequestProgress(c))
    /\ \A k \in Completions : WF_vars(CompleteSend(k))

FairSpec == Spec /\ Fairness
-----------------------------------------------------------------------------
(***************************************************************************)
(* Properties                                                              *)
(***************************************************************************)

\* The pending map holds exactly the calls in flight, each under its own id:
\* no entry outlives its Request (the deferred delete is never skipped), and
\* no Request deletes or overwrites the entry of another one.
PendingMatchesInFlight ==
    /\ \A i \in Ids : pending[i] # None =>
          IdOf[pending[i]] = i /\ InFlight(pending[i])
    /\ \A c \in Calls : InFlight(c) => pending[IdOf[c]] = c

\* What Request hands to its caller was put in that very call's channel by a
\* Complete that returned nil and that answers an action with the same id.
DeliveredWasAccepted ==
    \A c \in Calls : outcome[c] \in Completions =>
        LET k == outcome[c] IN
        /\ verdict[k] = "accepted"
        /\ held[k] = c
        /\ answers[k] # None
        /\ IdOf[answers[k]] = IdOf[c]

\* No other call uses c's id, as randomID, which every caller in the daemon
\* relies on, makes it.
OwnId(c) == \A d \in Calls \ {c} : IdOf[d] # IdOf[c]

\* A caller with an id of its own never receives the answer to someone else's
\* action, whatever other callers do with theirs.  A caller that supplies the id
\* of a call that timed out can receive that call's late answer.
AnswersItsOwnRequest ==
    \A c \in Calls :
        OwnId(c) /\ outcome[c] \in Completions => answers[outcome[c]] = c

\* A Complete that begins after its Request returned is refused: the entry is
\* deleted before Request returns, and nobody else registers the id.
LateCompletionRefused ==
    [][\A k \in Completions, c \in Calls :
          OwnId(c) /\ answers[k] = None /\ answers'[k] = c /\ pc[c] = "returned"
             => verdict'[k] = "no_pending_request"]_vars

\* A Request that registered always returns, whatever the shell does.
EveryRequestReturns ==
    \A c \in Calls : InFlight(c) ~> pc[c] = "returned"

\* What the broker's state means to its callers.
CallerStatus ==
    [c \in Calls |-> IF pc[c] = "idle" THEN "new"
                     ELSE IF pc[c] = "returned" THEN "returned" ELSE "open"]
CallerReturned == [c \in Calls |-> IF pc[c] = "returned" THEN outcome[c] ELSE None]
Accepted == {<<k, held[k]>> : k \in {j \in Completions : verdict[j] = "accepted"}}

Rendezvous == INSTANCE ShellActionRendezvous WITH
    Results <- Completions,
    status <- CallerStatus, returned <- CallerReturned, accepted <- Accepted

\* The broker, with its channels, its lock that is not held while it emits and
\* sends, and its deferred delete, implements the rendezvous its callers rely
\* on: ids are exclusive while a request is open, it returns once, and only with
\* an error or with a result whose Complete returned nil for this very request.
ImplementsRendezvous == Rendezvous!Spec
=============================================================================
