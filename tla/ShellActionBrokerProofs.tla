---------------------- MODULE ShellActionBrokerProofs ----------------------
(***************************************************************************)
(* Proofs about ShellActionBroker, for any number of concurrent Request    *)
(* and Complete calls and any assignment of ids.                           *)
(***************************************************************************)
EXTENDS ShellActionBroker, TLAPS

\* The type of every variable of the broker is preserved by every step.
THEOREM TypeCorrect == Spec => []TypeOK
<1>1. Init => TypeOK
  <2> SUFFICES ASSUME Init PROVE TypeOK
    OBVIOUS
  <2>1. emitter \in BOOLEAN
    BY Zenon DEF Init
  <2>2. QED
    BY <2>1 DEF Init, TypeOK, Verdicts
<1>2. ASSUME TypeOK, [Next]_vars PROVE TypeOK'
  <2> USE TypeOK, BrokerAssumption DEF TypeOK
  <2>1. CASE SetEmitter
    BY <2>1 DEF SetEmitter, reqVars, compVars
  <2>2. ASSUME NEW c \in Calls,
               RequestInvalid(c) \/ RequestUnavailable(c) \/ RequestDuplicate(c)
        PROVE  TypeOK'
    BY <2>2 DEF RequestInvalid, RequestUnavailable, RequestDuplicate, Refuse,
                Errors, compVars
  <2>3. ASSUME NEW c \in Calls, RequestRegister(c) PROVE TypeOK'
    BY <2>3 DEF RequestRegister, compVars
  <2>4. ASSUME NEW c \in Calls, RequestEmit(c) PROVE TypeOK'
    BY <2>4 DEF RequestEmit, compVars
  <2>5. ASSUME NEW c \in Calls,
               RequestEmitFails(c) \/ RequestCancelled(c) \/ RequestTimesOut(c)
        PROVE  TypeOK'
    BY <2>5 DEF RequestEmitFails, RequestCancelled, RequestTimesOut, Leave,
                Errors, compVars
  <2>6. ASSUME NEW c \in Calls, RequestReceives(c) PROVE TypeOK'
    BY <2>6 DEF RequestReceives, Leave, compVars
  <2>7. ASSUME NEW c \in Calls, RequestReturn(c) PROVE TypeOK'
    BY <2>7 DEF RequestReturn, compVars
  <2>8. ASSUME NEW k \in Completions, CompleteInvalid(k) PROVE TypeOK'
    BY <2>8 DEF CompleteInvalid, Finish, Verdicts, reqVars
  <2>9. ASSUME NEW k \in Completions, NEW c \in Calls, CompleteLookup(k, c)
        PROVE  TypeOK'
    BY <2>9 DEF CompleteLookup, Finish, Verdicts, reqVars
  <2>10. ASSUME NEW k \in Completions, CompleteSend(k) PROVE TypeOK'
    BY <2>10 DEF CompleteSend, Finish, Verdicts, reqVars
  <2>11. CASE UNCHANGED vars
    BY <2>11 DEF vars
  <2>12. QED
    BY <1>2, <2>1, <2>2, <2>3, <2>4, <2>5, <2>6, <2>7, <2>8, <2>9, <2>10, <2>11
    DEF Next
<1>3. QED
  BY <1>1, <1>2, PTL DEF Spec

\* The pending map holds exactly the calls in flight, each under its own id.
\* With TypeOK the property is inductive: the exists-check of the first
\* critical section keeps a second call off an entry that is in use, so the
\* deferred delete of a call can only remove that call's own entry.
THEOREM PendingCorrect == Spec => []PendingMatchesInFlight
<1>1. Init => PendingMatchesInFlight
  BY DEF Init, PendingMatchesInFlight, InFlight
<1>2. ASSUME TypeOK, PendingMatchesInFlight, [Next]_vars
      PROVE  PendingMatchesInFlight'
  <2> USE <1>2, BrokerAssumption DEF TypeOK, PendingMatchesInFlight, InFlight
  <2>1. CASE SetEmitter
    BY <2>1 DEF SetEmitter, reqVars
  <2>2. ASSUME NEW c \in Calls,
               RequestInvalid(c) \/ RequestUnavailable(c) \/ RequestDuplicate(c)
        PROVE  PendingMatchesInFlight'
    BY <2>2 DEF RequestInvalid, RequestUnavailable, RequestDuplicate, Refuse
  <2>3. ASSUME NEW c \in Calls, RequestRegister(c)
        PROVE  PendingMatchesInFlight'
    BY <2>3 DEF RequestRegister
  <2>4. ASSUME NEW c \in Calls, RequestEmit(c) PROVE PendingMatchesInFlight'
    BY <2>4 DEF RequestEmit
  <2>5. ASSUME NEW c \in Calls,
               \/ RequestEmitFails(c) \/ RequestCancelled(c)
               \/ RequestTimesOut(c) \/ RequestReceives(c)
        PROVE  PendingMatchesInFlight'
    BY <2>5 DEF RequestEmitFails, RequestCancelled, RequestTimesOut,
                RequestReceives, Leave
  <2>6. ASSUME NEW c \in Calls, RequestReturn(c) PROVE PendingMatchesInFlight'
    BY <2>6 DEF RequestReturn
  <2>7. ASSUME NEW k \in Completions,
               \/ CompleteInvalid(k) \/ CompleteSend(k)
               \/ \E c \in Calls : CompleteLookup(k, c)
        PROVE  PendingMatchesInFlight'
    BY <2>7 DEF CompleteInvalid, CompleteSend, CompleteLookup, reqVars
  <2>8. CASE UNCHANGED vars
    BY <2>8 DEF vars
  <2>9. QED
    BY <1>2, <2>1, <2>2, <2>3, <2>4, <2>5, <2>6, <2>7, <2>8 DEF Next
<1>3. QED
  BY <1>1, <1>2, TypeCorrect, PTL DEF Spec

-----------------------------------------------------------------------------
(***************************************************************************)
(* What travels from Complete to Request.  The invariant follows a result  *)
(* from the lookup (the channel held by a Complete is one registered under *)
(* the result's id) through the channel to the caller.                     *)
(***************************************************************************)

\* Completion k was accepted into c's channel and answers c's id.
Carries(k, c) ==
    /\ cpc[k] = "returned"
    /\ verdict[k] = "accepted"
    /\ held[k] = c
    /\ answers[k] \in Calls
    /\ IdOf[answers[k]] = IdOf[c]

\* A result in transit, looked up, buffered or handed over, belongs to the id it
\* was looked up under and to the channel of the call it reaches.
TransferInv ==
    /\ \A k \in Completions : cpc[k] = "found" =>
          /\ held[k] \in Calls
          /\ answers[k] \in Calls
          /\ IdOf[answers[k]] = IdOf[held[k]]
    /\ \A c \in Calls : slot[c] # None => Carries(slot[c], c)
    /\ \A c \in Calls : outcome[c] \in Completions => Carries(outcome[c], c)

\* TransferInv is an invariant: results reach channels only through Complete,
\* which sends to the channel it found under the result's id.
THEOREM TransferCorrect == Spec => []TransferInv
<1>1. Init => TransferInv
  BY BrokerAssumption DEF Init, TransferInv
<1>2. ASSUME TypeOK, PendingMatchesInFlight, TransferInv, [Next]_vars
      PROVE  TransferInv'
  <2> USE <1>2, BrokerAssumption DEF TypeOK, TransferInv, Carries
  <2>1. CASE SetEmitter
    BY <2>1 DEF SetEmitter, reqVars, compVars
  <2>2. ASSUME NEW c \in Calls,
               RequestInvalid(c) \/ RequestUnavailable(c) \/ RequestDuplicate(c)
        PROVE  TransferInv'
    BY <2>2 DEF RequestInvalid, RequestUnavailable, RequestDuplicate, Refuse,
                Errors, compVars
  <2>3. ASSUME NEW c \in Calls, RequestRegister(c) \/ RequestReturn(c)
        PROVE  TransferInv'
    BY <2>3 DEF RequestRegister, RequestReturn, compVars
  <2>4. ASSUME NEW c \in Calls, RequestEmit(c) PROVE TransferInv'
    BY <2>4 DEF RequestEmit, compVars
  <2>5. ASSUME NEW c \in Calls,
               RequestEmitFails(c) \/ RequestCancelled(c) \/ RequestTimesOut(c)
        PROVE  TransferInv'
    BY <2>5 DEF RequestEmitFails, RequestCancelled, RequestTimesOut, Leave,
                Errors, compVars
  <2>6. ASSUME NEW c \in Calls, RequestReceives(c) PROVE TransferInv'
    BY <2>6 DEF RequestReceives, Leave, compVars
  <2>7. ASSUME NEW k \in Completions, CompleteInvalid(k) PROVE TransferInv'
    BY <2>7 DEF CompleteInvalid, Finish, reqVars
  <2>8. ASSUME NEW k \in Completions, NEW c \in Calls, CompleteLookup(k, c)
        PROVE  TransferInv'
    BY <2>8 DEF CompleteLookup, Finish, reqVars, PendingMatchesInFlight
  <2>9. ASSUME NEW k \in Completions, CompleteSend(k) PROVE TransferInv'
    BY <2>9 DEF CompleteSend, Finish, reqVars
  <2>10. CASE UNCHANGED vars
    BY <2>10 DEF vars
  <2>11. QED
    BY <1>2, <2>1, <2>2, <2>3, <2>4, <2>5, <2>6, <2>7, <2>8, <2>9, <2>10
    DEF Next
<1>3. QED
  BY <1>1, <1>2, TypeCorrect, PendingCorrect, PTL DEF Spec

\* A result a caller receives was accepted for that caller's channel and id.
THEOREM DeliveryCorrect == Spec => []DeliveredWasAccepted
<1>1. TransferInv => DeliveredWasAccepted
  BY BrokerAssumption DEF TransferInv, Carries, DeliveredWasAccepted
<1>2. QED
  BY <1>1, TransferCorrect, PTL

\* A caller with an id of its own only ever receives the shell's answer to its
\* own action.
THEOREM OwnAnswer == Spec => []AnswersItsOwnRequest
<1>1. TransferInv => AnswersItsOwnRequest
  BY BrokerAssumption DEF TransferInv, Carries, AnswersItsOwnRequest, OwnId
<1>2. QED
  BY <1>1, TransferCorrect, PTL

\* A completion that begins after its Request, with an id of its own, returned is
\* refused, in every interleaving.
THEOREM LateRefused == Spec => LateCompletionRefused
<1>1. ASSUME TypeOK, PendingMatchesInFlight, [Next]_vars
      PROVE  [\A k \in Completions, c \in Calls :
                OwnId(c) /\ answers[k] = None /\ answers'[k] = c /\ pc[c] = "returned"
                   => verdict'[k] = "no_pending_request"]_vars
  <2> USE <1>1, BrokerAssumption DEF TypeOK
  <2> SUFFICES ASSUME NEW k \in Completions, NEW c \in Calls, OwnId(c),
                      answers[k] = None, answers'[k] = c, pc[c] = "returned"
               PROVE  verdict'[k] = "no_pending_request"
    OBVIOUS
  <2>1. PICK j \in Completions, d \in Calls : CompleteLookup(j, d)
    BY DEF Next, vars, SetEmitter, RequestInvalid, RequestUnavailable,
           RequestDuplicate, Refuse, RequestRegister, RequestEmit,
           RequestEmitFails, RequestCancelled, RequestTimesOut,
           RequestReceives, Leave, RequestReturn, CompleteInvalid,
           CompleteSend, compVars
  <2>2. j = k /\ d = c
    BY <2>1 DEF CompleteLookup
  <2>3. pending[IdOf[c]] = None
    BY DEF PendingMatchesInFlight, InFlight, OwnId
  <2>4. QED
    BY <2>1, <2>2, <2>3 DEF CompleteLookup, Finish
<1>2. QED
  BY <1>1, TypeCorrect, PendingCorrect, PTL DEF Spec, LateCompletionRefused

-----------------------------------------------------------------------------
(***************************************************************************)
(* The broker implements ShellActionRendezvous.                            *)
(***************************************************************************)

\* What the refinement needs besides the invariants above: a channel that a
\* Complete holds belongs to a call that registered, only finished Completes
\* have a verdict, and a call that leaves has its return value.
StageInv ==
    /\ \A k \in Completions : held[k] # None => pc[held[k]] # "idle"
    /\ \A k \in Completions : verdict[k] = "accepted" =>
          cpc[k] = "returned" /\ held[k] # None
    /\ \A k \in Completions : cpc[k] = "found" => held[k] # None
    /\ \A c \in Calls : pc[c] = "leaving" => outcome[c] \in Errors \cup Completions

\* StageInv is an invariant: the pending map, which the lookup reads, only holds
\* calls in flight.
THEOREM StageCorrect == Spec => []StageInv
<1>1. Init => StageInv
  BY DEF Init, StageInv
<1>2. ASSUME TypeOK, PendingMatchesInFlight, StageInv, [Next]_vars PROVE StageInv'
  <2> USE <1>2, BrokerAssumption DEF TypeOK, StageInv
  <2>1. CASE SetEmitter
    BY <2>1 DEF SetEmitter, reqVars, compVars
  <2>2. ASSUME NEW c \in Calls,
               RequestInvalid(c) \/ RequestUnavailable(c) \/ RequestDuplicate(c)
        PROVE  StageInv'
    BY <2>2 DEF RequestInvalid, RequestUnavailable, RequestDuplicate, Refuse, compVars
  <2>3. ASSUME NEW c \in Calls, RequestRegister(c) \/ RequestReturn(c) \/ RequestEmit(c)
        PROVE  StageInv'
    BY <2>3 DEF RequestRegister, RequestReturn, RequestEmit, compVars
  <2>4. ASSUME NEW c \in Calls,
               RequestEmitFails(c) \/ RequestCancelled(c) \/ RequestTimesOut(c)
        PROVE  StageInv'
    BY <2>4 DEF RequestEmitFails, RequestCancelled, RequestTimesOut, Leave, compVars,
                Errors
  <2>5. ASSUME NEW c \in Calls, RequestReceives(c) PROVE StageInv'
    BY <2>5 DEF RequestReceives, Leave, compVars
  <2>6. ASSUME NEW k \in Completions, CompleteInvalid(k) PROVE StageInv'
    BY <2>6 DEF CompleteInvalid, Finish, reqVars
  <2>7. ASSUME NEW k \in Completions, NEW c \in Calls, CompleteLookup(k, c)
        PROVE  StageInv'
    BY <2>7 DEF CompleteLookup, Finish, reqVars, PendingMatchesInFlight, InFlight
  <2>8. ASSUME NEW k \in Completions, CompleteSend(k) PROVE StageInv'
    BY <2>8 DEF CompleteSend, Finish, reqVars
  <2>9. CASE UNCHANGED vars
    BY <2>9 DEF vars
  <2>10. QED
    BY <1>2, <2>1, <2>2, <2>3, <2>4, <2>5, <2>6, <2>7, <2>8, <2>9 DEF Next
<1>3. QED
  BY <1>1, <1>2, TypeCorrect, PendingCorrect, PTL DEF Spec

\* Every step of the broker is a step of the rendezvous or leaves it alone: a
\* request opens when it registers, returns when its deferred delete runs, and a
\* result is accepted when Complete's send finds the channel empty.
LEMMA StepImplements ==
    ASSUME TypeOK, PendingMatchesInFlight, TransferInv, StageInv, [Next]_vars
    PROVE  [Rendezvous!Next]_(Rendezvous!vars)
<1> USE BrokerAssumption DEF TypeOK
<1> USE DEF CallerStatus, CallerReturned, Accepted
<1>1. CASE SetEmitter
  BY <1>1 DEF SetEmitter, reqVars, compVars, Rendezvous!vars
<1>2. ASSUME NEW c \in Calls,
             RequestInvalid(c) \/ RequestUnavailable(c) \/ RequestDuplicate(c)
      PROVE  Rendezvous!Next
  <2>1. PICK e \in Errors : Refuse(c, e) /\ pc[c] = "idle"
    BY <1>2 DEF RequestInvalid, RequestUnavailable, RequestDuplicate, Errors
  <2>2. Rendezvous!End(c, e)
    <3>1. CallerStatus' = [CallerStatus EXCEPT ![c] = "returned"]
      BY <2>1 DEF Refuse
    <3>2. CallerReturned' = [CallerReturned EXCEPT ![c] = e]
      BY <2>1 DEF Refuse
    <3>3. Accepted' = Accepted
      BY <2>1 DEF Refuse, compVars
    <3>4. QED
      BY <3>1, <3>2, <3>3 DEF Rendezvous!End
  <2>3. QED
    BY <2>1, <2>2 DEF Rendezvous!Next, Rendezvous!Refuse
<1>3. ASSUME NEW c \in Calls, RequestRegister(c) PROVE Rendezvous!Next
  <2>1. \A d \in Calls : CallerStatus[d] = "open" => IdOf[d] # IdOf[c]
    BY <1>3 DEF RequestRegister, PendingMatchesInFlight, InFlight
  <2>2. Rendezvous!Open(c)
    <3>1. CallerStatus' = [CallerStatus EXCEPT ![c] = "open"]
      BY <1>3 DEF RequestRegister
    <3>2. CallerReturned' = CallerReturned /\ Accepted' = Accepted
      BY <1>3 DEF RequestRegister, compVars
    <3>3. QED
      BY <1>3, <2>1, <3>1, <3>2 DEF RequestRegister, Rendezvous!Open
  <2>3. QED
    BY <2>2 DEF Rendezvous!Next
<1>4. ASSUME NEW c \in Calls,
             \/ RequestEmit(c) \/ RequestEmitFails(c) \/ RequestCancelled(c)
             \/ RequestTimesOut(c) \/ RequestReceives(c)
      PROVE  UNCHANGED Rendezvous!vars
  BY <1>4 DEF RequestEmit, RequestEmitFails, RequestCancelled, RequestTimesOut,
              RequestReceives, Leave, compVars, Rendezvous!vars
<1>5. ASSUME NEW c \in Calls, RequestReturn(c) PROVE Rendezvous!Next
  <2>1. outcome[c] \in Errors \cup {k \in Completions : <<k, c>> \in Accepted}
    BY <1>5 DEF RequestReturn, StageInv, TransferInv, Carries
  <2>2. Rendezvous!End(c, outcome[c])
    <3>1. CallerStatus' = [CallerStatus EXCEPT ![c] = "returned"]
      BY <1>5 DEF RequestReturn
    <3>2. CallerReturned' = [CallerReturned EXCEPT ![c] = outcome[c]]
      BY <1>5 DEF RequestReturn
    <3>3. Accepted' = Accepted
      BY <1>5 DEF RequestReturn, compVars
    <3>4. QED
      BY <3>1, <3>2, <3>3 DEF Rendezvous!End
  <2>3. CallerStatus[c] = "open"
    BY <1>5 DEF RequestReturn
  <2> HIDE DEF CallerStatus, CallerReturned, Accepted
  <2>4. Rendezvous!Return(c)
    BY <2>1, <2>2, <2>3, Zenon DEF Rendezvous!Return
  <2>5. QED
    BY <2>4 DEF Rendezvous!Next
<1>6. ASSUME NEW k \in Completions, CompleteInvalid(k)
      PROVE  UNCHANGED Rendezvous!vars
  BY <1>6 DEF CompleteInvalid, Finish, reqVars, StageInv, Rendezvous!vars
<1>7. ASSUME NEW k \in Completions, NEW c \in Calls, CompleteLookup(k, c)
      PROVE  UNCHANGED Rendezvous!vars
  BY <1>7 DEF CompleteLookup, Finish, reqVars, StageInv, Rendezvous!vars
<1>8. ASSUME NEW k \in Completions, CompleteSend(k)
      PROVE  [Rendezvous!Next]_(Rendezvous!vars)
  <2>1. held[k] \in Calls /\ CallerStatus[held[k]] # "new" /\ verdict[k] # "accepted"
    BY <1>8 DEF CompleteSend, StageInv
  <2>2. CASE slot[held[k]] = None
    <3>1. Accepted' = Accepted \cup {<<k, held[k]>>}
      BY <1>8, <2>1, <2>2 DEF CompleteSend, Finish
    <3>2. \A d \in Calls : <<k, d>> \notin Accepted
      BY <2>1
    <3>3. Rendezvous!Accept(k, held[k])
      BY <1>8, <2>1, <3>1, <3>2 DEF CompleteSend, reqVars, Rendezvous!Accept
    <3> HIDE DEF CallerStatus, CallerReturned, Accepted
    <3>4. QED
      BY <2>1, <3>3, Zenon DEF Rendezvous!Next
  <2>3. CASE slot[held[k]] # None
    BY <1>8, <2>1, <2>3 DEF CompleteSend, Finish, reqVars, Rendezvous!vars
  <2>4. QED
    BY <2>2, <2>3
<1>9. CASE UNCHANGED vars
  BY <1>9 DEF vars, Rendezvous!vars
<1>10. QED
  BY <1>1, <1>2, <1>3, <1>4, <1>5, <1>6, <1>7, <1>8, <1>9 DEF Next

\* The broker implements the rendezvous for any number of calls, completions and
\* ids, whether ids are unique or not.
THEOREM BrokerImplements == Spec => ImplementsRendezvous
<1>1. Init => Rendezvous!Init
  BY DEF Init, Rendezvous!Init, CallerStatus, CallerReturned, Accepted
<1>2. QED
  BY <1>1, StepImplements, TypeCorrect, PendingCorrect, TransferCorrect, StageCorrect, PTL
  DEF Spec, ImplementsRendezvous, Rendezvous!Spec
=============================================================================
