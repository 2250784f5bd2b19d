----------------------- MODULE ShellActionRendezvous -----------------------
(***************************************************************************)
(* What internal/shellaction.Broker promises to its callers, without the   *)
(* channels, the mutex and the order of steps: a request is refused, or it *)
(* opens, alone with its id, and returns once, with an error or with a     *)
(* result that was accepted for it.  A result is accepted once and for one *)
(* request.  ShellActionBroker implements this.                            *)
(***************************************************************************)
CONSTANTS
    Calls,        \* requests
    Results,      \* results handed in by the shell
    IdOf,         \* the action id of a request
    Errors,       \* the errors a request may return
    None          \* nothing returned yet

VARIABLES
    status,       \* status[c]: "new", "open" or "returned"
    returned,     \* returned[c]: an error, a result, or None
    accepted      \* pairs of a result and the request it was accepted for

vars == <<status, returned, accepted>>

Init ==
    /\ status = [c \in Calls |-> "new"]
    /\ returned = [c \in Calls |-> None]
    /\ accepted = {}

\* The call ends with value v.
End(c, v) ==
    /\ status' = [status EXCEPT ![c] = "returned"]
    /\ returned' = [returned EXCEPT ![c] = v]
    /\ UNCHANGED accepted

\* The request is refused and nothing happens.
Refuse(c) == status[c] = "new" /\ \E e \in Errors : End(c, e)

\* The request opens; no open request has its id.
Open(c) ==
    /\ status[c] = "new"
    /\ \A d \in Calls : status[d] = "open" => IdOf[d] # IdOf[c]
    /\ status' = [status EXCEPT ![c] = "open"]
    /\ UNCHANGED <<returned, accepted>>

\* A result that was not accepted before is accepted for a request that opened.
Accept(k, c) ==
    /\ status[c] # "new"
    /\ \A d \in Calls : <<k, d>> \notin accepted
    /\ accepted' = accepted \cup {<<k, c>>}
    /\ UNCHANGED <<status, returned>>

\* An open request returns an error or a result accepted for it.
Return(c) ==
    /\ status[c] = "open"
    /\ \E v \in Errors \cup {k \in Results : <<k, c>> \in accepted} : End(c, v)

Next ==
    \/ \E c \in Calls : Refuse(c) \/ Open(c) \/ Return(c)
    \/ \E k \in Results, c \in Calls : Accept(k, c)

Spec == Init /\ [][Next]_vars
=============================================================================
