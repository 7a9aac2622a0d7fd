----------------------------- MODULE RequestLedger -----------------------------
(***************************************************************************)
(* What QMqttClient promises about the callback given to subscribe(),      *)
(* unsubscribe() and publish(): a request waits for its answer, the answer *)
(* is decided once, and the callback is then called once with it.  A       *)
(* request can be forgotten only when a new one takes its place (its       *)
(* packet identifier was used again); a forgotten callback is never called. *)
(***************************************************************************)
CONSTANT Requests

VARIABLES phase,   \* of each request
          outcome  \* of each request: what its callback is or will be told

ledger == <<phase, outcome>>

Phases   == {"unmade", "waiting", "due", "called", "forgotten"}
Outcomes == {"none", "success", "failure"}

LedgerTypeOK ==
    /\ phase \in [Requests -> Phases]
    /\ outcome \in [Requests -> Outcomes]

LedgerInit ==
    /\ phase = [r \in Requests |-> "unmade"]
    /\ outcome = [r \in Requests |-> "none"]

\* A request is sent.
Ask(r) ==
    /\ phase[r] = "unmade"
    /\ phase' = [phase EXCEPT ![r] = "waiting"]
    /\ UNCHANGED outcome

\* A request is sent in the place of an older one that was never answered.
Replace(r, old) ==
    /\ phase[r] = "unmade" /\ phase[old] = "waiting"
    /\ phase' = [phase EXCEPT ![r] = "waiting", ![old] = "forgotten"]
    /\ UNCHANGED outcome

\* A request is turned down before it is sent.
Reject(r) ==
    /\ phase[r] = "unmade"
    /\ phase' = [phase EXCEPT ![r] = "due"]
    /\ outcome' = [outcome EXCEPT ![r] = "failure"]

\* The answer arrives.
Decide(r) ==
    /\ phase[r] = "waiting"
    /\ phase' = [phase EXCEPT ![r] = "due"]
    /\ \E o \in {"success", "failure"} : outcome' = [outcome EXCEPT ![r] = o]

\* The callback is called.
Call(r) ==
    /\ phase[r] = "due"
    /\ phase' = [phase EXCEPT ![r] = "called"]
    /\ UNCHANGED outcome

\* Every step moves a request on (which TLC tests first: few steps of the client do).
LedgerNext ==
    /\ phase' # phase
    /\ \E r \in Requests :
        \/ Ask(r) \/ Reject(r) \/ Decide(r) \/ Call(r)
        \/ \E old \in Requests : Replace(r, old)

LedgerSpec == LedgerInit /\ [][LedgerNext]_ledger

\* Once its answer is decided a callback does get called.
LedgerFairSpec == LedgerSpec /\ \A r \in Requests : WF_ledger(Call(r))

=============================================================================
