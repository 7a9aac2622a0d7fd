--------------------------- MODULE QMqttClientLedger ---------------------------
(***************************************************************************)
(* QMqttClient implements RequestLedger: the map m_subscribeCallbacks, the *)
(* callbacks put on the event loop and the calls made, seen as one phase   *)
(* and one outcome per request.                                            *)
(***************************************************************************)
EXTENDS QMqttClient

Waiting(r) == \E i \in Ids : subscribeCallbacks[i] = r
Due(r)     == \E i \in immediates : i.request = r
Called(r)  == results[r] # <<>>

Phase(r) ==
    CASE r > made   -> "unmade"
      [] Waiting(r) -> "waiting"
      [] Due(r)     -> "due"
      [] Called(r)  -> "called"
      [] OTHER      -> "forgotten"

Outcome(r) ==
    CASE Due(r)    -> IF [request |-> r, result |-> TRUE] \in immediates
                      THEN "success" ELSE "failure"
      [] Called(r) -> IF results[r][1] THEN "success" ELSE "failure"
      [] OTHER     -> "none"

Ledger == INSTANCE RequestLedger WITH
              Requests <- Requests,
              phase    <- [r \in Requests |-> Phase(r)],
              outcome  <- [r \in Requests |-> Outcome(r)]

\* Every step of the client on its callbacks is a step of the ledger: no callback is
\* called twice, before its answer, with another value, or after it was replaced.
ImplementsLedger == Ledger!LedgerSpec

\* With a fair event loop a decided callback is also called, whatever happens to the
\* connection in the meantime.
ImplementsFairLedger == Ledger!LedgerFairSpec

=============================================================================
