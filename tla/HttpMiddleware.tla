---------------------------- MODULE HttpMiddleware ----------------------------
(***************************************************************************)
(* The middleware every request of the API server passes (internal/api):   *)
(* RequestID, Logger, which counts the request, and Recoverer, which       *)
(* answers for a handler that panics, around a handler of the router.      *)
(*                                                                         *)
(* Logger reads the status from a wrapper that remembers the last call of  *)
(* WriteHeader; the client gets the first.  A request whose path is not a  *)
(* valid label makes the counter panic outside Recoverer, where net/http   *)
(* recovers and drops the connection.                                      *)
(***************************************************************************)
EXTENDS Integers, FiniteSets

CONSTANTS
    Requests,  \* requests, one after the other or at the same time
    Unlabeled, \* those whose path is not valid UTF-8
    Codes      \* status codes the handlers write

NoCode == 0

\* net/http takes no status line outside 100 .. 999.
ASSUME ConstantsAssumption ==
    /\ IsFiniteSet(Requests)
    /\ Unlabeled \subseteq Requests
    /\ Codes \subseteq 100 .. 999
    /\ 500 \in Codes /\ 200 \in Codes

VARIABLES
    pc,       \* pc[r]: the layer that is running
    status,   \* status[r]: rw.status
    wire,     \* wire[r]: the status line net/http has taken
    panicked, \* panicked[r]: the handler panicked, and after what status line
    inFlight, \* http_requests_in_flight
    total,    \* total[code]: http_requests_total
    observed  \* count of http_request_duration_seconds

vars == <<pc, status, wire, panicked, inFlight, total, observed>>
meters == <<inFlight, total, observed>>

TypeOK ==
    /\ pc \in [Requests -> {"new", "handler", "count", "observe", "deferred",
                            "dropped", "answered"}]
    /\ status \in [Requests -> Codes]
    /\ wire \in [Requests -> Codes \cup {NoCode}]
    /\ panicked \in [Requests -> {"no", "beforeHeader", "afterHeader"}]
    /\ inFlight \in 0 .. Cardinality(Requests)
    /\ total \in [Codes -> Nat]
    /\ observed \in Nat

\* Faulty variant: the wrapper is made without a status.
NoDefaultStatus == 0
DefaultStatus == 200

Init ==
    /\ pc = [r \in Requests |-> "new"]
    /\ status = [r \in Requests |-> DefaultStatus]
    /\ wire = [r \in Requests |-> NoCode]
    /\ panicked = [r \in Requests |-> "no"]
    /\ inFlight = 0
    /\ total = [code \in Codes |-> 0]
    /\ observed = 0

-----------------------------------------------------------------------------

\* net/http takes the first status line; the wrapper remembers the last.
WriteHeader(r, code) ==
    /\ wire' = [wire EXCEPT ![r] = IF @ = NoCode THEN code ELSE @]
    /\ status' = [status EXCEPT ![r] = code]

\* Logger, up to next.ServeHTTP; RequestID and Recoverer go straight on.
Enter(r) ==
    /\ pc[r] = "new"
    /\ pc' = [pc EXCEPT ![r] = "handler"]
    /\ inFlight' = inFlight + 1
    /\ UNCHANGED <<status, wire, panicked, total, observed>>

\* writeJSON, once per request: every handler returns after it.
HandlerAnswers(r, code) ==
    /\ pc[r] = "handler"
    /\ wire[r] = NoCode
    /\ WriteHeader(r, code)
    /\ UNCHANGED <<pc, panicked, meters>>

\* The metrics page is written without a call of WriteHeader.
HandlerWritesBody(r) ==
    /\ pc[r] = "handler"
    /\ wire[r] = NoCode
    /\ wire' = [wire EXCEPT ![r] = 200]
    /\ UNCHANGED <<pc, status, panicked, meters>>

HandlerReturns(r) ==
    /\ pc[r] = "handler"
    /\ pc' = [pc EXCEPT ![r] = "count"]
    /\ UNCHANGED <<status, wire, panicked, meters>>

Panics(r) ==
    panicked' = [panicked EXCEPT ![r] =
                    IF wire[r] = NoCode THEN "beforeHeader" ELSE "afterHeader"]

\* Faulty variant: Recoverer is outside Logger, whose counters are skipped.
HandlerPanicsThroughLogger(r) ==
    /\ pc[r] = "handler"
    /\ Panics(r)
    /\ WriteHeader(r, 500)
    /\ pc' = [pc EXCEPT ![r] = "deferred"]
    /\ UNCHANGED meters

\* Recoverer answers 500 and returns to Logger.
HandlerPanics(r) ==
    /\ pc[r] = "handler"
    /\ Panics(r)
    /\ WriteHeader(r, 500)
    /\ pc' = [pc EXCEPT ![r] = "count"]
    /\ UNCHANGED meters

Count(r) ==
    /\ pc[r] = "count"
    /\ r \notin Unlabeled
    /\ total' = [total EXCEPT ![status[r]] = @ + 1]
    /\ pc' = [pc EXCEPT ![r] = "observe"]
    /\ UNCHANGED <<status, wire, panicked, inFlight, observed>>

\* Faulty variant: Dec is not deferred.
CountPanicsPastDec(r) ==
    /\ pc[r] = "count"
    /\ r \in Unlabeled
    /\ pc' = [pc EXCEPT ![r] = "dropped"]
    /\ UNCHANGED <<status, wire, panicked, meters>>

\* WithLabelValues panics; the deferred Dec runs, net/http recovers and drops
\* the connection.
CountPanics(r) ==
    /\ pc[r] = "count"
    /\ r \in Unlabeled
    /\ pc' = [pc EXCEPT ![r] = "dropped"]
    /\ inFlight' = inFlight - 1
    /\ UNCHANGED <<status, wire, panicked, total, observed>>

Observe(r) ==
    /\ pc[r] = "observe"
    /\ observed' = observed + 1
    /\ pc' = [pc EXCEPT ![r] = "deferred"]
    /\ UNCHANGED <<status, wire, panicked, inFlight, total>>

\* Logger returns; net/http writes 200 for a handler that wrote nothing.
Leave(r) ==
    /\ pc[r] = "deferred"
    /\ pc' = [pc EXCEPT ![r] = "answered"]
    /\ inFlight' = inFlight - 1
    /\ wire' = [wire EXCEPT ![r] = IF @ = NoCode THEN 200 ELSE @]
    /\ UNCHANGED <<status, panicked, total, observed>>

Ended(r) == pc[r] \in {"answered", "dropped"}
Finished == (\A r \in Requests : Ended(r)) /\ UNCHANGED vars

-----------------------------------------------------------------------------

Handler(r) ==
    \/ \E code \in Codes : HandlerAnswers(r, code)
    \/ HandlerWritesBody(r) \/ HandlerReturns(r) \/ HandlerPanics(r)

Serve(r) ==
    \/ Handler(r) \/ Count(r) \/ CountPanics(r) \/ Observe(r) \/ Leave(r)

Next == (\E r \in Requests : Enter(r) \/ Serve(r)) \/ Finished

Spec == Init /\ [][Next]_vars

-----------------------------------------------------------------------------

\* "goes up when request arrives, down when response sent": the gauge is the
\* number of requests under way, so it returns to zero, whatever panics
\* unwind on the way.
GaugeMatches ==
    inFlight = Cardinality({r \in Requests : pc[r] # "new" /\ ~Ended(r)})

\* The status a request is counted under: the one its client got, or 500 if
\* its handler panicked, though the client may have been sent another before.
Reported(r) == IF panicked[r] = "no" THEN wire[r] ELSE 500

\* "counts every HTTP request": once no request is under way, every request
\* that was answered is in the counter under the status reported for it and
\* in the histogram, panics and answers without a header included; a request
\* that cannot be labelled is in neither.
CountedAsSent ==
    (\A r \in Requests : pc[r] = "new" \/ Ended(r)) =>
        LET served == {r \in Requests : Ended(r) /\ r \notin Unlabeled}
        IN  /\ \A code \in Codes :
                   total[code] = Cardinality({r \in served : Reported(r) = code})
            /\ observed = Cardinality(served)
=============================================================================
