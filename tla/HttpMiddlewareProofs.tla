------------------------- MODULE HttpMiddlewareProofs -------------------------
(* Theorems about HttpMiddleware, for any finite set of requests.          *)
EXTENDS HttpMiddleware, FiniteSetTheorems, TLAPS

(* The three meters are cardinalities of sets of requests.                 *)

UnderWay == {r \in Requests : pc[r] # "new" /\ ~Ended(r)}
PastCount == {"observe", "deferred", "answered"}
CountedUnder(code) ==
    {r \in Requests : pc[r] \in PastCount /\ status[r] = code}
ObservedOnes == {r \in Requests : pc[r] \in {"deferred", "answered"}}

RequestTypes ==
    /\ pc \in [Requests -> {"new", "handler", "count", "observe", "deferred",
                            "dropped", "answered"}]
    /\ status \in [Requests -> Codes]
    /\ wire \in [Requests -> Codes \cup {NoCode}]
    /\ panicked \in [Requests -> {"no", "beforeHeader", "afterHeader"}]

MetersCount ==
    /\ inFlight = Cardinality(UnderWay)
    /\ total = [code \in Codes |-> Cardinality(CountedUnder(code))]
    /\ observed = Cardinality(ObservedOnes)

(* What is known of one request.  The parameters are its layer (p), the    *)
(* status the wrapper remembers (s), the status line taken (w), whether    *)
(* the handler panicked (k) and whether its path is a valid label (l).     *)
Known(p, s, w, k, l) ==
    /\ p \in PastCount => l
    /\ p = "dropped" => ~l
    /\ p \in {"new", "handler"} => k = "no"
    /\ p = "answered" => w # NoCode
    /\ k = "no" => s = IF w = NoCode THEN 200 ELSE w
    /\ k # "no" => s = 500

StatusKnown(r) == Known(pc[r], status[r], wire[r], panicked[r], r \notin Unlabeled)

MiddlewareInv ==
    /\ RequestTypes
    /\ MetersCount
    /\ \A r \in Requests : StatusKnown(r)

\* A set of requests is finite, and its cardinality is a number no greater
\* than theirs.
LEMMA SomeRequests ==
    ASSUME NEW S \in SUBSET Requests
    PROVE  /\ IsFiniteSet(S)
           /\ Cardinality(S) \in 0 .. Cardinality(Requests)
           /\ Cardinality(Requests) \in Nat
  <1>1. IsFiniteSet(S) /\ Cardinality(S) <= Cardinality(Requests)
    BY ConstantsAssumption, FS_Subset
  <1>2. Cardinality(S) \in Nat /\ Cardinality(Requests) \in Nat
    BY <1>1, ConstantsAssumption, FS_CardinalityType
  <1> QED
    BY <1>1, <1>2

\* A request that joins a set adds one to its cardinality, one that leaves
\* it takes one away.
LEMMA Joins ==
    ASSUME NEW S \in SUBSET Requests, NEW r \in Requests, r \notin S
    PROVE  Cardinality(S \cup {r}) = Cardinality(S) + 1
  BY SomeRequests, FS_AddElement

LEMMA Leaves ==
    ASSUME NEW S \in SUBSET Requests, NEW r \in S
    PROVE  Cardinality(S \ {r}) = Cardinality(S) - 1
  BY SomeRequests, FS_RemoveElement

LEMMA InitMiddlewareInv == Init => MiddlewareInv
  <1> SUFFICES ASSUME Init
               PROVE  MiddlewareInv
    OBVIOUS
  <1>1. RequestTypes
    BY ConstantsAssumption DEF Init, RequestTypes, DefaultStatus
  <1>2. /\ UnderWay = {} /\ ObservedOnes = {}
        /\ \A code \in Codes : CountedUnder(code) = {}
    BY DEF Init, UnderWay, ObservedOnes, CountedUnder, PastCount
  <1>3. MetersCount
    BY <1>2, FS_EmptySet DEF Init, MetersCount
  <1>4. \A r \in Requests : StatusKnown(r)
    BY DEF Init, StatusKnown, Known, PastCount, DefaultStatus
  <1> QED
    BY <1>1, <1>3, <1>4 DEF MiddlewareInv

\* A step of one request: the others keep their layer and status.
Alone(r) ==
    \A q \in Requests \ {r} :
        /\ pc'[q] = pc[q] /\ status'[q] = status[q]
        /\ wire'[q] = wire[q] /\ panicked'[q] = panicked[q]

LEMMA OneStatus ==
    ASSUME NEW r \in Requests, Alone(r), \A q \in Requests : StatusKnown(q),
           StatusKnown(r)'
    PROVE  \A q \in Requests : StatusKnown(q)'
  BY DEF Alone, StatusKnown

\* The handler, its panic and Recoverer: no meter moves.
LEMMA HandlerStep ==
    ASSUME MiddlewareInv, NEW r \in Requests, Handler(r)
    PROVE  MiddlewareInv'
  <1>1. pc[r] = "handler" /\ UNCHANGED meters /\ RequestTypes
    BY DEF MiddlewareInv, Handler, HandlerAnswers, HandlerWritesBody,
           HandlerReturns, HandlerPanics
  <1>2. pc' \in {pc, [pc EXCEPT ![r] = "count"]}
    BY DEF Handler, HandlerAnswers, HandlerWritesBody, HandlerReturns,
           HandlerPanics
  <1>3. RequestTypes' /\ Alone(r)
    <2>1. 500 \in Codes /\ 200 \in Codes
      BY ConstantsAssumption
    <2> QED
      BY <1>1, <1>2, <2>1
      DEF RequestTypes, Alone, Handler, HandlerAnswers, HandlerWritesBody,
          HandlerReturns, HandlerPanics, WriteHeader, Panics
  <1>4. StatusKnown(r)'
    <2>1. StatusKnown(r) /\ NoCode \notin Codes /\ 200 # NoCode
      BY ConstantsAssumption DEF MiddlewareInv, NoCode
    <2> QED
      BY <1>1, <2>1
      DEF RequestTypes, StatusKnown, Known, PastCount, Handler, HandlerAnswers,
          HandlerWritesBody, HandlerReturns, HandlerPanics, WriteHeader, Panics
  <1>5. /\ UnderWay' = UnderWay /\ ObservedOnes' = ObservedOnes
        /\ \A code \in Codes : CountedUnder(code)' = CountedUnder(code)
    <2>1. pc'[r] \in {"handler", "count"}
      BY <1>1, <1>2 DEF RequestTypes
    <2> QED
      BY <1>1, <1>3, <2>1
      DEF Alone, UnderWay, Ended, ObservedOnes, CountedUnder, PastCount
  <1>6. MetersCount'
    BY <1>1, <1>5 DEF MiddlewareInv, MetersCount, meters
  <1> QED
    BY <1>3, <1>4, <1>6, OneStatus DEF MiddlewareInv

\* Logger counts the request in: the gauge goes up.
LEMMA EnterStep ==
    ASSUME MiddlewareInv, NEW r \in Requests, Enter(r)
    PROVE  MiddlewareInv'
  <1>1. /\ RequestTypes /\ pc[r] = "new" /\ pc' = [pc EXCEPT ![r] = "handler"]
        /\ UNCHANGED <<status, wire, panicked>>
    BY DEF MiddlewareInv, Enter
  <1>2. RequestTypes' /\ Alone(r) /\ pc'[r] = "handler"
    BY <1>1 DEF RequestTypes, Alone
  <1>3. StatusKnown(r)'
    BY <1>1, <1>2 DEF MiddlewareInv, StatusKnown, Known, PastCount
  <1>4. /\ UnderWay' = UnderWay \cup {r} /\ r \notin UnderWay
        /\ ObservedOnes' = ObservedOnes
        /\ \A code \in Codes : CountedUnder(code)' = CountedUnder(code)
    BY <1>1, <1>2
    DEF Alone, UnderWay, Ended, ObservedOnes, CountedUnder, PastCount
  <1>5. Cardinality(UnderWay') = Cardinality(UnderWay) + 1
    BY <1>4, Joins DEF UnderWay
  <1>6. MetersCount'
    BY <1>4, <1>5 DEF MiddlewareInv, MetersCount, Enter
  <1> QED
    BY <1>2, <1>3, <1>6, OneStatus DEF MiddlewareInv

\* The request is counted under the status the wrapper remembers.
LEMMA CountStep ==
    ASSUME MiddlewareInv, NEW r \in Requests, Count(r)
    PROVE  MiddlewareInv'
  <1>1. /\ RequestTypes /\ pc[r] = "count" /\ pc' = [pc EXCEPT ![r] = "observe"]
        /\ r \notin Unlabeled
        /\ UNCHANGED <<status, wire, panicked, inFlight, observed>>
        /\ total' = [total EXCEPT ![status[r]] = @ + 1]
    BY DEF MiddlewareInv, Count
  <1>2. /\ RequestTypes' /\ Alone(r) /\ pc'[r] = "observe"
        /\ status[r] \in Codes
    BY <1>1 DEF RequestTypes, Alone
  <1>3. StatusKnown(r)'
    BY <1>1, <1>2 DEF MiddlewareInv, StatusKnown, Known, PastCount
  <1>4. UnderWay' = UnderWay /\ ObservedOnes' = ObservedOnes
    BY <1>1, <1>2 DEF Alone, UnderWay, Ended, ObservedOnes
  <1>5. /\ CountedUnder(status[r])' = CountedUnder(status[r]) \cup {r}
        /\ r \notin CountedUnder(status[r])
        /\ \A code \in Codes \ {status[r]} :
               CountedUnder(code)' = CountedUnder(code)
    BY <1>1, <1>2 DEF Alone, CountedUnder, PastCount
  <1>6. Cardinality(CountedUnder(status[r])') =
            Cardinality(CountedUnder(status[r])) + 1
    BY <1>5, Joins DEF CountedUnder
  <1>7. total' = [code \in Codes |-> Cardinality(CountedUnder(code)')]
    BY <1>1, <1>2, <1>5, <1>6 DEF MiddlewareInv, MetersCount
  <1>8. MetersCount'
    BY <1>1, <1>4, <1>7 DEF MiddlewareInv, MetersCount
  <1> QED
    BY <1>2, <1>3, <1>8, OneStatus DEF MiddlewareInv

\* The counter panics: the deferred Dec runs, nothing else is counted.
LEMMA CountPanicsStep ==
    ASSUME MiddlewareInv, NEW r \in Requests, CountPanics(r)
    PROVE  MiddlewareInv'
  <1>1. /\ RequestTypes /\ pc[r] = "count" /\ pc' = [pc EXCEPT ![r] = "dropped"]
        /\ r \in Unlabeled
        /\ UNCHANGED <<status, wire, panicked, total, observed>>
        /\ inFlight' = inFlight - 1
    BY DEF MiddlewareInv, CountPanics
  <1>2. RequestTypes' /\ Alone(r) /\ pc'[r] = "dropped"
    BY <1>1 DEF RequestTypes, Alone
  <1>3. StatusKnown(r)'
    BY <1>1, <1>2 DEF MiddlewareInv, StatusKnown, Known, PastCount
  <1>4. /\ UnderWay' = UnderWay \ {r} /\ r \in UnderWay
        /\ ObservedOnes' = ObservedOnes
        /\ \A code \in Codes : CountedUnder(code)' = CountedUnder(code)
    BY <1>1, <1>2
    DEF Alone, UnderWay, Ended, ObservedOnes, CountedUnder, PastCount
  <1>5. Cardinality(UnderWay') = Cardinality(UnderWay) - 1
    BY <1>4, Leaves DEF UnderWay
  <1>6. MetersCount'
    BY <1>1, <1>4, <1>5 DEF MiddlewareInv, MetersCount
  <1> QED
    BY <1>2, <1>3, <1>6, OneStatus DEF MiddlewareInv

\* The duration is observed.
LEMMA ObserveStep ==
    ASSUME MiddlewareInv, NEW r \in Requests, Observe(r)
    PROVE  MiddlewareInv'
  <1>1. /\ RequestTypes /\ pc[r] = "observe"
        /\ pc' = [pc EXCEPT ![r] = "deferred"]
        /\ UNCHANGED <<status, wire, panicked, inFlight, total>>
        /\ observed' = observed + 1
    BY DEF MiddlewareInv, Observe
  <1>2. RequestTypes' /\ Alone(r) /\ pc'[r] = "deferred"
    BY <1>1 DEF RequestTypes, Alone
  <1>3. StatusKnown(r)'
    BY <1>1, <1>2 DEF MiddlewareInv, StatusKnown, Known, PastCount
  <1>4. /\ ObservedOnes' = ObservedOnes \cup {r} /\ r \notin ObservedOnes
        /\ UnderWay' = UnderWay
        /\ \A code \in Codes : CountedUnder(code)' = CountedUnder(code)
    BY <1>1, <1>2
    DEF Alone, UnderWay, Ended, ObservedOnes, CountedUnder, PastCount
  <1>5. Cardinality(ObservedOnes') = Cardinality(ObservedOnes) + 1
    BY <1>4, Joins DEF ObservedOnes
  <1>6. MetersCount'
    BY <1>1, <1>4, <1>5 DEF MiddlewareInv, MetersCount
  <1> QED
    BY <1>2, <1>3, <1>6, OneStatus DEF MiddlewareInv

\* Logger returns and the gauge goes down; the answer is on the wire.
LEMMA LeaveStep ==
    ASSUME MiddlewareInv, NEW r \in Requests, Leave(r)
    PROVE  MiddlewareInv'
  <1>1. /\ RequestTypes /\ pc[r] = "deferred"
        /\ pc' = [pc EXCEPT ![r] = "answered"]
        /\ wire' = [wire EXCEPT ![r] = IF @ = NoCode THEN 200 ELSE @]
        /\ UNCHANGED <<status, panicked, total, observed>>
        /\ inFlight' = inFlight - 1
    BY DEF MiddlewareInv, Leave
  <1>2. RequestTypes' /\ Alone(r) /\ pc'[r] = "answered"
    BY <1>1, ConstantsAssumption DEF RequestTypes, Alone
  <1>3. StatusKnown(r)'
    <2>1. StatusKnown(r) /\ wire'[r] = IF wire[r] = NoCode THEN 200 ELSE wire[r]
      BY <1>1 DEF MiddlewareInv, RequestTypes
    <2> QED
      BY <1>1, <1>2, <2>1 DEF StatusKnown, Known, PastCount, NoCode
  <1>4. /\ UnderWay' = UnderWay \ {r} /\ r \in UnderWay
        /\ ObservedOnes' = ObservedOnes
        /\ \A code \in Codes : CountedUnder(code)' = CountedUnder(code)
    BY <1>1, <1>2
    DEF Alone, UnderWay, Ended, ObservedOnes, CountedUnder, PastCount
  <1>5. Cardinality(UnderWay') = Cardinality(UnderWay) - 1
    BY <1>4, Leaves DEF UnderWay
  <1>6. MetersCount'
    BY <1>1, <1>4, <1>5 DEF MiddlewareInv, MetersCount
  <1> QED
    BY <1>2, <1>3, <1>6, OneStatus DEF MiddlewareInv

LEMMA NextMiddlewareInv == MiddlewareInv /\ [Next]_vars => MiddlewareInv'
  <1> SUFFICES ASSUME MiddlewareInv, [Next]_vars
               PROVE  MiddlewareInv'
    OBVIOUS
  <1>1. ASSUME NEW r \in Requests, Enter(r) \/ Serve(r)
        PROVE  MiddlewareInv'
    BY <1>1, EnterStep, HandlerStep, CountStep, CountPanicsStep, ObserveStep,
       LeaveStep DEF Serve
  <1>2. CASE UNCHANGED vars
    BY <1>2
    DEF vars, MiddlewareInv, RequestTypes, MetersCount, UnderWay, Ended,
        CountedUnder, ObservedOnes, StatusKnown
  <1> QED
    BY <1>1, <1>2 DEF Next, Finished

\* The meters are what they count and the wrapper remembers what is reported,
\* after every step of every request.
THEOREM MetersAlwaysCount == Spec => []MiddlewareInv
  BY InitMiddlewareInv, NextMiddlewareInv, PTL DEF Spec

\* Every variable keeps its type; the gauge is never negative nor above the
\* number of requests (TypeOK, the type invariant of the runs).
THEOREM MiddlewareTypeCorrect == Spec => []TypeOK
  <1>1. MiddlewareInv => TypeOK
    <2> SUFFICES ASSUME MiddlewareInv
                 PROVE  TypeOK
      OBVIOUS
    <2>1. inFlight \in 0 .. Cardinality(Requests) /\ observed \in Nat
      BY SomeRequests
      DEF MiddlewareInv, MetersCount, UnderWay, ObservedOnes
    <2>2. \A code \in Codes : Cardinality(CountedUnder(code)) \in Nat
      BY SomeRequests DEF CountedUnder
    <2>3. total \in [Codes -> Nat]
      BY <2>2 DEF MiddlewareInv, MetersCount
    <2> QED
      BY <2>1, <2>3 DEF MiddlewareInv, RequestTypes, TypeOK
  <1> QED
    BY <1>1, MetersAlwaysCount, PTL

\* The gauge of requests in flight is their number, whatever panics unwind,
\* the one of the counter itself included.
THEOREM GaugeAlwaysMatches == Spec => []GaugeMatches
  <1>1. MiddlewareInv => GaugeMatches
    BY DEF MiddlewareInv, MetersCount, UnderWay, GaugeMatches
  <1> QED
    BY <1>1, MetersAlwaysCount, PTL

\* Once no request is under way, the counter and the histogram hold every
\* answered request that has a label, under the status its client got or the
\* 500 of its panic.
THEOREM RequestsAreCounted == Spec => []CountedAsSent
  <1>1. MiddlewareInv => CountedAsSent
    <2> SUFFICES ASSUME MiddlewareInv,
                        \A r \in Requests : pc[r] = "new" \/ Ended(r)
                 PROVE  LET served == {r \in Requests : Ended(r) /\ r \notin Unlabeled}
                        IN  /\ \A code \in Codes :
                                   total[code] = Cardinality({r \in served :
                                                         Reported(r) = code})
                            /\ observed = Cardinality(served)
      BY DEF CountedAsSent
    <2> DEFINE served == {r \in Requests : Ended(r) /\ r \notin Unlabeled}
    <2>1. ASSUME NEW r \in Requests
          PROVE  /\ r \in served <=> pc[r] = "answered"
                 /\ pc[r] = "answered" => Reported(r) = status[r]
                 /\ pc[r] \in PastCount => pc[r] = "answered"
      BY <2>1 DEF MiddlewareInv, StatusKnown, Known, Reported, Ended, PastCount
    <2>2. served = ObservedOnes
      BY <2>1 DEF ObservedOnes, PastCount
    <2>3. \A code \in Codes :
              {r \in served : Reported(r) = code} = CountedUnder(code)
      BY <2>1 DEF CountedUnder, PastCount
    <2> QED
      BY <2>2, <2>3 DEF MiddlewareInv, MetersCount
  <1> QED
    BY <1>1, MetersAlwaysCount, PTL
=============================================================================
