-------------------------- MODULE NotifyAPIProofs --------------------------
(* Theorems about NotifyAPI, for any requests, mishaps and starts.         *)
EXTENDS NotifyAPI, TLAPS

(* What the step of a request says about its two writes.  The parameters   *)
(* are the step a, the reply y, and whether the request is in rows (w) and *)
(* in the queue (k), the copies c in the topic and the server s.           *)

Before == {"idle", "limit", "user", "prefs", "save"}

Progress(a, w, k, c) ==
    /\ a \in Before \cup {"publish"} => ~k /\ c = 0
    /\ k => c = 0
    /\ a \in {"publish", "wait"} \/ k \/ c > 0 => w

Clean(a, y, w, k, c, s) ==
    /\ a # "cut"
    /\ a \in Before => ~w
    /\ a = "wait" => k
    /\ a = "done" =>
           /\ ~k
           /\ c = (IF w THEN 1 ELSE 0)
           /\ y = "202" <=> w
    /\ s = "closing" => a \notin Steps

InOrder(r) == Progress(at[r], r \in rows, r \in queue, topic[r])

CleanSoFar(r) ==
    Clean(at[r], reply[r], r \in rows, r \in queue, topic[r], server)

RequestInv ==
    /\ TypeOK
    /\ \A r \in Requests : InOrder(r)
    /\ mishaps = 0 => \A r \in Requests : CleanSoFar(r)

LEMMA InitRequestInv == Init => RequestInv
  BY APIAssumption
  DEF Init, RequestInv, TypeOK, InOrder, CleanSoFar, Progress, Clean, Before,
      Steps, Replies, Refusals

\* Counting a mishap stays within the bound and ends the clean history.
LEMMA MishapCount ==
    ASSUME TypeOK, Mishap
    PROVE  mishaps' \in 0 .. MaxMishaps /\ mishaps' # 0
  BY APIAssumption DEF TypeOK, Mishap

\* A call that fails without a mishap fails in a server being closed.
LEMMA FailureCount ==
    ASSUME TypeOK, CallFails
    PROVE  /\ mishaps' \in 0 .. MaxMishaps
           /\ mishaps' = 0 => mishaps = 0 /\ server = "closing"
  BY MishapCount DEF TypeOK, CallFails

\* A step of one request keeps RequestInv when it keeps what is said of it.
LEMMA OneRequest ==
    ASSUME RequestInv, TypeOK', NEW r \in Requests, UNCHANGED server,
           \A q \in Requests \ {r} :
               /\ at'[q] = at[q]
               /\ reply'[q] = reply[q]
               /\ q \in rows' <=> q \in rows
               /\ q \in queue' <=> q \in queue
               /\ topic'[q] = topic[q],
           InOrder(r)',
           mishaps' = 0 => mishaps = 0 /\ CleanSoFar(r)'
    PROVE  RequestInv'
  <1>1. ASSUME NEW q \in Requests \ {r}
        PROVE  InOrder(q)'
    BY <1>1 DEF RequestInv, InOrder, Progress
  <1>2. ASSUME NEW q \in Requests \ {r}, mishaps' = 0
        PROVE  CleanSoFar(q)'
    <2>1. CleanSoFar(q)
      BY <1>2 DEF RequestInv
    <2> QED
      BY <1>2, <2>1 DEF CleanSoFar, Clean
  <1>3. \A q \in Requests : InOrder(q)'
    BY <1>1
  <1>4. mishaps' = 0 => \A q \in Requests : CleanSoFar(q)'
    BY <1>2
  <1> QED
    BY <1>3, <1>4 DEF RequestInv

\* A request that goes on, and one that is answered.
LEMMA GoesOn ==
    ASSUME TypeOK, NEW r \in Requests, NEW a \in Steps, Goto(r, a)
    PROVE  /\ at' \in [Requests -> Steps \cup {"idle", "done", "cut"}]
           /\ reply' \in [Requests -> Replies]
           /\ at'[r] = a
           /\ \A q \in Requests \ {r} : at'[q] = at[q] /\ reply'[q] = reply[q]
  BY DEF TypeOK, Goto

LEMMA IsAnswered ==
    ASSUME TypeOK, NEW r \in Requests, NEW y \in Replies, Answer(r, y)
    PROVE  /\ at' \in [Requests -> Steps \cup {"idle", "done", "cut"}]
           /\ reply' \in [Requests -> Replies]
           /\ at'[r] = "done" /\ reply'[r] = y
           /\ \A q \in Requests \ {r} : at'[q] = at[q] /\ reply'[q] = reply[q]
  BY DEF TypeOK, Answer

\* The steps before Save: the request moves on, or is refused, or fails.
LEMMA QuietStep ==
    ASSUME RequestInv, NEW r \in Requests,
           at[r] \in Before, UNCHANGED <<process, rows, queue, topic>>,
           \/ /\ \E a \in Before \cap Steps : Goto(r, a)
              /\ UNCHANGED mishaps
              /\ server # "closing" \/ at[r] # "idle"
           \/ \E y \in Replies \ {"202"} : Answer(r, y),
           UNCHANGED mishaps \/ CallFails
    PROVE  RequestInv'
  <1>1. TypeOK /\ InOrder(r) /\ (mishaps = 0 => CleanSoFar(r))
    BY DEF RequestInv
  <1>2. /\ mishaps' \in 0 .. MaxMishaps
        /\ mishaps' = 0 => mishaps = 0
    BY <1>1, FailureCount DEF TypeOK
  <1>3. CASE \E a \in Before \cap Steps : Goto(r, a)
    <2>1. PICK a \in Before \cap Steps : Goto(r, a)
      BY <1>3
    <2>2. /\ at' \in [Requests -> Steps \cup {"idle", "done", "cut"}]
          /\ reply' \in [Requests -> Replies]
          /\ at'[r] = a
          /\ \A q \in Requests \ {r} : at'[q] = at[q] /\ reply'[q] = reply[q]
      BY <1>1, <2>1, GoesOn
    <2>3. TypeOK'
      BY <1>1, <1>2, <2>2 DEF TypeOK, process
    <2>4. InOrder(r)'
      BY <1>1, <2>2 DEF InOrder, Progress, Before
    <2>5. at[r] \in Steps \/ server # "closing"
      <3>1. ~(\E y \in Replies \ {"202"} : Answer(r, y))
        BY <2>2 DEF Answer, Before, Steps, TypeOK
      <3> QED
        BY <3>1 DEF Before, Steps
    <2>6. mishaps' = 0 => mishaps = 0 /\ CleanSoFar(r)'
      BY <1>1, <1>2, <2>2, <2>5 DEF CleanSoFar, Clean, Before, Steps, process
    <2> QED
      BY <2>2, <2>3, <2>4, <2>6, OneRequest DEF process
  <1>4. CASE \E y \in Replies \ {"202"} : Answer(r, y)
    <2>1. PICK y \in Replies \ {"202"} : Answer(r, y)
      BY <1>4
    <2>2. /\ at' \in [Requests -> Steps \cup {"idle", "done", "cut"}]
          /\ reply' \in [Requests -> Replies]
          /\ at'[r] = "done" /\ reply'[r] = y
          /\ \A q \in Requests \ {r} : at'[q] = at[q] /\ reply'[q] = reply[q]
      BY <1>1, <2>1, IsAnswered
    <2>3. TypeOK'
      BY <1>1, <1>2, <2>2 DEF TypeOK, process
    <2>4. InOrder(r)'
      BY <1>1, <2>2 DEF InOrder, Progress, Before
    <2>5. mishaps' = 0 => mishaps = 0 /\ CleanSoFar(r)'
      BY <1>1, <1>2, <2>2
      DEF CleanSoFar, Clean, InOrder, Progress, Before, Steps, process
    <2> QED
      BY <2>2, <2>3, <2>4, <2>5, OneRequest DEF process
  <1> QED
    BY <1>3, <1>4

LEMMA EarlySteps ==
    ASSUME RequestInv, NEW r \in Requests,
           Arrive(r) \/ CheckLimit(r) \/ ResolveUser(r) \/ CheckPreferences(r)
    PROVE  RequestInv'
  <1>1. CASE Arrive(r)
    BY <1>1, QuietStep DEF Arrive, Before, Steps, Replies, Refusals
  <1>2. CASE CheckLimit(r)
    BY <1>2, QuietStep DEF CheckLimit, Before, Steps, Replies, Refusals
  <1>3. CASE ResolveUser(r)
    BY <1>3, QuietStep DEF ResolveUser, Before, Steps, Replies, Refusals
  <1>4. CASE CheckPreferences(r)
    BY <1>4, QuietStep DEF CheckPreferences, Before, Steps, Replies, Refusals
  <1> QED
    BY <1>1, <1>2, <1>3, <1>4

\* The row comes first: from here on r may have a message.
LEMMA SaveStep ==
    ASSUME RequestInv, NEW r \in Requests, Save(r)
    PROVE  RequestInv'
  <1>1. TypeOK /\ InOrder(r) /\ (mishaps = 0 => CleanSoFar(r))
    BY DEF RequestInv
  <1>2. /\ at' \in [Requests -> Steps \cup {"idle", "done", "cut"}]
        /\ reply' \in [Requests -> Replies]
        /\ at'[r] = "publish"
        /\ \A q \in Requests \ {r} : at'[q] = at[q] /\ reply'[q] = reply[q]
    BY <1>1, GoesOn DEF Save, Steps
  <1>3. TypeOK'
    BY <1>1, <1>2 DEF TypeOK, Save, process
  <1>4. InOrder(r)'
    BY <1>1, <1>2 DEF InOrder, Progress, Before, Save
  <1>5. mishaps' = 0 => mishaps = 0 /\ CleanSoFar(r)'
    BY <1>1, <1>2 DEF CleanSoFar, Clean, Before, Steps, Save, process
  <1> QED
    BY <1>2, <1>3, <1>4, <1>5, OneRequest DEF Save, process

\* A request that fails at its save or its publication leaves no message.
LEMMA FailingStep ==
    ASSUME RequestInv, NEW r \in Requests, SaveFails(r) \/ PublishFails(r)
    PROVE  RequestInv'
  <1>1. TypeOK /\ InOrder(r) /\ (mishaps = 0 => CleanSoFar(r))
    BY DEF RequestInv
  <1>2. /\ at' \in [Requests -> Steps \cup {"idle", "done", "cut"}]
        /\ reply' \in [Requests -> Replies]
        /\ at'[r] = "done"
        /\ \A q \in Requests \ {r} : at'[q] = at[q] /\ reply'[q] = reply[q]
    BY <1>1, IsAnswered DEF SaveFails, PublishFails, Replies
  <1>3. /\ CallFails
        /\ at[r] \in {"save", "publish"}
        /\ rows' \in {rows, rows \cup {r}}
        /\ UNCHANGED <<process, queue, topic>>
    BY DEF SaveFails, PublishFails
  <1>4. /\ mishaps' \in 0 .. MaxMishaps
        /\ mishaps' = 0 => mishaps = 0 /\ server = "closing"
    BY <1>1, <1>3, FailureCount
  <1>5. TypeOK'
    BY <1>1, <1>2, <1>3, <1>4 DEF TypeOK, process
  <1>6. InOrder(r)'
    BY <1>1, <1>2, <1>3 DEF InOrder, Progress, Before
  <1>7. mishaps' # 0
    BY <1>1, <1>3, <1>4 DEF CleanSoFar, Clean, Steps
  <1> QED
    BY <1>2, <1>3, <1>5, <1>6, <1>7, OneRequest DEF process

LEMMA PublishStep ==
    ASSUME RequestInv, NEW r \in Requests, Publish(r)
    PROVE  RequestInv'
  <1>1. TypeOK /\ InOrder(r) /\ (mishaps = 0 => CleanSoFar(r))
    BY DEF RequestInv
  <1>2. /\ at' \in [Requests -> Steps \cup {"idle", "done", "cut"}]
        /\ reply' \in [Requests -> Replies]
        /\ at'[r] = "wait"
        /\ \A q \in Requests \ {r} : at'[q] = at[q] /\ reply'[q] = reply[q]
    BY <1>1, GoesOn DEF Publish, Steps
  <1>3. TypeOK'
    BY <1>1, <1>2 DEF TypeOK, Publish, process
  <1>4. InOrder(r)'
    BY <1>1, <1>2 DEF InOrder, Progress, Before, Publish
  <1>5. mishaps' = 0 => mishaps = 0 /\ CleanSoFar(r)'
    BY <1>1, <1>2 DEF CleanSoFar, Clean, Before, Steps, Publish, process
  <1> QED
    BY <1>2, <1>3, <1>4, <1>5, OneRequest DEF Publish, process

LEMMA StopWaitingStep ==
    ASSUME RequestInv, NEW r \in Requests, StopWaiting(r)
    PROVE  RequestInv'
  <1>1. TypeOK /\ InOrder(r)
    BY DEF RequestInv
  <1>2. /\ at' \in [Requests -> Steps \cup {"idle", "done", "cut"}]
        /\ reply' \in [Requests -> Replies]
        /\ at'[r] = "done"
        /\ \A q \in Requests \ {r} : at'[q] = at[q] /\ reply'[q] = reply[q]
    BY <1>1, IsAnswered DEF StopWaiting, Replies
  <1>3. mishaps' \in 0 .. MaxMishaps /\ mishaps' # 0
    BY <1>1, MishapCount DEF StopWaiting
  <1>4. TypeOK'
    BY <1>1, <1>2, <1>3 DEF TypeOK, StopWaiting, process
  <1>5. InOrder(r)'
    BY <1>1, <1>2 DEF InOrder, Progress, Before, StopWaiting
  <1> QED
    BY <1>2, <1>3, <1>4, <1>5, OneRequest DEF StopWaiting, process

\* The end of a batch: r was waiting, or its handler had left already.
LEMMA BatchStep ==
    ASSUME RequestInv, NEW r \in Requests, Writer(r)
    PROVE  RequestInv'
  <1>1. TypeOK /\ InOrder(r) /\ (mishaps = 0 => CleanSoFar(r))
    BY DEF RequestInv
  <1>2. PICK code \in {"202", "500"} :
            /\ BatchDone(r, code)
            /\ \/ /\ code = "202"
                  /\ topic' = [topic EXCEPT ![r] = @ + 1]
                  /\ UNCHANGED mishaps
               \/ /\ Mishap
                  /\ topic' \in {topic, [topic EXCEPT ![r] = @ + 1],
                                [topic EXCEPT ![r] = @ + 2]}
    BY DEF Writer, WriterSends, WriterGivesUp
  <1>3. r \in queue /\ at[r] \notin Before \cup {"publish"}
        /\ topic[r] = 0 /\ r \in rows
    BY <1>1, <1>2 DEF InOrder, Progress, BatchDone
  <1>4. /\ at' \in [Requests -> Steps \cup {"idle", "done", "cut"}]
        /\ reply' \in [Requests -> Replies]
        /\ at[r] = "wait" => at'[r] = "done" /\ reply'[r] = code
        /\ at[r] # "wait" => at'[r] = at[r] /\ reply'[r] = reply[r]
        /\ \A q \in Requests \ {r} : at'[q] = at[q] /\ reply'[q] = reply[q]
    <2>1. CASE at[r] = "wait"
      <3>1. Answer(r, code) /\ code \in Replies
        BY <1>2, <2>1 DEF BatchDone, Replies
      <3> QED
        BY <1>1, <2>1, <3>1, IsAnswered
    <2>2. CASE at[r] # "wait"
      <3>1. UNCHANGED handler
        BY <1>2, <2>2 DEF BatchDone
      <3> QED
        BY <1>1, <2>2, <3>1 DEF handler, TypeOK
    <2> QED
      BY <2>1, <2>2
  <1>5. /\ topic' \in [Requests -> 0 .. 2]
        /\ \A q \in Requests \ {r} : topic'[q] = topic[q]
    BY <1>1, <1>2, <1>3 DEF TypeOK
  <1>6. mishaps' \in 0 .. MaxMishaps /\ (mishaps' = 0 => mishaps' = mishaps)
    BY <1>1, <1>2, MishapCount DEF TypeOK
  <1>7. queue' = queue \ {r} /\ UNCHANGED <<process, rows>>
    BY <1>2 DEF BatchDone
  <1>8. TypeOK'
    BY <1>1, <1>4, <1>5, <1>6, <1>7 DEF TypeOK, process
  <1>9. at'[r] \notin Before \cup {"publish"}
    BY <1>3, <1>4 DEF Before
  <1>10. InOrder(r)'
    BY <1>3, <1>7, <1>9 DEF InOrder, Progress
  <1>11. ASSUME mishaps' = 0
         PROVE  CleanSoFar(r)'
    <2>1. CleanSoFar(r) /\ at[r] \in Steps \cup {"idle", "done", "cut"}
      BY <1>1, <1>6, <1>11 DEF TypeOK
    <2>2. at[r] = "wait"
      BY <1>3, <2>1 DEF CleanSoFar, Clean, Before, Steps
    <2>3. code = "202" /\ topic'[r] = 1
      <3>1. ~Mishap
        BY <1>1, <1>11, MishapCount
      <3> QED
        BY <1>1, <1>2, <1>3, <3>1 DEF TypeOK
    <2> QED
      BY <1>3, <1>4, <1>7, <2>1, <2>2, <2>3
      DEF CleanSoFar, Clean, Before, Steps, process
  <1> QED
    BY <1>4, <1>5, <1>6, <1>7, <1>8, <1>10, <1>11, OneRequest DEF process

\* Steps of the process that leave the requests alone.
LEMMA ProcessStep ==
    ASSUME RequestInv, Start \/ Signal \/ ServeFails \/ Drained \/ DrainTimeout
    PROVE  RequestInv'
  <1>1. TypeOK /\ UNCHANGED <<handler, rows, queue, topic>>
    BY DEF RequestInv, Start, Signal, ServeFails, Drained, DrainTimeout
  <1>2. /\ mishaps' \in 0 .. MaxMishaps
        /\ mishaps' = 0 => mishaps = 0
    BY <1>1, MishapCount
    DEF TypeOK, Start, Signal, ServeFails, Drained, DrainTimeout
  <1>3. server' \in {"down", "up", "draining", "closing"}
        /\ starts' \in 0 .. MaxStarts
    BY <1>1, APIAssumption
    DEF TypeOK, Start, Signal, ServeFails, Drained, DrainTimeout
  <1>4. TypeOK'
    BY <1>1, <1>2, <1>3 DEF TypeOK, handler
  <1>5. \A r \in Requests : InOrder(r)'
    BY <1>1 DEF RequestInv, InOrder, handler
  <1>6. ASSUME mishaps' = 0, NEW r \in Requests
        PROVE  CleanSoFar(r)'
    <2>1. mishaps = 0 /\ CleanSoFar(r)
      BY <1>2, <1>6 DEF RequestInv
    <2>2. server' = "closing" => at[r] \notin Steps
      <3>1. ~Mishap
        BY <1>1, <1>6, MishapCount
      <3> QED
        BY <3>1 DEF Start, Signal, ServeFails, Drained, DrainTimeout, InFlight
    <2> QED
      BY <1>1, <2>1, <2>2 DEF CleanSoFar, Clean, handler
  <1> QED
    BY <1>4, <1>5, <1>6 DEF RequestInv

\* The end of the process.  One that ends cleanly has no request in flight.
LEMMA EndStep ==
    ASSUME RequestInv, Exit \/ Crash
    PROVE  RequestInv'
  <1>1. /\ TypeOK
        /\ server' = "down"
        /\ at' = [r \in Requests |-> IF r \in InFlight THEN "cut" ELSE at[r]]
        /\ queue' = {}
        /\ UNCHANGED <<starts, reply, rows, topic>>
    BY DEF RequestInv, Exit, Crash, CutOff
  <1>2. /\ mishaps' \in 0 .. MaxMishaps
        /\ mishaps' = 0 => Exit /\ mishaps = 0
    BY <1>1, MishapCount DEF TypeOK, Exit, Crash
  <1>3. TypeOK'
    BY <1>1, <1>2 DEF TypeOK
  <1>4. ASSUME NEW r \in Requests
        PROVE  InOrder(r)'
    <2>1. InOrder(r) /\ at'[r] \in {"cut", at[r]}
      BY <1>1 DEF RequestInv
    <2> QED
      BY <1>1, <2>1 DEF InOrder, Progress, Before
  <1>5. ASSUME mishaps' = 0, NEW r \in Requests
        PROVE  CleanSoFar(r)'
    <2>1. Exit /\ CleanSoFar(r)
      BY <1>2, <1>5 DEF RequestInv
    <2>2. server = "closing" /\ queue = {}
      BY <2>1 DEF Exit
    <2>3. at[r] \notin Steps
      BY <2>1, <2>2 DEF CleanSoFar, Clean
    <2>4. at'[r] = at[r]
      BY <1>1, <2>3 DEF InFlight
    <2> QED
      BY <1>1, <2>1, <2>2, <2>3, <2>4 DEF CleanSoFar, Clean
  <1> QED
    BY <1>3, <1>4, <1>5 DEF RequestInv

LEMMA NextRequestInv == RequestInv /\ [Next]_vars => RequestInv'
  <1> SUFFICES ASSUME RequestInv, [Next]_vars
               PROVE  RequestInv'
    OBVIOUS
  <1>1. ASSUME NEW r \in Requests,
               Arrive(r) \/ Handle(r) \/ StopWaiting(r) \/ Writer(r)
        PROVE  RequestInv'
    BY <1>1, EarlySteps, SaveStep, FailingStep, PublishStep, StopWaitingStep,
       BatchStep DEF Handle
  <1>2. CASE Start \/ Signal \/ ServeFails \/ Drained \/ DrainTimeout
    BY <1>2, ProcessStep
  <1>3. CASE Exit \/ Crash
    BY <1>3, EndStep
  <1>4. CASE UNCHANGED vars
    BY <1>4 DEF vars, process, handler, RequestInv, TypeOK, InOrder, CleanSoFar
  <1> QED
    BY <1>1, <1>2, <1>3, <1>4 DEF Next, Stop

(* RequestInv is inductive: it holds in every state of every execution.    *)
THEOREM AlwaysRequestInv == Spec => []RequestInv
  BY InitRequestInv, NextRequestInv, PTL DEF Spec

(* SendNotification saves before it publishes and stops when the save      *)
(* fails: a message queued or in the topic has its row, at any time.       *)
THEOREM MessagesHaveRows == Spec => []MessageHasRow
  <1>1. RequestInv => MessageHasRow
    BY DEF RequestInv, TypeOK, InOrder, Progress, MessageHasRow
  <1> QED
    BY <1>1, AlwaysRequestInv, PTL

(* Without a failure the handler's two writes and its answer agree, a      *)
(* shutdown that drains the requests included.                             *)
THEOREM CleanWritesAgree == Spec => []WritesAgree
  <1>1. RequestInv => WritesAgree
    BY DEF RequestInv, CleanSoFar, Clean, WritesAgree
  <1> QED
    BY <1>1, AlwaysRequestInv, PTL

(* Every variable of the server keeps its type, a message is in the topic  *)
(* at most twice (TypeOK, the type invariant of the runs).                 *)
THEOREM APITypeCorrect == Spec => []TypeOK
  <1>1. RequestInv => TypeOK
    BY DEF RequestInv
  <1> QED
    BY <1>1, AlwaysRequestInv, PTL

\* A step without a mishap takes no message from the writer but to store it.
LEMMA NextMessageNotDropped ==
    ASSUME RequestInv, [Next]_vars, NEW r \in queue, r \notin queue',
           mishaps' = mishaps
    PROVE  topic'[r] > topic[r]
  <1>1. TypeOK /\ r \in Requests /\ ~Mishap
    BY DEF RequestInv, TypeOK, Mishap
  <1>2. ASSUME NEW q \in Requests, Writer(q)
        PROVE  topic'[r] > topic[r]
    <2>1. BatchDone(q, "202") /\ topic' = [topic EXCEPT ![q] = @ + 1]
      BY <1>1, <1>2 DEF Writer, WriterSends, WriterGivesUp
    <2>2. q = r
      BY <1>1, <2>1 DEF BatchDone
    <2> QED
      BY <1>1, <2>1, <2>2 DEF TypeOK
  <1>3. \A q \in Requests : ~(Arrive(q) \/ Handle(q) \/ StopWaiting(q))
    BY DEF Arrive, Handle, StopWaiting, CheckLimit, ResolveUser, CheckPreferences,
           Save, SaveFails, Publish, PublishFails
  <1>4. ~(Start \/ ServeFails \/ Signal \/ Drained \/ DrainTimeout \/ Exit)
    BY DEF Start, ServeFails, Signal, Drained, DrainTimeout, Exit
  <1>5. ~Crash /\ ~(UNCHANGED vars)
    BY <1>1 DEF Crash, vars
  <1> QED
    BY <1>2, <1>3, <1>4, <1>5 DEF Next, Stop

(* A handler that has answered leaves its message to the writer: without a *)
(* mishap it leaves the queue for the topic only, shutdown included.       *)
THEOREM QueueIsFlushed == Spec => MessageNotDropped
  <1> DEFINE Kept == \A r \in queue : r \notin queue' /\ mishaps' = mishaps =>
                         topic'[r] > topic[r]
  <1>1. RequestInv /\ [Next]_vars => [Kept]_vars
    BY NextMessageNotDropped
  <1> QED
    BY <1>1, AlwaysRequestInv, PTL DEF Spec, MessageNotDropped
=============================================================================
