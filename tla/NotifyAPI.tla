----------------------------- MODULE NotifyAPI -----------------------------
(***************************************************************************)
(* The API server (cmd/server): concurrent POST /notify requests, each     *)
(* walking the steps of api.SendNotification, the Kafka writer they share, *)
(* and the life of the process from start to shutdown.                     *)
(*                                                                         *)
(* A request saves its notification in Postgres and then publishes it:     *)
(* two writes with no transaction around them.  The writer batches         *)
(* messages in the background, so a request that stops waiting leaves its  *)
(* message behind.  What the limiter and the user cache answer is left     *)
(* open here.                                                              *)
(***************************************************************************)
EXTENDS Integers, FiniteSets

CONSTANTS
    Requests,    \* requests, each with the ID of its own notification
    MaxMishaps,  \* bound: failures, time-outs and crashes
    MaxStarts    \* bound: starts of the server

ASSUME APIAssumption == MaxMishaps \in Nat /\ MaxStarts \in Nat

VARIABLES
    server,  \* the process: "down", "up", "draining" or "closing"
    at,      \* at[r]: the step of SendNotification r is about to take
    reply,   \* reply[r]: what the handler answered, "none" before that
    rows,    \* requests whose row is in table notifications
    queue,   \* requests whose message the writer has yet to send
    topic,   \* topic[r]: copies of r's message in the topic
    mishaps, \* failures so far
    starts   \* starts so far

process == <<server, starts>>
handler == <<at, reply>>
vars == <<process, handler, rows, queue, topic, mishaps>>

Steps == {"limit", "user", "prefs", "save", "publish", "wait"}
Refusals == {"400", "429", "404", "skipped"}
Replies == Refusals \cup {"none", "500", "202"}

TypeOK ==
    /\ server \in {"down", "up", "draining", "closing"}
    /\ at \in [Requests -> Steps \cup {"idle", "done", "cut"}]
    /\ reply \in [Requests -> Replies]
    /\ rows \subseteq Requests
    /\ queue \subseteq Requests
    /\ topic \in [Requests -> 0 .. 2]
    /\ mishaps \in 0 .. MaxMishaps
    /\ starts \in 0 .. MaxStarts

Init ==
    /\ server = "down"
    /\ at = [r \in Requests |-> "idle"]
    /\ reply = [r \in Requests |-> "none"]
    /\ rows = {}
    /\ queue = {}
    /\ topic = [r \in Requests |-> 0]
    /\ mishaps = 0
    /\ starts = 0

Mishap == mishaps < MaxMishaps /\ mishaps' = mishaps + 1

\* A call that fails; once the pools are being closed any call may.
CallFails == Mishap \/ (server = "closing" /\ UNCHANGED mishaps)

-----------------------------------------------------------------------------
(* SendNotification.                                                       *)

Goto(r, step) == at' = [at EXCEPT ![r] = step] /\ UNCHANGED reply

Answer(r, code) ==
    /\ at' = [at EXCEPT ![r] = "done"]
    /\ reply' = [reply EXCEPT ![r] = code]

\* Decoding and validation.
Arrive(r) ==
    /\ server = "up"
    /\ at[r] = "idle"
    /\ Goto(r, "limit") \/ Answer(r, "400")
    /\ UNCHANGED <<process, rows, queue, topic, mishaps>>

\* Over the limit, or within it; a limiter that fails lets the request pass.
CheckLimit(r) ==
    /\ at[r] = "limit"
    /\ Goto(r, "user") \/ Answer(r, "429")
    /\ UNCHANGED <<process, rows, queue, topic, mishaps>>

\* An unknown user and a failed lookup give the same answer.
ResolveUser(r) ==
    /\ at[r] = "user"
    /\ Goto(r, "prefs") \/ Answer(r, "404")
    /\ UNCHANGED <<process, rows, queue, topic, mishaps>>

CheckPreferences(r) ==
    /\ at[r] = "prefs"
    /\ \/ (Goto(r, "save") \/ Answer(r, "skipped")) /\ UNCHANGED mishaps
       \/ Answer(r, "500") /\ CallFails
    /\ UNCHANGED <<process, rows, queue, topic>>

Save(r) ==
    /\ at[r] = "save"
    /\ rows' = rows \cup {r}
    /\ Goto(r, "publish")
    /\ UNCHANGED <<process, queue, topic, mishaps>>

\* Faulty variant: the error is logged and the request goes on.
SaveFailsUnnoticed(r) ==
    /\ at[r] = "save"
    /\ CallFails
    /\ rows' \in {rows, rows \cup {r}}
    /\ Goto(r, "publish")
    /\ UNCHANGED <<process, queue, topic>>
\* The error may reach the handler although the row was stored.
SaveFails(r) ==
    /\ at[r] = "save"
    /\ CallFails
    /\ rows' \in {rows, rows \cup {r}}
    /\ Answer(r, "500")
    /\ UNCHANGED <<process, queue, topic>>

\* WriteMessages hands the message to the writer and waits for its batch.
Publish(r) ==
    /\ at[r] = "publish"
    /\ server # "closing"
    /\ queue' = queue \cup {r}
    /\ Goto(r, "wait")
    /\ UNCHANGED <<process, rows, topic, mishaps>>

\* The writer is closed, or knows no partition for the topic.
PublishFails(r) ==
    /\ at[r] = "publish"
    /\ CallFails
    /\ Answer(r, "500")
    /\ UNCHANGED <<process, rows, queue, topic>>

\* The client went away: WriteMessages returns, the message stays queued.
StopWaiting(r) ==
    /\ at[r] = "wait"
    /\ Mishap
    /\ Answer(r, "500")
    /\ UNCHANGED <<process, rows, queue, topic>>

-----------------------------------------------------------------------------
(* The writer's background batches.                                        *)

\* Faulty variants of BatchDone: the batch is kept and sent again; its
\* handler is not told.
BatchKept(r, code) ==
    /\ r \in queue
    /\ IF at[r] = "wait" THEN Answer(r, code) ELSE UNCHANGED handler
    /\ UNCHANGED <<process, rows, queue>>
BatchDoneSilently(r, code) ==
    /\ r \in queue
    /\ queue' = queue \ {r}
    /\ UNCHANGED <<process, handler, rows>>
\* The batch of r is over: its handler, if it still waits, gets the verdict.
BatchDone(r, code) ==
    /\ r \in queue
    /\ queue' = queue \ {r}
    /\ IF at[r] = "wait" THEN Answer(r, code) ELSE UNCHANGED handler
    /\ UNCHANGED <<process, rows>>

\* Faulty variant: the batch is over before it is sent.
WriterReports(r) ==
    /\ BatchDone(r, "202")
    /\ UNCHANGED <<topic, mishaps>>

\* RequiredAcks is left at its default, none: once the bytes are on the
\* connection the batch has succeeded, whatever the broker makes of it.  An
\* attempt the writer repeats may have been stored too.
WriterSends(r) ==
    /\ BatchDone(r, "202")
    /\ \/ topic' = [topic EXCEPT ![r] = @ + 1] /\ UNCHANGED mishaps
       \/ topic' \in {topic, [topic EXCEPT ![r] = @ + 2]} /\ Mishap

\* Every attempt failed; one of them may have been stored all the same.
WriterGivesUp(r) ==
    /\ BatchDone(r, "500")
    /\ topic' \in {topic, [topic EXCEPT ![r] = @ + 1]}
    /\ Mishap

-----------------------------------------------------------------------------
(* The process.                                                            *)

Start ==
    /\ server = "down"
    /\ starts < MaxStarts
    /\ server' = "up"
    /\ starts' = starts + 1
    /\ UNCHANGED <<handler, rows, queue, topic, mishaps>>

InFlight == {r \in Requests : at[r] \in Steps}

\* SIGINT or SIGTERM: server.Shutdown closes the listener.
Signal ==
    /\ server = "up"
    /\ server' = "draining"
    /\ UNCHANGED <<starts, handler, rows, queue, topic, mishaps>>

\* ListenAndServe fails: run() returns its error.
ServeFails ==
    /\ server = "up"
    /\ Mishap
    /\ server' = "closing"
    /\ UNCHANGED <<starts, handler, rows, queue, topic>>

\* Faulty variant of Drained: the requests in flight are not waited for.
DrainedAtOnce ==
    /\ server = "draining"
    /\ server' = "closing"
    /\ UNCHANGED <<starts, handler, rows, queue, topic, mishaps>>
\* Shutdown has seen the last request; the deferred Close calls run.
Drained ==
    /\ server = "draining"
    /\ InFlight = {}
    /\ server' = "closing"
    /\ UNCHANGED <<starts, handler, rows, queue, topic, mishaps>>

\* Ten seconds are over: run() returns an error, the same Close calls run
\* while the requests that are left go on.
DrainTimeout ==
    /\ server = "draining"
    /\ InFlight # {}
    /\ Mishap
    /\ server' = "closing"
    /\ UNCHANGED <<starts, handler, rows, queue, topic>>

\* Requests in flight end with the process, without an answer.
CutOff ==
    /\ server' = "down"
    /\ at' = [r \in Requests |-> IF r \in InFlight THEN "cut" ELSE at[r]]
    /\ UNCHANGED <<starts, reply, rows, topic>>

\* Faulty variant of Exit: the writer is not flushed.
ExitUnflushed ==
    /\ server = "closing"
    /\ CutOff
    /\ queue' = {}
    /\ UNCHANGED mishaps
\* producer.Close() has flushed the writer, and main returns.
Exit ==
    /\ server = "closing"
    /\ queue = {}
    /\ CutOff
    /\ UNCHANGED <<queue, mishaps>>

Crash ==
    /\ server # "down"
    /\ CutOff
    /\ queue' = {}
    /\ Mishap

-----------------------------------------------------------------------------

Handle(r) ==
    \/ CheckLimit(r) \/ ResolveUser(r) \/ CheckPreferences(r)
    \/ Save(r) \/ SaveFails(r)
    \/ Publish(r) \/ PublishFails(r)

Writer(r) == WriterSends(r) \/ WriterGivesUp(r)

Stop == Drained \/ DrainTimeout \/ Exit

Next ==
    \/ \E r \in Requests : Arrive(r) \/ Handle(r) \/ StopWaiting(r) \/ Writer(r)
    \/ Start \/ ServeFails \/ Signal \/ Stop \/ Crash

Spec == Init /\ [][Next]_vars

\* Goroutines that can run do: the handlers', the writer's and main's.  A
\* client is not obliged to send a request, or to give one up.
Fairness ==
    /\ \A r \in Requests : WF_vars(Handle(r)) /\ WF_vars(Writer(r))
    /\ WF_vars(Stop)

FairSpec == Spec /\ Fairness

-----------------------------------------------------------------------------

\* What is on its way to the workers has its row: the foreign key of
\* delivery_logs would otherwise make every turn on it fail.  Save comes
\* first and its error ends the request, through any crash and time-out.
MessageHasRow ==
    \A r \in Requests : r \in queue \/ topic[r] > 0 => r \in rows

\* The two writes agree when nothing failed: once a request is over, its
\* row has one message and a refused request has neither, a shutdown in the
\* middle of it included.
WritesAgree ==
    mishaps = 0 =>
        \A r \in Requests : at[r] \in {"done", "cut"} =>
            /\ at[r] = "done"
            /\ topic[r] = (IF r \in rows THEN 1 ELSE 0)
            /\ reply[r] = "202" <=> r \in rows

\* A handler that has answered leaves its message to the writer: until the
\* process ends in a crash, Close waits for it.
MessageNotDropped ==
    [][\A r \in queue : r \notin queue' /\ mishaps' = mishaps =>
           topic'[r] > topic[r]]_vars

\* Every request is answered, or cut off with the process.
EveryRequestEnds ==
    \A r \in Requests : at[r] \in Steps ~> at[r] \in {"done", "cut"}

\* Shutdown ends, whether the requests in flight finish in time or not.
ShutdownEnds == server = "draining" ~> server = "down"
=============================================================================
