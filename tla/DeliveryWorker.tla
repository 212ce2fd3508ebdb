--------------------------- MODULE DeliveryWorker ---------------------------
(***************************************************************************)
(* The delivery process (cmd/worker): one goroutine per channel, each with *)
(* a Kafka consumer in a group of its own, a provider Sender and the       *)
(* shared delivery_logs table.                                             *)
(*                                                                         *)
(* One worker turn is internal/worker.process: read a message, look for a  *)
(* sent row, insert a pending row, call the provider through retry.Do, and *)
(* write the final status.  Each database or provider call is one step, so *)
(* the turns of the channels interleave between calls, and the process can *)
(* be killed, can panic, or can be told to stop between any two of them.   *)
(*                                                                         *)
(* The groups all subscribe to the one topic of the routing table and the  *)
(* worker never compares n.Channel with its own channel, so every channel  *)
(* reads every message.                                                    *)
(***************************************************************************)
EXTENDS Integers, Sequences, FiniteSets

CONSTANTS
    Channels,        \* the channels this process starts a worker for
    Notifs,          \* notifications; one is the content of a message
    NoMsg,           \* the absence of one
    Partitions,      \* partitions of the topic "notifications"
    ChannelOf,       \* n.Channel: the channel the API accepted n for
    Recipient,       \* the RecipientEmail/Phone/Token fields of n
    MaxAttempts,     \* retry.Config.MaxAttempts
    ProviderErrors,  \* may a provider refuse a well-addressed send?
    ProducerRetries, \* may the producer store a message twice?
    ReadTimeouts,    \* may a read error match context.DeadlineExceeded?
    Stops,           \* the ways the environment ends the process
    MaxPerPartition, \* bound: messages ever written to one partition
    MaxDBErrors,     \* bound: failed database calls
    MaxStarts        \* bound: starts of the process

AllChannels == {"ios", "android", "sms", "email"}
Field == {"empty", "short", "full"}
RecipientFields == [email : Field, phone : Field, token : Field]

ASSUME ConstantsAssumption ==
    /\ Channels \subseteq AllChannels
    /\ NoMsg \notin Notifs
    /\ ChannelOf \in [Notifs -> AllChannels]
    /\ Recipient \in [Notifs -> RecipientFields]
    /\ MaxAttempts \in Nat \ {0}
    /\ ProviderErrors \in BOOLEAN
    /\ ProducerRetries \in BOOLEAN
    /\ ReadTimeouts \in BOOLEAN
    /\ Stops \subseteq {"crash", "signal"}
    /\ MaxPerPartition \in Nat
    /\ MaxDBErrors \in Nat
    /\ MaxStarts \in Nat

NoOffset == -1

VARIABLES
    topic,      \* topic[p]: the messages of partition p, oldest first
    committed,  \* committed[ch][p]: the group's offset at the broker
    position,   \* position[ch][p]: messages of p the reader has handed out
    stash,      \* stash[ch][p]: the offset the next auto-commit will send
    proc,       \* the process: "down", "running" or "stopping"
    pc,         \* pc[ch]: the call the worker goroutine is about to make
    msg,        \* msg[ch]: the notification process() was called with
    attempt,    \* attempt[ch]: retry.Do's loop counter
    logs,       \* logs[ch]: the delivery_logs rows of channel ch, by insertion
    inbox,      \* inbox[ch]: the sends the provider accepted, oldest first;
                \* log is the row the send was made under
    dbErrors,   \* database calls that failed so far
    starts      \* starts of the process so far

broker == <<topic, committed>>
reader == <<position, stash>>
local  == <<pc, msg, attempt>>
store  == <<logs, inbox>>
vars == <<broker, reader, proc, local, store, dbErrors, starts>>

Statuses == {"pending", "sent", "failed"}
Rows == [notif : Notifs, status : Statuses]
Accepted == [notif : Notifs, log : Nat]
Offsets == Nat \cup {NoOffset}
PCs == {"read", "check", "insert", "send", "backoff",
        "markSent", "markFailed", "stopped"}

TypeOK ==
    /\ topic \in [Partitions -> Seq(Notifs)]
    /\ committed \in [Channels -> [Partitions -> Offsets]]
    /\ position \in [Channels -> [Partitions -> Nat]]
    /\ stash \in [Channels -> [Partitions -> Offsets]]
    /\ proc \in {"down", "running", "stopping"}
    /\ pc \in [Channels -> PCs]
    /\ msg \in [Channels -> Notifs \cup {NoMsg}]
    /\ attempt \in [Channels -> 0 .. MaxAttempts]
    /\ logs \in [Channels -> Seq(Rows)]
    /\ inbox \in [Channels -> Seq(Accepted)]
    /\ dbErrors \in 0 .. MaxDBErrors
    /\ starts \in 0 .. MaxStarts

Init ==
    /\ topic = [p \in Partitions |-> <<>>]
    /\ committed = [ch \in Channels |-> [p \in Partitions |-> NoOffset]]
    /\ position = [ch \in Channels |-> [p \in Partitions |-> 0]]
    /\ stash = [ch \in Channels |-> [p \in Partitions |-> NoOffset]]
    /\ proc = "down"
    /\ pc = [ch \in Channels |-> "stopped"]
    /\ msg = [ch \in Channels |-> NoMsg]
    /\ attempt = [ch \in Channels |-> 0]
    /\ logs = [ch \in Channels |-> <<>>]
    /\ inbox = [ch \in Channels |-> <<>>]
    /\ dbErrors = 0
    /\ starts = 0

-----------------------------------------------------------------------------
(* The environment: the API's producer.  The writer's balancer is round    *)
(* robin, so any partition may receive any message, and a write the        *)
(* library retries may store a message twice.                              *)

Stored(n) == \E p \in Partitions : \E k \in DOMAIN topic[p] : topic[p][k] = n

Publish(n, p) ==
    /\ Len(topic[p]) < MaxPerPartition
    /\ ProducerRetries \/ ~Stored(n)
    /\ topic' = [topic EXCEPT ![p] = Append(@, n)]
    /\ UNCHANGED <<committed, reader, proc, local, store, dbErrors, starts>>

-----------------------------------------------------------------------------
(* The process.                                                            *)

\* Faulty variant: every start reads from the end.
StartAtEnd(ch, p) == Len(topic[p])

\* A partition with no committed offset is read from its end (LastOffset).
StartOffset(ch, p) ==
    IF committed[ch][p] = NoOffset THEN Len(topic[p]) ELSE committed[ch][p]

Start ==
    /\ proc = "down"
    /\ starts < MaxStarts
    /\ proc' = "running"
    /\ starts' = starts + 1
    /\ position' = [ch \in Channels |->
                        [p \in Partitions |-> StartOffset(ch, p)]]
    /\ stash' = committed
    /\ pc' = [ch \in Channels |-> "read"]
    /\ UNCHANGED <<broker, msg, attempt, store, dbErrors>>

\* Everything held in memory is gone: the turns under way, the reader's
\* position and the offsets not yet committed.
ProcessEnds ==
    /\ proc' = "down"
    /\ pc' = [ch \in Channels |-> "stopped"]
    /\ msg' = [ch \in Channels |-> NoMsg]
    /\ attempt' = [ch \in Channels |-> 0]
    /\ position' = [ch \in Channels |-> [p \in Partitions |-> 0]]
    /\ stash' = [ch \in Channels |-> [p \in Partitions |-> NoOffset]]
    /\ UNCHANGED <<topic, store, dbErrors, starts>>

Crash ==
    /\ "crash" \in Stops
    /\ proc # "down"
    /\ ProcessEnds
    /\ UNCHANGED committed

\* SIGINT or SIGTERM: cancelWorkers().
Signal ==
    /\ "signal" \in Stops
    /\ proc = "running"
    /\ proc' = "stopping"
    /\ UNCHANGED <<broker, reader, local, store, dbErrors, starts>>

\* wg.Wait() has returned: every consumer is closed, committing its offsets.
CloseConsumers ==
    /\ proc = "stopping"
    /\ \A ch \in Channels : pc[ch] = "stopped"
    /\ committed' = stash
    /\ ProcessEnds

\* The reader's background commit, every CommitInterval.
AutoCommit(ch) ==
    /\ proc # "down"
    /\ committed[ch] # stash[ch]
    /\ committed' = [committed EXCEPT ![ch] = stash[ch]]
    /\ UNCHANGED <<topic, reader, proc, local, store, dbErrors, starts>>

-----------------------------------------------------------------------------
(* One turn of a worker goroutine.                                         *)

Goto(ch, label) == pc' = [pc EXCEPT ![ch] = label]

\* process() returns, with or without an error: Run() only logs the error.
Return(ch) ==
    /\ Goto(ch, "read")
    /\ msg' = [msg EXCEPT ![ch] = NoMsg]
    /\ attempt' = [attempt EXCEPT ![ch] = 0]

\* A database call fails when the store does, and always once the context
\* it was given is cancelled.
DBError ==
    \/ proc = "stopping" /\ UNCHANGED dbErrors
    \/ proc = "running" /\ dbErrors < MaxDBErrors /\ dbErrors' = dbErrors + 1

\* Faulty variant: what is waiting is handed out from its end.
ReadBackwards(ch, p) ==
    /\ proc = "running"
    /\ pc[ch] = "read"
    /\ position[ch][p] < Len(topic[p])
    /\ position' = [position EXCEPT ![ch][p] = @ + 1]
    /\ stash' = [stash EXCEPT ![ch][p] = position[ch][p] + 1]
    /\ msg' = [msg EXCEPT ![ch] = topic[p][Len(topic[p]) - position[ch][p]]]
    /\ Goto(ch, "check")
    /\ UNCHANGED <<broker, proc, attempt, store, dbErrors, starts>>

\* ReadMessage hands out the next message and queues its offset for commit,
\* before process() has seen it.
ReadOne(ch, p) ==
    /\ proc = "running"
    /\ pc[ch] = "read"
    /\ position[ch][p] < Len(topic[p])
    /\ position' = [position EXCEPT ![ch][p] = @ + 1]
    /\ stash' = [stash EXCEPT ![ch][p] = position[ch][p] + 1]
    /\ msg' = [msg EXCEPT ![ch] = topic[p][position[ch][p] + 1]]
    /\ Goto(ch, "check")
    /\ UNCHANGED <<broker, proc, attempt, store, dbErrors, starts>>

\* With the context cancelled ReadOne returns context.Canceled.
RunReturns(ch) ==
    /\ proc = "stopping"
    /\ pc[ch] = "read"
    /\ Goto(ch, "stopped")
    /\ UNCHANGED <<broker, reader, proc, msg, attempt, store, dbErrors, starts>>

\* A dial time-out of the broker connection matches DeadlineExceeded too: the
\* channel's worker returns while the process and the others go on.  After
\* any other error Run reads again.
ReadTimesOut(ch) ==
    /\ ReadTimeouts
    /\ proc = "running"
    /\ pc[ch] = "read"
    /\ Goto(ch, "stopped")
    /\ UNCHANGED <<broker, reader, proc, msg, attempt, store, dbErrors, starts>>

\* Faulty variant of ExistsSent: the wrong status in the filter.
ExistsFailedRow(n) ==
    \E ch \in Channels : \E i \in DOMAIN logs[ch] :
        logs[ch][i].notif = n /\ logs[ch][i].status = "failed"

\* SELECT EXISTS over the rows of every channel.
ExistsSent(n) ==
    \E ch \in Channels : \E i \in DOMAIN logs[ch] :
        logs[ch][i].notif = n /\ logs[ch][i].status = "sent"

\* Faulty variant: any row of the notification ends the turn.
CheckAnyRow(ch) ==
    /\ proc = "running"
    /\ pc[ch] = "check"
    /\ IF \E c \in Channels : \E i \in DOMAIN logs[c] : logs[c][i].notif = msg[ch]
         THEN Return(ch)
         ELSE Goto(ch, "insert") /\ UNCHANGED <<msg, attempt>>
    /\ UNCHANGED <<broker, reader, proc, store, dbErrors, starts>>
CheckSent(ch) ==
    /\ proc = "running"
    /\ pc[ch] = "check"
    /\ IF ExistsSent(msg[ch])
         THEN Return(ch)
         ELSE Goto(ch, "insert") /\ UNCHANGED <<msg, attempt>>
    /\ UNCHANGED <<broker, reader, proc, store, dbErrors, starts>>

CheckFails(ch) ==
    /\ pc[ch] = "check"
    /\ DBError
    /\ Return(ch)
    /\ UNCHANGED <<broker, reader, proc, store, starts>>

\* The row of this turn, whose ID is a fresh UUID.
PendingRow(ch) == [notif |-> msg[ch], status |-> "pending"]
\* Faulty variant: the pending row is never written.
SkipInsert(ch) == UNCHANGED logs
InsertRow(ch) == logs' = [logs EXCEPT ![ch] = Append(@, PendingRow(ch))]

InsertLog(ch) ==
    /\ proc = "running"
    /\ pc[ch] = "insert"
    /\ InsertRow(ch)
    /\ attempt' = [attempt EXCEPT ![ch] = 1]
    /\ Goto(ch, "send")
    /\ UNCHANGED <<broker, reader, proc, msg, inbox, dbErrors, starts>>

\* The error may reach the worker although the row was stored.
InsertFails(ch) ==
    /\ pc[ch] = "insert"
    /\ DBError
    /\ InsertRow(ch) \/ UNCHANGED logs
    /\ Return(ch)
    /\ UNCHANGED <<broker, reader, proc, inbox, starts>>

\* The recipient field a channel's sender reads.
FieldOf(ch, n) ==
    CASE ch = "email" -> Recipient[n].email
      [] ch = "sms"   -> Recipient[n].phone
      [] OTHER        -> Recipient[n].token

\* Every sender refuses an empty field; the APNs sender slices the first
\* eight bytes of the token, which panics on a shorter one.
SendResults(ch, n) ==
    IF FieldOf(ch, n) = "empty" THEN {"error"}
    ELSE IF ch = "ios" /\ FieldOf(ch, n) = "short" THEN {"panic"}
    ELSE {"ok"} \cup (IF ProviderErrors THEN {"error"} ELSE {})

\* Faulty variant: the retry loop does not stop at the first success.
SendAcceptedAndRetried(ch) ==
    /\ pc[ch] = "send"
    /\ "ok" \in SendResults(ch, msg[ch])
    /\ inbox' = [inbox EXCEPT ![ch] =
                    Append(@, [notif |-> msg[ch], log |-> Len(logs[ch])])]
    /\ Goto(ch, IF attempt[ch] = MaxAttempts THEN "markSent" ELSE "backoff")
    /\ UNCHANGED <<broker, reader, proc, msg, attempt, logs, dbErrors, starts>>

SendAccepted(ch) ==
    /\ pc[ch] = "send"
    /\ "ok" \in SendResults(ch, msg[ch])
    /\ inbox' = [inbox EXCEPT ![ch] =
                    Append(@, [notif |-> msg[ch], log |-> Len(logs[ch])])]
    /\ Goto(ch, "markSent")
    /\ UNCHANGED <<broker, reader, proc, msg, attempt, logs, dbErrors, starts>>

\* Faulty variant: one attempt too many.
SendRefusedOnceMore(ch) ==
    /\ pc[ch] = "send"
    /\ "error" \in SendResults(ch, msg[ch])
    /\ Goto(ch, IF attempt[ch] > MaxAttempts THEN "markFailed" ELSE "backoff")
    /\ UNCHANGED <<broker, reader, proc, msg, attempt, store, dbErrors, starts>>

\* retry.Do: wait before the next attempt, or give up after the last one.
SendRefused(ch) ==
    /\ pc[ch] = "send"
    /\ "error" \in SendResults(ch, msg[ch])
    /\ Goto(ch, IF attempt[ch] = MaxAttempts THEN "markFailed" ELSE "backoff")
    /\ UNCHANGED <<broker, reader, proc, msg, attempt, store, dbErrors, starts>>

\* Nothing recovers a panic in a worker goroutine: the process dies.
SendPanics(ch) ==
    /\ pc[ch] = "send"
    /\ "panic" \in SendResults(ch, msg[ch])
    /\ ProcessEnds
    /\ UNCHANGED committed

\* Faulty variant: the attempt is not counted.
BackoffUncounted(ch) ==
    /\ pc[ch] = "backoff"
    /\ Goto(ch, "send")
    /\ UNCHANGED <<broker, reader, proc, msg, attempt, store, dbErrors, starts>>

BackoffElapsed(ch) ==
    /\ pc[ch] = "backoff"
    /\ attempt' = [attempt EXCEPT ![ch] = @ + 1]
    /\ Goto(ch, "send")
    /\ UNCHANGED <<broker, reader, proc, msg, store, dbErrors, starts>>

BackoffCancelled(ch) ==
    /\ proc = "stopping"
    /\ pc[ch] = "backoff"
    /\ Goto(ch, "markFailed")
    /\ UNCHANGED <<broker, reader, proc, msg, attempt, store, dbErrors, starts>>

\* Faulty variant: the error of the last attempt is lost.
AlwaysSent(ch) == "sent"

\* Only this worker inserts rows of its channel, so the row of the turn is
\* the last one.
Verdict(ch) == IF pc[ch] = "markSent" THEN "sent" ELSE "failed"
UpdateRow(ch) ==
    logs' = [logs EXCEPT ![ch][Len(logs[ch])] =
                [notif |-> @.notif, status |-> Verdict(ch)]]

MarkRow(ch) ==
    /\ proc = "running"
    /\ pc[ch] \in {"markSent", "markFailed"}
    /\ UpdateRow(ch)
    /\ Return(ch)
    /\ UNCHANGED <<broker, reader, proc, inbox, dbErrors, starts>>

\* The failure is logged and the turn ends all the same.
MarkFails(ch) ==
    /\ pc[ch] \in {"markSent", "markFailed"}
    /\ DBError
    /\ UpdateRow(ch) \/ UNCHANGED logs
    /\ Return(ch)
    /\ UNCHANGED <<broker, reader, proc, inbox, starts>>

-----------------------------------------------------------------------------

Work(ch) ==
    \/ \E p \in Partitions : ReadOne(ch, p)
    \/ RunReturns(ch)
    \/ CheckSent(ch) \/ CheckFails(ch)
    \/ InsertLog(ch) \/ InsertFails(ch)
    \/ SendAccepted(ch) \/ SendRefused(ch) \/ SendPanics(ch)
    \/ BackoffElapsed(ch) \/ BackoffCancelled(ch)
    \/ MarkRow(ch) \/ MarkFails(ch)

Turn(ch) == Work(ch) \/ ReadTimesOut(ch)

Next ==
    \/ \E n \in Notifs, p \in Partitions : Publish(n, p)
    \/ Start \/ Crash \/ Signal \/ CloseConsumers
    \/ \E ch \in Channels : AutoCommit(ch) \/ Turn(ch)

Spec == Init /\ [][Next]_vars

\* The Go scheduler runs every goroutine that can run: the workers' and,
\* once they have returned, main's.  Nothing obliges the API to publish, an
\* operator to start or stop the process, the process to crash, or a read to
\* time out.
Fairness ==
    /\ \A ch \in Channels : WF_vars(Work(ch))
    /\ WF_vars(CloseConsumers)

FairSpec == Spec /\ Fairness

-----------------------------------------------------------------------------
(* What the books of the store promise about the outside world.            *)

\* Persist before send: whatever a provider accepted was sent under a row
\* that was already in delivery_logs, for that notification, and that no
\* later call writes off as failed.  There are no "ghost" notifications
\* (worker.process steps 2-4), through crashes, panics and failed calls.
PersistBeforeSend ==
    \A ch \in Channels : \A j \in DOMAIN inbox[ch] :
        LET d == inbox[ch][j]
        IN /\ d.log \in DOMAIN logs[ch]
           /\ logs[ch][d.log].notif = d.notif
           /\ logs[ch][d.log].status # "failed"

\* A row says "sent" only of a send the provider accepted under that row:
\* the status written is the one of the turn's own row, and the last error
\* of retry.Do is never taken for success.
SentIsTrue ==
    \A ch \in Channels : \A i \in DOMAIN logs[ch] :
        logs[ch][i].status = "sent" =>
            \E j \in DOMAIN inbox[ch] : inbox[ch][j].log = i

\* No row covers two accepted sends, and sends are accepted in the order of
\* their rows: retry.Do stops at the first success, and a turn that was cut
\* short is never resumed under the row it left.
OneSendPerRow ==
    \A ch \in Channels : \A i, j \in DOMAIN inbox[ch] :
        i < j => inbox[ch][i].log < inbox[ch][j].log

\* The idempotency check: when a channel's provider accepts a notification
\* a second time, the row of the earlier send was never marked sent.  Only a
\* turn that lost its final update can be repeated.
RepeatOnlyIfUnmarked ==
    \A ch \in Channels : \A i, j \in DOMAIN inbox[ch] :
        i < j /\ inbox[ch][i].notif = inbox[ch][j].notif =>
            logs[ch][inbox[ch][i].log].status # "sent"

\* The strengthening that makes the four above inductive: what the row of a
\* turn under way looks like at each of its calls.
RowOpen(ch) == pc[ch] \in {"send", "backoff", "markSent", "markFailed"}

OpenRowIsPending ==
    \A ch \in Channels : RowOpen(ch) =>
        /\ Len(logs[ch]) > 0
        /\ logs[ch][Len(logs[ch])] = PendingRow(ch)

NoSentRowDuringTurn ==
    \A ch \in Channels : RowOpen(ch) \/ pc[ch] = "insert" =>
        \A i \in DOMAIN logs[ch] :
            logs[ch][i].notif = msg[ch] => logs[ch][i].status # "sent"

AcceptedUnderOpenRow ==
    \A ch \in Channels : RowOpen(ch) =>
        IF pc[ch] = "markSent"
          THEN \E j \in DOMAIN inbox[ch] : inbox[ch][j].log = Len(logs[ch])
          ELSE \A j \in DOMAIN inbox[ch] : inbox[ch][j].log < Len(logs[ch])

BooksInv ==
    /\ PersistBeforeSend
    /\ SentIsTrue
    /\ OneSendPerRow
    /\ RepeatOnlyIfUnmarked
    /\ OpenRowIsPending
    /\ NoSentRowDuringTurn
    /\ AcceptedUnderOpenRow

\* The ledger of a channel, seen in its rows and in the provider's inbox.
LedgerView ==
    [ch \in Channels |->
        [i \in DOMAIN logs[ch] |->
            [notif |-> logs[ch][i].notif,
             status |-> logs[ch][i].status,
             accepted |-> \E j \in DOMAIN inbox[ch] : inbox[ch][j].log = i]]]

Ledger == INSTANCE DeliveryLedger
          WITH ledger <- LedgerView, open <- [ch \in Channels |-> RowOpen(ch)]

\* The workers keep their ledgers: every call, failure, crash and restart is
\* a step of DeliveryLedger or changes nothing in it.
KeepsLedger == Ledger!Spec

-----------------------------------------------------------------------------
(* What must happen.                                                       *)

\* ch has nothing left to do for n: it wrote a final status of its own, or
\* some channel's sent row makes it skip n.
Settled(ch, n) ==
    \/ \E i \in DOMAIN logs[ch] :
           logs[ch][i].notif = n /\ logs[ch][i].status # "pending"
    \/ ExistsSent(n)

Unread(ch, p, k) ==
    proc = "running" /\ position[ch][p] < k /\ k <= Len(topic[p])

\* With the store up, every channel settles every message that is in the
\* topic after it started, whatever the other channels do in between, unless
\* the process is stopped or dies of a panic, or a read error has ended the
\* channel's own worker; that of another channel changes nothing.
EventuallySettled ==
    \A ch \in Channels, p \in Partitions, k \in 1 .. MaxPerPartition :
        Unread(ch, p, k) ~>
            \/ k <= Len(topic[p]) /\ Settled(ch, topic[p][k])
            \/ proc # "running" \/ pc[ch] = "stopped"

\* Graceful shutdown ends: main's wg.Wait() has no timeout, so every turn
\* must come back after the context is cancelled, in a retry included.
ShutdownEnds == proc = "stopping" ~> proc = "down"

-----------------------------------------------------------------------------
(* Claims of the documentation that the code does not meet.                *)

\* cmd/worker/main.go: "Each worker reads from its Kafka partition and
\* delivers notifications": with nothing failing, a message its channel's
\* worker has yet to read is delivered on that channel.
ReachesOwnChannel ==
    \A n \in Notifs, p \in Partitions, k \in 1 .. MaxPerPartition :
        LET ch == ChannelOf[n] IN
        Unread(ch, p, k) /\ topic[p][k] = n ~>
            \E j \in DOMAIN inbox[ch] : inbox[ch][j].notif = n

\* worker.go: "Kafka delivers at-least-once": when the process is down, what
\* the group will not be sent again left at least a row for recovery.
CommittedIsRecorded ==
    proc = "down" =>
        \A ch \in Channels, p \in Partitions :
            \A k \in DOMAIN topic[p] :
                k <= committed[ch][p] =>
                    \E c \in Channels : \E i \in DOMAIN logs[c] :
                        logs[c][i].notif = topic[p][k]

\* worker.go: "Run starts the worker loop.  Blocks until ctx is cancelled":
\* an unsignalled process does not end by itself.
RunsUntilCancelled == [][proc = "running" => proc' # "down"]_vars
=============================================================================
