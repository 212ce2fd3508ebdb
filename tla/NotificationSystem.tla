-------------------------- MODULE NotificationSystem --------------------------
(***************************************************************************)
(* The two processes together: the API server (NotifyAPI) saves and        *)
(* publishes notifications, the delivery process (DeliveryWorker) reads    *)
(* and delivers them.  They share the topic and the database: what the     *)
(* writer of the server sends is what the consumers find in the            *)
(* partitions, and a delivery log refers to the row of its notification.   *)
(* Each starts, stops and crashes by itself.                               *)
(***************************************************************************)
EXTENDS Integers, Sequences, FiniteSets

CONSTANTS
    Channels, Notifs, NoMsg, Partitions, ChannelOf, Recipient, MaxAttempts,
    ProviderErrors, ProducerRetries, ReadTimeouts, Stops, MaxPerPartition,
    MaxDBErrors, MaxStarts,
    MaxMishaps,      \* bound: failures, time-outs and crashes of the server
    MaxServerStarts  \* bound: starts of the server

Field == {"empty", "short", "full"}

\* What the two processes assume of their constants, and that a topic has
\* finitely many partitions.
ASSUME SystemAssumption ==
    /\ Channels \subseteq {"ios", "android", "sms", "email"}
    /\ NoMsg \notin Notifs
    /\ ChannelOf \in [Notifs -> {"ios", "android", "sms", "email"}]
    /\ Recipient \in [Notifs -> [email : Field, phone : Field, token : Field]]
    /\ MaxAttempts \in Nat \ {0}
    /\ ProviderErrors \in BOOLEAN
    /\ ProducerRetries \in BOOLEAN
    /\ ReadTimeouts \in BOOLEAN
    /\ Stops \subseteq {"crash", "signal"}
    /\ IsFiniteSet(Partitions)
    /\ \A bound \in {MaxPerPartition, MaxDBErrors, MaxStarts,
                     MaxMishaps, MaxServerStarts} : bound \in Nat

VARIABLES
    server, at, reply, rows, queue, mishaps, serverStarts,
    topic, committed, position, stash, proc, pc, msg, attempt, logs, inbox,
    dbErrors, starts,
    handed  \* handed[ch]: the places in the topic ch's reader has handed out

apiVars == <<server, at, reply, rows, queue, mishaps, serverStarts>>
workerVars == <<topic, committed, position, stash, proc, pc, msg, attempt,
                logs, inbox, dbErrors, starts>>
vars == <<apiVars, workerVars, handed>>

Places == {<<p, k>> : p \in Partitions, k \in 1 .. MaxPerPartition}
PlacesOf(n) ==
    {place \in Places :
        /\ place[2] \in DOMAIN topic[place[1]]
        /\ topic[place[1]][place[2]] = n}

\* The topic as the server knows it: how often each message is in it.
Copies == [n \in Notifs |-> Cardinality(PlacesOf(n))]

Worker == INSTANCE DeliveryWorker
API == INSTANCE NotifyAPI
       WITH Requests <- Notifs, topic <- Copies, starts <- serverStarts,
            MaxStarts <- MaxServerStarts

TypeOK ==
    /\ API!TypeOK
    /\ Worker!TypeOK
    /\ handed \in [Channels -> SUBSET Places]

Init ==
    /\ Worker!Init
    /\ API!Init
    /\ handed = [ch \in Channels |-> {}]

-----------------------------------------------------------------------------

\* The round robin balancer may choose any partition for a copy of n.
Store(n) ==
    \E p \in Partitions :
        /\ Len(topic[p]) < MaxPerPartition
        /\ topic' = [topic EXCEPT ![p] = Append(@, n)]

StoreTwice(n) ==
    \E p, q \in Partitions :
        LET once == [topic EXCEPT ![p] = Append(@, n)] IN
        /\ topic' = [once EXCEPT ![q] = Append(@, n)]
        /\ \A o \in Partitions : Len(topic'[o]) <= MaxPerPartition

\* The broker stores what the writer sends: nothing, or the message, or the
\* message twice.
Write(n) ==
    /\ n \in queue
    /\ UNCHANGED topic \/ Store(n) \/ StoreTwice(n)
    /\ API!Writer(n)
    /\ UNCHANGED <<committed, position, stash, proc, pc, msg, attempt, logs,
                   inbox, dbErrors, starts, handed>>

ServerOnly(A) == UNCHANGED <<workerVars, handed>> /\ A
WorkerOnly(A) == A /\ UNCHANGED <<apiVars, handed>>

Serve(n) == ServerOnly(API!Handle(n))
Request(n) == ServerOnly(API!Arrive(n) \/ API!StopWaiting(n))
StopServer == ServerOnly(API!Stop)
Server == ServerOnly(API!Start \/ API!ServeFails \/ API!Signal \/ API!Crash)

\* A turn; handed takes down what its reader hands out.
Turn(ch) ==
    /\ Worker!Work(ch)
    /\ handed' = [handed EXCEPT ![ch] = @ \cup
           {place \in Places :
               /\ place[2] = position[ch][place[1]] + 1
               /\ place[2] = position'[ch][place[1]]}]
    /\ UNCHANGED apiVars

Delivery == WorkerOnly(Worker!Start \/ Worker!Crash \/ Worker!Signal)
StopDelivery == WorkerOnly(Worker!CloseConsumers)
Reader(ch) == WorkerOnly(Worker!AutoCommit(ch) \/ Worker!ReadTimesOut(ch))

Next ==
    \/ \E n \in Notifs : Request(n) \/ Serve(n) \/ Write(n)
    \/ Server \/ StopServer
    \/ \E ch \in Channels : Turn(ch) \/ Reader(ch)
    \/ Delivery \/ StopDelivery

Spec == Init /\ [][Next]_vars

\* The fairness of the two processes.
Fairness ==
    /\ \A n \in Notifs : WF_vars(Serve(n)) /\ WF_vars(Write(n))
    /\ WF_vars(StopServer) /\ WF_vars(StopDelivery)
    /\ \A ch \in Channels : WF_vars(Turn(ch))

FairSpec == Spec /\ Fairness

-----------------------------------------------------------------------------

\* The foreign key of delivery_logs: a worker that holds a notification finds
\* its row, whatever became of the server that saved it, so Insert fails only
\* when the database does.
ForeignKeyHolds ==
    \A ch \in Channels : msg[ch] # NoMsg => msg[ch] \in rows

\* The places of the topic ch has passed without being handed the message.
Missed(ch) ==
    {place \in Places :
        /\ place[2] <= position[ch][place[1]] \/ place[2] <= committed[ch][place[1]]
        /\ place \notin handed[ch]}

\* A group that has committed an offset in a partition passes over nothing in
\* it any more: what it misses, down or running, is what was published before
\* its first commit there, when a start reads from the end of the partition.
MissedOnlyBeforeFirstCommit ==
    [][\A ch \in Channels : \A place \in Missed(ch)' \ Missed(ch) :
           committed[ch][place[1]] = Worker!NoOffset]_vars

\* Order: in one life of the process a channel delivers the notifications of
\* a partition in the order they were stored.  Nothing is promised across
\* partitions, and the balancer spreads a user's notifications over them.
InOrderPerPartition ==
    starts = 1 =>
        \A ch \in Channels : \A i, j \in DOMAIN inbox[ch] :
            i < j =>
                \A a \in PlacesOf(inbox[ch][i].notif),
                   b \in PlacesOf(inbox[ch][j].notif) :
                    a[1] = b[1] /\ 1 = Copies[inbox[ch][i].notif]
                                /\ 1 = Copies[inbox[ch][j].notif] => a[2] < b[2]

\* From the request to the delivery: a notification the handler is about to
\* publish while the workers run is settled on every channel, unless a call
\* of the server fails or a worker is stopped.
DeliveredEndToEnd ==
    \A n \in Notifs :
        at[n] = "publish" /\ proc = "running" ~>
            \/ \A ch \in Channels : Worker!Settled(ch, n)
            \/ mishaps > 0
            \/ \E ch \in Channels : pc[ch] = "stopped"
=============================================================================
