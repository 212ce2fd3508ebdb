----------------------- MODULE NotificationSystemProofs -----------------------
(* Theorems about the two processes together, for any channels, messages,  *)
(* partitions and failures.  What is proved of each process alone carries  *)
(* over: every step of the system is a step of that process or leaves its  *)
(* variables alone.                                                        *)
EXTENDS NotificationSystem, FiniteSetTheorems, TLAPS

WorkerProofs == INSTANCE DeliveryLedgerProofs
APIProofs == INSTANCE NotifyAPIProofs
             WITH Requests <- Notifs, topic <- Copies, starts <- serverStarts,
                  MaxStarts <- MaxServerStarts

-----------------------------------------------------------------------------
(* The actions and properties the system is built from are those the two   *)
(* modules of theorems are about.                                          *)

LEMMA SameTurns ==
    ASSUME NEW ch \in Channels
    PROVE  /\ Worker!Work(ch) => WorkerProofs!Work(ch)
           /\ Worker!ReadTimesOut(ch) => WorkerProofs!ReadTimesOut(ch)
           /\ Worker!AutoCommit(ch) => WorkerProofs!AutoCommit(ch)
  BY DEF Worker!Work, WorkerProofs!Work,
         Worker!ReadTimesOut, WorkerProofs!ReadTimesOut,
         Worker!AutoCommit, WorkerProofs!AutoCommit,
         Worker!ReadOne, WorkerProofs!ReadOne,
         Worker!RunReturns, WorkerProofs!RunReturns,
         Worker!CheckSent, WorkerProofs!CheckSent,
         Worker!CheckFails, WorkerProofs!CheckFails,
         Worker!InsertLog, WorkerProofs!InsertLog,
         Worker!InsertFails, WorkerProofs!InsertFails,
         Worker!SendAccepted, WorkerProofs!SendAccepted,
         Worker!SendRefused, WorkerProofs!SendRefused,
         Worker!SendPanics, WorkerProofs!SendPanics,
         Worker!BackoffElapsed, WorkerProofs!BackoffElapsed,
         Worker!BackoffCancelled, WorkerProofs!BackoffCancelled,
         Worker!MarkRow, WorkerProofs!MarkRow,
         Worker!MarkFails, WorkerProofs!MarkFails,
         Worker!Goto, WorkerProofs!Goto, Worker!Return, WorkerProofs!Return,
         Worker!ProcessEnds, WorkerProofs!ProcessEnds,
         Worker!DBError, WorkerProofs!DBError,
         Worker!ExistsSent, WorkerProofs!ExistsSent,
         Worker!InsertRow, WorkerProofs!InsertRow,
         Worker!UpdateRow, WorkerProofs!UpdateRow,
         Worker!PendingRow, WorkerProofs!PendingRow,
         Worker!Verdict, WorkerProofs!Verdict,
         Worker!SendResults, WorkerProofs!SendResults,
         Worker!FieldOf, WorkerProofs!FieldOf,
         Worker!NoOffset, WorkerProofs!NoOffset,
         Worker!broker, WorkerProofs!broker, Worker!reader, WorkerProofs!reader,
         Worker!local, WorkerProofs!local, Worker!store, WorkerProofs!store

LEMMA SameProcess ==
    /\ Worker!Init => WorkerProofs!Init
    /\ Worker!Start => WorkerProofs!Start
    /\ Worker!Crash => WorkerProofs!Crash
    /\ Worker!Signal => WorkerProofs!Signal
    /\ Worker!CloseConsumers => WorkerProofs!CloseConsumers
  BY DEF Worker!Init, WorkerProofs!Init, Worker!Start, WorkerProofs!Start,
         Worker!Crash, WorkerProofs!Crash, Worker!Signal, WorkerProofs!Signal,
         Worker!CloseConsumers, WorkerProofs!CloseConsumers,
         Worker!ProcessEnds, WorkerProofs!ProcessEnds,
         Worker!StartOffset, WorkerProofs!StartOffset,
         Worker!NoOffset, WorkerProofs!NoOffset,
         Worker!broker, WorkerProofs!broker, Worker!reader, WorkerProofs!reader,
         Worker!local, WorkerProofs!local, Worker!store, WorkerProofs!store

LEMMA SameServer ==
    /\ API!Init => APIProofs!Init
    /\ [API!Next]_(API!vars) => [APIProofs!Next]_(APIProofs!vars)
  <1>1. API!Init => APIProofs!Init
    BY DEF API!Init, APIProofs!Init
  <1>2. UNCHANGED API!vars => UNCHANGED APIProofs!vars
    BY DEF API!vars, APIProofs!vars, API!process, APIProofs!process,
           API!handler, APIProofs!handler
  <1>3. API!Next => APIProofs!Next
    BY DEF API!Next, APIProofs!Next, API!Arrive, APIProofs!Arrive,
           API!Handle, APIProofs!Handle, API!StopWaiting, APIProofs!StopWaiting,
           API!Writer, APIProofs!Writer, API!Start, APIProofs!Start,
           API!ServeFails, APIProofs!ServeFails, API!Signal, APIProofs!Signal,
           API!Stop, APIProofs!Stop, API!Crash, APIProofs!Crash,
           API!CheckLimit, APIProofs!CheckLimit,
           API!ResolveUser, APIProofs!ResolveUser,
           API!CheckPreferences, APIProofs!CheckPreferences,
           API!Save, APIProofs!Save, API!SaveFails, APIProofs!SaveFails,
           API!Publish, APIProofs!Publish,
           API!PublishFails, APIProofs!PublishFails,
           API!WriterSends, APIProofs!WriterSends,
           API!WriterGivesUp, APIProofs!WriterGivesUp,
           API!BatchDone, APIProofs!BatchDone,
           API!Drained, APIProofs!Drained,
           API!DrainTimeout, APIProofs!DrainTimeout,
           API!Exit, APIProofs!Exit, API!CutOff, APIProofs!CutOff,
           API!InFlight, APIProofs!InFlight, API!Steps, APIProofs!Steps,
           API!Goto, APIProofs!Goto, API!Answer, APIProofs!Answer,
           API!CallFails, APIProofs!CallFails, API!Mishap, APIProofs!Mishap,
           API!process, APIProofs!process, API!handler, APIProofs!handler
  <1> QED
    BY <1>1, <1>2, <1>3

\* What the assumption on the constants says to each of the two.
LEMMA Assumptions ==
    /\ WorkerProofs!ConstantsAssumption
    /\ APIProofs!APIAssumption
  BY SystemAssumption
  DEF Field, WorkerProofs!AllChannels, WorkerProofs!Field,
      WorkerProofs!RecipientFields

-----------------------------------------------------------------------------
(* The topic as each process sees it.                                      *)

InTopic(n) == PlacesOf(n) # {}

\* A step that is not the writer's leaves the topic alone.
LEMMA TopicKept ==
    ASSUME \/ \E ch \in Channels :
                  Worker!Work(ch) \/ Worker!AutoCommit(ch) \/ Worker!ReadTimesOut(ch)
           \/ Worker!Start \/ Worker!Crash \/ Worker!Signal \/ Worker!CloseConsumers
           \/ UNCHANGED workerVars
    PROVE  topic' = topic
  BY DEF Worker!Work, Worker!AutoCommit, Worker!ReadTimesOut, Worker!Start,
         Worker!Crash, Worker!Signal, Worker!CloseConsumers, Worker!ProcessEnds,
         Worker!ReadOne, Worker!RunReturns, Worker!CheckSent, Worker!CheckFails,
         Worker!InsertLog, Worker!InsertFails, Worker!SendAccepted,
         Worker!SendRefused, Worker!SendPanics, Worker!BackoffElapsed,
         Worker!BackoffCancelled, Worker!MarkRow, Worker!MarkFails,
         Worker!broker, workerVars

LEMMA CopiesKept == topic' = topic => Copies' = Copies
  BY DEF Copies, PlacesOf

LEMMA PlacesAreFinite == \A n : IsFiniteSet(PlacesOf(n))
  <1> DEFINE sites == Partitions \X (1 .. MaxPerPartition)
  <1>1. IsFiniteSet(sites)
    <2>1. IsFiniteSet(Partitions) /\ MaxPerPartition \in Int
      BY SystemAssumption
    <2>2. IsFiniteSet(1 .. MaxPerPartition)
      BY <2>1, FS_Interval
    <2> QED
      BY <2>1, <2>2, FS_Product
  <1>2. \A n : PlacesOf(n) \subseteq sites
    BY DEF PlacesOf, Places
  <1> QED
    BY <1>1, <1>2, FS_Subset

\* A message that has a place has copies.
LEMMA CopiesOfPlaces ==
    ASSUME NEW n \in Notifs, InTopic(n)
    PROVE  Copies[n] > 0
  <1>1. Cardinality(PlacesOf(n)) \in Nat /\ Cardinality(PlacesOf(n)) # 0
    BY PlacesAreFinite, FS_CardinalityType, FS_EmptySet DEF InTopic
  <1> QED
    BY <1>1 DEF Copies

-----------------------------------------------------------------------------
(* The server: the system is an API server to it.                          *)

\* Every step is one of the server, or changes nothing the server knows of:
\* the copies of its messages in the topic are changed by its writer alone.
LEMMA ServerSteps == [Next]_vars => [API!Next]_(API!vars)
  <1> SUFFICES ASSUME [Next]_vars
               PROVE  API!Next \/ UNCHANGED API!vars
    OBVIOUS
  <1>1. ASSUME UNCHANGED apiVars, topic' = topic
        PROVE  UNCHANGED API!vars
    BY <1>1, CopiesKept DEF apiVars, API!vars, API!process, API!handler
  <1>2. ASSUME NEW n \in Notifs, Request(n) \/ Serve(n) \/ Write(n)
        PROVE  API!Next
    BY <1>2 DEF Request, Serve, Write, ServerOnly, API!Next
  <1>3. ASSUME Server \/ StopServer
        PROVE  API!Next
    BY <1>3 DEF Server, StopServer, ServerOnly, API!Next
  <1>4. ASSUME NEW ch \in Channels, Turn(ch) \/ Reader(ch)
        PROVE  UNCHANGED API!vars
    BY <1>1, <1>4, TopicKept DEF Turn, Reader, WorkerOnly
  <1>5. ASSUME Delivery \/ StopDelivery
        PROVE  UNCHANGED API!vars
    BY <1>1, <1>5, TopicKept DEF Delivery, StopDelivery, WorkerOnly
  <1>6. ASSUME UNCHANGED vars
        PROVE  UNCHANGED API!vars
    BY <1>1, <1>6, TopicKept DEF vars
  <1> QED
    BY <1>2, <1>3, <1>4, <1>5, <1>6 DEF Next

\* The system implements the API server: with a topic that workers read and
\* a database they share, the server behaves as NotifyAPI says.
THEOREM SystemIsAPIServer == Spec => API!Spec
  BY ServerSteps, PTL DEF Spec, Init, API!Spec

RequestInv == APIProofs!RequestInv

LEMMA AlwaysRequestInv == Spec => []RequestInv
  <1>1. Init => RequestInv
    BY Assumptions, SameServer, APIProofs!InitRequestInv DEF Init, RequestInv
  <1>2. RequestInv /\ [Next]_vars => RequestInv'
    BY Assumptions, ServerSteps, SameServer, APIProofs!NextRequestInv
    DEF RequestInv
  <1> QED
    BY <1>1, <1>2, PTL DEF Spec

-----------------------------------------------------------------------------
(* The writer extends the topic: what is stored stays where it is.         *)

Topics == [Partitions -> Seq(Notifs)]

Extends(T, U) ==
    \A p \in Partitions : \A k \in DOMAIN T[p] :
        k \in DOMAIN U[p] /\ U[p][k] = T[p][k]

Bounded == \A p \in Partitions : Len(topic[p]) <= MaxPerPartition

LEMMA AppendExtends ==
    ASSUME NEW T \in Topics, NEW p \in Partitions, NEW n \in Notifs
    PROVE  /\ [T EXCEPT ![p] = Append(@, n)] \in Topics
           /\ Extends(T, [T EXCEPT ![p] = Append(@, n)])
  <1> DEFINE s == T[p]
             t == Append(s, n)
             U == [T EXCEPT ![p] = t]
  <1>1. t \in Seq(Notifs) /\ \A k \in DOMAIN s : k \in DOMAIN t /\ t[k] = s[k]
    BY DEF Topics
  <1> HIDE DEF t
  <1>2. U \in Topics /\ U[p] = t /\ \A q \in Partitions \ {p} : U[q] = T[q]
    BY <1>1 DEF Topics
  <1> HIDE DEF U
  <1>3. Extends(T, U)
    BY <1>1, <1>2 DEF Extends
  <1> QED
    BY <1>2, <1>3 DEF U, t

LEMMA WriteExtends ==
    ASSUME topic \in Topics, Bounded, NEW n \in Notifs, Write(n)
    PROVE  topic' \in Topics /\ Bounded' /\ Extends(topic, topic')
  <1>1. CASE UNCHANGED topic
    BY <1>1 DEF Bounded, Extends
  <1>2. CASE Store(n)
    <2>1. PICK p \in Partitions :
              /\ Len(topic[p]) < MaxPerPartition
              /\ topic' = [topic EXCEPT ![p] = Append(@, n)]
      BY <1>2 DEF Store
    <2>2. topic' \in Topics /\ Extends(topic, topic')
      BY <2>1, AppendExtends
    <2>3. Len(topic'[p]) = Len(topic[p]) + 1 /\ Len(topic[p]) \in Nat
      BY <2>1 DEF Topics
    <2>4. \A q \in Partitions \ {p} : topic'[q] = topic[q]
      BY <2>1 DEF Topics
    <2>5. Bounded'
      BY <2>1, <2>3, <2>4, SystemAssumption DEF Bounded
    <2> QED
      BY <2>2, <2>5
  <1>3. CASE StoreTwice(n)
    <2> DEFINE Once(p) == [topic EXCEPT ![p] = Append(@, n)]
    <2>1. PICK p \in Partitions, q \in Partitions :
              /\ topic' = [Once(p) EXCEPT ![q] = Append(@, n)]
              /\ \A o \in Partitions : Len(topic'[o]) <= MaxPerPartition
      BY <1>3 DEF StoreTwice
    <2>2. Once(p) \in Topics /\ Extends(topic, Once(p))
      BY AppendExtends
    <2> HIDE DEF Once
    <2>3. topic' \in Topics /\ Extends(Once(p), topic')
      BY <2>1, <2>2, AppendExtends
    <2>4. Extends(topic, topic')
      BY <2>2, <2>3 DEF Extends
    <2> QED
      BY <2>1, <2>3, <2>4 DEF Bounded
  <1> QED
    BY <1>1, <1>2, <1>3 DEF Write

LEMMA PlacesGrow ==
    ASSUME Extends(topic, topic'), NEW n
    PROVE  PlacesOf(n) \subseteq PlacesOf(n)'
  <1>1. \A place \in Places : place[1] \in Partitions
    BY DEF Places
  <1> QED
    BY <1>1 DEF PlacesOf, Extends

-----------------------------------------------------------------------------
(* The delivery process: a step is one of the worker's, or the server's    *)
(* writer extends the topic.                                               *)

LEMMA WorkerSteps ==
    [Next]_vars => \/ [WorkerProofs!Next]_(WorkerProofs!vars)
                   \/ \E n \in Notifs : Write(n)
  <1> SUFFICES ASSUME [Next]_vars
               PROVE  \/ WorkerProofs!Next \/ UNCHANGED WorkerProofs!vars
                      \/ \E n \in Notifs : Write(n)
    OBVIOUS
  <1>1. UNCHANGED workerVars => UNCHANGED WorkerProofs!vars
    BY DEF workerVars, WorkerProofs!vars, WorkerProofs!broker,
           WorkerProofs!reader, WorkerProofs!local, WorkerProofs!store
  <1>2. ASSUME NEW n \in Notifs, Request(n) \/ Serve(n)
        PROVE  UNCHANGED WorkerProofs!vars
    BY <1>1, <1>2 DEF Request, Serve, ServerOnly
  <1>3. ASSUME Server \/ StopServer
        PROVE  UNCHANGED WorkerProofs!vars
    BY <1>1, <1>3 DEF Server, StopServer, ServerOnly
  <1>4. ASSUME NEW ch \in Channels, Turn(ch) \/ Reader(ch)
        PROVE  WorkerProofs!Next
    BY <1>4, SameTurns
    DEF Turn, Reader, WorkerOnly, WorkerProofs!Next, WorkerProofs!Turn
  <1>5. ASSUME Delivery \/ StopDelivery
        PROVE  WorkerProofs!Next
    BY <1>5, SameProcess DEF Delivery, StopDelivery, WorkerOnly, WorkerProofs!Next
  <1>6. UNCHANGED vars => UNCHANGED WorkerProofs!vars
    BY <1>1 DEF vars
  <1> QED
    BY <1>2, <1>3, <1>4, <1>5, <1>6 DEF Next

WorkerTypeInv == WorkerProofs!TypeInv

TopicInv ==
    /\ WorkerTypeInv
    /\ Bounded
    /\ handed \in [Channels -> SUBSET Places]

LEMMA TopicIsTyped == TopicInv => topic \in Topics
  BY DEF TopicInv, WorkerTypeInv, WorkerProofs!TypeInv, WorkerProofs!TypeOK, Topics

\* A write leaves the worker's variables as they are, but for the topic.
LEMMA WriteTypeInv ==
    ASSUME TopicInv, NEW n \in Notifs, Write(n)
    PROVE  TopicInv'
  <1>1. topic' \in Topics /\ Bounded'
    BY TopicIsTyped, WriteExtends DEF TopicInv
  <1>2. UNCHANGED <<committed, position, stash, proc, pc, msg, attempt, logs,
                    inbox, dbErrors, starts, handed>>
    BY DEF Write
  <1>3. WorkerTypeInv'
    BY <1>1, <1>2
    DEF TopicInv, WorkerTypeInv, WorkerProofs!TypeInv, WorkerProofs!TypeOK,
        WorkerProofs!LocalInv, WorkerProofs!Busy, Topics
  <1>4. handed' \in [Channels -> SUBSET Places]
    BY <1>2 DEF TopicInv
  <1> QED
    BY <1>1, <1>3, <1>4 DEF TopicInv

\* No other step changes the topic.
LEMMA OthersKeepTopic ==
    ASSUME Next, \A n \in Notifs : ~Write(n)
    PROVE  topic' = topic
  BY TopicKept
  DEF Next, Request, Serve, Server, StopServer, Turn, Reader, Delivery,
      StopDelivery, ServerOnly, WorkerOnly

LEMMA HandedKept ==
    ASSUME handed \in [Channels -> SUBSET Places], [Next]_vars
    PROVE  handed' \in [Channels -> SUBSET Places]
  <1>1. ASSUME NEW ch \in Channels, Turn(ch)
        PROVE  handed' \in [Channels -> SUBSET Places]
    BY <1>1 DEF Turn
  <1> QED
    BY <1>1 DEF Next, vars, Request, Serve, Write, Server, StopServer, Reader,
                Delivery, StopDelivery, ServerOnly, WorkerOnly

LEMMA AlwaysTopicInv == Spec => []TopicInv
  <1>1. Init => TopicInv
    <2> SUFFICES ASSUME Init
                 PROVE  TopicInv
      OBVIOUS
    <2>1. WorkerTypeInv
      BY Assumptions, SameProcess, WorkerProofs!InitTypeInv
      DEF Init, WorkerTypeInv
    <2>2. \A p \in Partitions : topic[p] = <<>>
      BY DEF Init, Worker!Init
    <2>3. Bounded
      BY <2>2, SystemAssumption DEF Bounded
    <2>4. handed \in [Channels -> SUBSET Places]
      BY DEF Init
    <2> QED
      BY <2>1, <2>3, <2>4 DEF TopicInv
  <1>2. TopicInv /\ [Next]_vars => TopicInv'
    <2> SUFFICES ASSUME TopicInv, [Next]_vars
                 PROVE  TopicInv'
      OBVIOUS
    <2>1. ASSUME NEW n \in Notifs, Write(n)
          PROVE  TopicInv'
      BY <2>1, WriteTypeInv
    <2>2. ASSUME \A n \in Notifs : ~Write(n)
          PROVE  TopicInv'
      <3>1. WorkerTypeInv'
        BY <2>2, Assumptions, WorkerSteps, WorkerProofs!NextTypeInv
        DEF TopicInv, WorkerTypeInv
      <3>2. topic' = topic
        BY <2>2, OthersKeepTopic DEF vars, workerVars
      <3>3. handed' \in [Channels -> SUBSET Places]
        BY HandedKept DEF TopicInv
      <3> QED
        BY <3>1, <3>2, <3>3 DEF TopicInv, Bounded
    <2> QED
      BY <2>1, <2>2
  <1> QED
    BY <1>1, <1>2, PTL DEF Spec

\* Every variable of the two processes keeps its type, whatever fails, and
\* the server counts at most two copies of a message (the type invariant of
\* the run).
THEOREM SystemTypeCorrect == Spec => []TypeOK
  <1>1. RequestInv /\ TopicInv => TypeOK
    <2> SUFFICES ASSUME RequestInv, TopicInv
                 PROVE  TypeOK
      OBVIOUS
    <2>1. API!TypeOK
      BY DEF RequestInv, APIProofs!RequestInv, APIProofs!TypeOK, API!TypeOK,
             APIProofs!Steps, API!Steps, APIProofs!Replies, API!Replies,
             APIProofs!Refusals, API!Refusals
    <2>2. Worker!TypeOK
      BY DEF TopicInv, WorkerTypeInv, WorkerProofs!TypeInv, WorkerProofs!TypeOK,
             Worker!TypeOK, WorkerProofs!Rows, Worker!Rows,
             WorkerProofs!Statuses, Worker!Statuses,
             WorkerProofs!Accepted, Worker!Accepted,
             WorkerProofs!Offsets, Worker!Offsets,
             WorkerProofs!NoOffset, Worker!NoOffset, WorkerProofs!PCs, Worker!PCs
    <2> QED
      BY <2>1, <2>2 DEF TypeOK, TopicInv
  <1> QED
    BY <1>1, AlwaysRequestInv, AlwaysTopicInv, PTL

-----------------------------------------------------------------------------
(* What the steps of the delivery process do to what the order and the     *)
(* foreign key depend on: the inboxes, the messages in hand, the positions. *)

\* A turn holds a message that it may still deliver.
InHand(ch) == pc[ch] \in {"check", "insert", "send", "backoff"}

\* Reading, accepting and the end of the process apart, a step of ch's worker
\* goes on with its message or is done with it.
Moves(ch) ==
    /\ UNCHANGED <<topic, committed, position, stash, proc, inbox, starts, handed>>
    /\ \A c \in Channels \ {ch} : pc'[c] = pc[c] /\ msg'[c] = msg[c]
    /\ msg'[ch] \in {msg[ch], NoMsg}
    /\ InHand(ch)' => InHand(ch) /\ msg'[ch] = msg[ch]

\* The worker hands out the message at place <<p, k>>.
Reads(ch, p, k) ==
    /\ <<p, k>> \in Places
    /\ k = position[ch][p] + 1
    /\ k \in DOMAIN topic[p]
    /\ topic[p][k] \in Notifs
    /\ <<p, k>> \in PlacesOf(topic[p][k])
    /\ UNCHANGED <<topic, committed, proc, inbox, starts>>
    /\ proc # "down"
    /\ position'[ch][p] = k /\ stash'[ch][p] = k
    /\ \A q \in Partitions \ {p} : /\ position'[ch][q] = position[ch][q]
                                   /\ stash'[ch][q] = stash[ch][q]
    /\ msg'[ch] = topic[p][k]
    /\ handed'[ch] = handed[ch] \cup {<<p, k>>}
    /\ \A c \in Channels \ {ch} :
           /\ position'[c] = position[c] /\ stash'[c] = stash[c]
           /\ pc'[c] = pc[c] /\ msg'[c] = msg[c] /\ handed'[c] = handed[c]

\* The provider accepts the message in hand.
Accepts(ch) ==
    /\ UNCHANGED <<topic, committed, position, stash, proc, msg, starts, handed>>
    /\ pc[ch] = "send" /\ msg[ch] \in Notifs
    /\ ~InHand(ch)'
    /\ \A c \in Channels \ {ch} : pc'[c] = pc[c] /\ inbox'[c] = inbox[c]
    /\ \E m \in Nat :
           /\ DOMAIN inbox[ch] = 1 .. m
           /\ DOMAIN inbox'[ch] = 1 .. m + 1
           /\ \A i \in 1 .. m : inbox'[ch][i].notif = inbox[ch][i].notif
           /\ inbox'[ch][m + 1].notif = msg[ch]

\* The process is over; nothing is in hand.
Ends ==
    /\ UNCHANGED <<topic, inbox, starts, handed>>
    /\ committed' \in {committed, stash}
    /\ proc' = "down"
    /\ \A ch \in Channels :
           /\ msg'[ch] = NoMsg
           /\ ~InHand(ch)'
           /\ \A p \in Partitions : position'[ch][p] = 0 /\ stash'[ch][p] = -1

LEMMA WorkerTypes ==
    ASSUME TopicInv
    PROVE  /\ topic \in [Partitions -> Seq(Notifs)]
           /\ position \in [Channels -> [Partitions -> Nat]]
           /\ stash \in [Channels -> [Partitions -> Nat \cup {-1}]]
           /\ committed \in [Channels -> [Partitions -> Nat \cup {-1}]]
           /\ msg \in [Channels -> Notifs \cup {NoMsg}]
           /\ DOMAIN pc = Channels
           /\ inbox \in [Channels -> Seq([notif : Notifs, log : Nat])]
           /\ handed \in [Channels -> SUBSET Places]
           /\ starts \in Nat
           /\ \A ch \in Channels : pc[ch] \notin {"read", "stopped"} =>
                                       msg[ch] \in Notifs
           /\ MaxPerPartition \in Nat /\ NoMsg \notin Notifs
  <1> USE SystemAssumption
      DEF TopicInv, WorkerTypeInv, WorkerProofs!TypeInv, WorkerProofs!TypeOK
  <1>1. /\ topic \in [Partitions -> Seq(Notifs)]
        /\ position \in [Channels -> [Partitions -> Nat]]
        /\ msg \in [Channels -> Notifs \cup {NoMsg}]
        /\ DOMAIN pc = Channels
        /\ handed \in [Channels -> SUBSET Places]
    OBVIOUS
  <1>2. /\ stash \in [Channels -> [Partitions -> Nat \cup {-1}]]
        /\ committed \in [Channels -> [Partitions -> Nat \cup {-1}]]
    BY DEF WorkerProofs!Offsets, WorkerProofs!NoOffset
  <1>3. inbox \in [Channels -> Seq([notif : Notifs, log : Nat])]
    BY DEF WorkerProofs!Accepted
  <1>4. starts \in Nat /\ MaxPerPartition \in Nat /\ NoMsg \notin Notifs
    OBVIOUS
  <1>5. \A ch \in Channels : pc[ch] \notin {"read", "stopped"} =>
                                 msg[ch] \in Notifs
    BY DEF WorkerProofs!LocalInv, WorkerProofs!Busy
  <1> QED
    BY <1>1, <1>2, <1>3, <1>4, <1>5

LEMMA ReadShape ==
    ASSUME TopicInv, NEW ch \in Channels, NEW p \in Partitions, Turn(ch),
           Worker!ReadOne(ch, p)
    PROVE  \E k \in Nat : Reads(ch, p, k)
  <1> DEFINE k == position[ch][p] + 1
  <1>1. k \in Nat /\ k \in 1 .. Len(topic[p]) /\ Len(topic[p]) \in Nat
    BY WorkerTypes DEF Worker!ReadOne
  <1>2. k \in DOMAIN topic[p] /\ topic[p][k] \in Notifs
    BY <1>1, WorkerTypes
  <1>3. <<p, k>> \in Places
    BY <1>1, WorkerTypes DEF TopicInv, Bounded, Places
  <1>4. <<p, k>> \in PlacesOf(topic[p][k])
    BY <1>2, <1>3 DEF PlacesOf
  <1>5. /\ position' = [position EXCEPT ![ch][p] = k]
        /\ stash' = [stash EXCEPT ![ch][p] = k]
        /\ msg' = [msg EXCEPT ![ch] = topic[p][k]]
        /\ pc' = [pc EXCEPT ![ch] = "check"]
        /\ UNCHANGED <<topic, committed, proc, inbox, starts>>
        /\ proc # "down"
    BY DEF Worker!ReadOne, Worker!Goto, Worker!broker, Worker!store
  <1> HIDE DEF k
  <1>6. /\ position'[ch][p] = k /\ stash'[ch][p] = k
        /\ \A q \in Partitions \ {p} : /\ position'[ch][q] = position[ch][q]
                                       /\ stash'[ch][q] = stash[ch][q]
        /\ msg'[ch] = topic[p][k]
        /\ \A c \in Channels \ {ch} :
               /\ position'[c] = position[c] /\ stash'[c] = stash[c]
               /\ pc'[c] = pc[c] /\ msg'[c] = msg[c]
    BY <1>5, WorkerTypes
  <1>7. {place \in Places : /\ place[2] = position[ch][place[1]] + 1
                            /\ place[2] = position'[ch][place[1]]} = {<<p, k>>}
    <2>1. ASSUME NEW place \in Places, place[2] = position[ch][place[1]] + 1,
                 place[2] = position'[ch][place[1]]
          PROVE  place = <<p, k>>
      <3>1. place[1] \in Partitions /\ place = <<place[1], place[2]>>
        BY DEF Places
      <3>2. position[ch][place[1]] \in Nat
        BY <3>1, WorkerTypes
      <3>3. place[1] = p
        BY <2>1, <3>1, <3>2, <1>6
      <3> QED
        BY <2>1, <3>1, <3>3, <1>6
    <2>2. k = position[ch][p] + 1
      BY DEF k
    <2> QED
      BY <1>3, <1>6, <2>1, <2>2
  <1>8. /\ handed'[ch] = handed[ch] \cup {<<p, k>>}
        /\ \A c \in Channels \ {ch} : handed'[c] = handed[c]
    BY <1>7, WorkerTypes DEF Turn
  <1>9. Reads(ch, p, k)
    BY <1>2, <1>3, <1>4, <1>5, <1>6, <1>8 DEF Reads, k
  <1> QED
    BY <1>1, <1>9

LEMMA AcceptShape ==
    ASSUME TopicInv, NEW ch \in Channels, Worker!SendAccepted(ch), UNCHANGED handed
    PROVE  Accepts(ch)
  <1> DEFINE B == inbox[ch]
             m == Len(B)
             d == [notif |-> msg[ch], log |-> Len(logs[ch])]
             C == Append(B, d)
  <1>1. /\ UNCHANGED <<topic, committed, position, stash, proc, msg, starts>>
        /\ pc[ch] = "send" /\ pc' = [pc EXCEPT ![ch] = "markSent"]
        /\ inbox' = [inbox EXCEPT ![ch] = C]
    BY DEF Worker!SendAccepted, Worker!Goto, Worker!broker, Worker!reader
  <1>2. B \in Seq([notif : Notifs, log : Nat])
    BY WorkerTypes
  <1>3. /\ m \in Nat /\ DOMAIN B = 1 .. m /\ DOMAIN C = 1 .. m + 1
        /\ \A i \in 1 .. m : C[i] = B[i]
        /\ C[m + 1] = d
    BY <1>2
  <1>4. d.notif = msg[ch] /\ msg[ch] \in Notifs
    BY <1>1, WorkerTypes
  <1> HIDE DEF m, d, C
  <1>5. inbox'[ch] = C /\ \A c \in Channels \ {ch} : inbox'[c] = inbox[c]
    BY <1>1, WorkerTypes
  <1>6. pc'[ch] = "markSent" /\ \A c \in Channels \ {ch} : pc'[c] = pc[c]
    BY <1>1, WorkerTypes
  <1> QED
    BY <1>1, <1>3, <1>4, <1>5, <1>6 DEF Accepts, InHand

LEMMA EndShape ==
    ASSUME TopicInv, Worker!ProcessEnds, committed' \in {committed, stash},
           UNCHANGED handed
    PROVE  Ends
  <1>1. \A ch \in Channels : pc'[ch] = "stopped" /\ msg'[ch] = NoMsg
    BY DEF Worker!ProcessEnds
  <1>2. \A ch \in Channels, p \in Partitions :
            position'[ch][p] = 0 /\ stash'[ch][p] = -1
    BY DEF Worker!ProcessEnds, Worker!NoOffset
  <1> QED
    BY <1>1, <1>2 DEF Ends, Worker!ProcessEnds, Worker!store, InHand

\* Only a read hands out a place.
LEMMA HandsOutNothing ==
    ASSUME TopicInv, NEW ch \in Channels, Turn(ch),
           \A p \in Partitions : position'[ch][p] \in {position[ch][p], 0}
    PROVE  UNCHANGED handed
  <1>1. ASSUME NEW place \in Places, place[2] = position[ch][place[1]] + 1,
               place[2] = position'[ch][place[1]]
        PROVE  FALSE
    <2>1. place[1] \in Partitions
      BY DEF Places
    <2>2. position[ch][place[1]] \in Nat
      BY <2>1, WorkerTypes
    <2> QED
      BY <1>1, <2>1, <2>2
  <1>2. {place \in Places : /\ place[2] = position[ch][place[1]] + 1
                            /\ place[2] = position'[ch][place[1]]} = {}
    BY <1>1
  <1> QED
    BY <1>2, WorkerTypes DEF Turn

\* A worker's turn reads, accepts, ends the process in a panic, or moves on.
LEMMA TurnShape ==
    ASSUME TopicInv, NEW ch \in Channels, Turn(ch)
    PROVE  \/ \E p \in Partitions : \E k \in Nat : Reads(ch, p, k)
           \/ Accepts(ch)
           \/ Ends
           \/ Moves(ch)
  <1>1. CASE \E p \in Partitions : Worker!ReadOne(ch, p)
    BY <1>1, ReadShape
  <1>2. CASE Worker!SendAccepted(ch)
    <2>1. position' = position
      BY <1>2 DEF Worker!SendAccepted, Worker!reader
    <2> QED
      BY <1>2, <2>1, HandsOutNothing, AcceptShape
  <1>3. CASE Worker!SendPanics(ch)
    <2>1. \A p \in Partitions : position'[ch][p] = 0
      BY <1>3 DEF Worker!SendPanics, Worker!ProcessEnds
    <2> QED
      BY <1>3, <2>1, HandsOutNothing, EndShape DEF Worker!SendPanics
  <1>4. ASSUME \/ Worker!RunReturns(ch)
               \/ Worker!CheckSent(ch) \/ Worker!CheckFails(ch)
               \/ Worker!InsertLog(ch) \/ Worker!InsertFails(ch)
               \/ Worker!SendRefused(ch)
               \/ Worker!BackoffElapsed(ch) \/ Worker!BackoffCancelled(ch)
               \/ Worker!MarkRow(ch) \/ Worker!MarkFails(ch)
        PROVE  Moves(ch)
    <2>1. UNCHANGED <<topic, committed, position, stash, proc, inbox, starts>>
      BY <1>4
      DEF Worker!RunReturns, Worker!CheckSent, Worker!CheckFails,
          Worker!InsertLog, Worker!InsertFails, Worker!SendRefused,
          Worker!BackoffElapsed, Worker!BackoffCancelled, Worker!MarkRow,
          Worker!MarkFails, Worker!broker, Worker!reader, Worker!store
    <2>2. UNCHANGED handed
      BY <2>1, HandsOutNothing
    <2>3. \/ Worker!Return(ch)
          \/ /\ \E l \in {"stopped", "markFailed"} : Worker!Goto(ch, l)
             /\ UNCHANGED msg
          \/ /\ \E l \in {"insert", "send", "backoff"} : Worker!Goto(ch, l)
             /\ UNCHANGED msg
             /\ InHand(ch)
      BY <1>4
      DEF Worker!RunReturns, Worker!CheckSent, Worker!CheckFails,
          Worker!InsertLog, Worker!InsertFails, Worker!SendRefused,
          Worker!BackoffElapsed, Worker!BackoffCancelled, Worker!MarkRow,
          Worker!MarkFails, InHand
    <2>4. /\ \A c \in Channels \ {ch} : pc'[c] = pc[c] /\ msg'[c] = msg[c]
          /\ msg'[ch] \in {msg[ch], NoMsg}
          /\ InHand(ch)' => InHand(ch) /\ msg'[ch] = msg[ch]
      BY <2>3, WorkerTypes DEF Worker!Return, Worker!Goto, InHand
    <2> QED
      BY <2>1, <2>2, <2>4 DEF Moves
  <1> QED
    BY <1>1, <1>2, <1>3, <1>4 DEF Turn, Worker!Work

\* The reader sends the offsets of what it has handed out.
Commits(ch) ==
    /\ UNCHANGED <<topic, position, stash, proc, pc, msg, inbox, starts, handed>>
    /\ committed'[ch] = stash[ch]
    /\ \A c \in Channels \ {ch} : committed'[c] = committed[c]

\* A start reads on from the committed offsets.
Starts ==
    /\ UNCHANGED <<topic, committed, msg, inbox, handed>>
    /\ proc = "down" /\ starts' = starts + 1
    /\ stash' = committed
    /\ \A ch \in Channels :
           /\ ~InHand(ch)'
           /\ \A p \in Partitions :
                  position'[ch][p] = IF committed[ch][p] = -1 THEN Len(topic[p])
                                     ELSE committed[ch][p]

\* Everything else leaves the workers where they are; the topic may grow.
Rests ==
    /\ UNCHANGED <<committed, position, stash, pc, msg, inbox, starts, handed>>
    /\ proc' # "down" => proc # "down"
    /\ Extends(topic, topic')

LEMMA Shapes ==
    ASSUME TopicInv, [Next]_vars
    PROVE  \/ \E ch \in Channels :
                  \/ \E p \in Partitions : \E k \in Nat : Reads(ch, p, k)
                  \/ Accepts(ch) \/ Moves(ch) \/ Commits(ch)
           \/ Starts \/ Ends \/ Rests
  <1>1. topic' = topic => Extends(topic, topic')
    BY DEF Extends
  <1>2. ASSUME NEW n \in Notifs, Write(n)
        PROVE  Rests
    <2>1. Extends(topic, topic')
      BY <1>2, TopicIsTyped, WriteExtends DEF TopicInv
    <2> QED
      BY <1>2, <2>1 DEF Write, Rests
  <1>3. ASSUME UNCHANGED <<workerVars, handed>>
        PROVE  Rests
    BY <1>1, <1>3 DEF workerVars, Rests
  <1>4. ASSUME NEW ch \in Channels, Turn(ch)
        PROVE  \/ \E p \in Partitions : \E k \in Nat : Reads(ch, p, k)
               \/ Accepts(ch) \/ Moves(ch) \/ Ends
    BY <1>4, TurnShape
  <1>5. ASSUME NEW ch \in Channels, Reader(ch)
        PROVE  Moves(ch) \/ Commits(ch)
    <2>1. CASE Worker!AutoCommit(ch)
      BY <1>5, <2>1, WorkerTypes
      DEF Reader, WorkerOnly, Worker!AutoCommit, Worker!reader, Worker!local,
          Worker!store, Commits
    <2>2. CASE Worker!ReadTimesOut(ch)
      BY <1>5, <2>2, WorkerTypes
      DEF Reader, WorkerOnly, Worker!ReadTimesOut, Worker!Goto, Worker!broker,
          Worker!reader, Worker!store, Moves, InHand
    <2> QED
      BY <1>5, <2>1, <2>2 DEF Reader, WorkerOnly
  <1>6. ASSUME Delivery
        PROVE  Starts \/ Ends \/ Rests
    <2>1. UNCHANGED handed
      BY <1>6 DEF Delivery, WorkerOnly
    <2>2. CASE Worker!Start
      BY <2>1, <2>2
      DEF Worker!Start, Worker!StartOffset, Worker!NoOffset, Worker!broker,
          Worker!store, Starts, InHand
    <2>3. CASE Worker!Crash
      BY <2>1, <2>3, EndShape DEF Worker!Crash
    <2>4. CASE Worker!Signal
      BY <1>1, <2>1, <2>4
      DEF Worker!Signal, Worker!broker, Worker!reader, Worker!local,
          Worker!store, Rests
    <2> QED
      BY <1>6, <2>2, <2>3, <2>4 DEF Delivery, WorkerOnly
  <1>7. ASSUME StopDelivery
        PROVE  Ends
    BY <1>7, EndShape DEF StopDelivery, WorkerOnly, Worker!CloseConsumers
  <1> QED
    BY <1>2, <1>3, <1>4, <1>5, <1>6, <1>7
    DEF Next, vars, Request, Serve, Server, StopServer, ServerOnly

-----------------------------------------------------------------------------
(* The foreign key: what a worker holds or has delivered is in the topic,  *)
(* where the server put it after it had saved the row.                     *)

\* ch's worker has n in hand, or has delivered it.
Has(ch, n) == msg[ch] = n \/ \E i \in DOMAIN inbox[ch] : inbox[ch][i].notif = n

Sourced == \A ch \in Channels, n \in Notifs : Has(ch, n) => InTopic(n)

LEMMA StaysInTopic ==
    ASSUME Extends(topic, topic') \/ topic' = topic, NEW n, InTopic(n)
    PROVE  InTopic(n)'
  <1>1. Extends(topic, topic')
    BY DEF Extends
  <1> QED
    BY <1>1, PlacesGrow DEF InTopic

LEMMA NextSourced == TopicInv /\ Sourced /\ [Next]_vars => Sourced'
  <1> SUFFICES ASSUME TopicInv, Sourced, [Next]_vars
               PROVE  Sourced'
    OBVIOUS
  <1>1. Extends(topic, topic') \/ topic' = topic
    BY Shapes DEF Reads, Accepts, Moves, Commits, Starts, Ends, Rests
  <1>2. \A n : InTopic(n) => InTopic(n)'
    BY <1>1, StaysInTopic
  <1>3. ASSUME NEW ch \in Channels, inbox'[ch] = inbox[ch],
               msg'[ch] \in {msg[ch], NoMsg},
               NEW n \in Notifs, Has(ch, n)'
        PROVE  Has(ch, n)
    BY <1>3, WorkerTypes DEF Has
  <1>4. ASSUME NEW ch \in Channels, NEW p \in Partitions, NEW k \in Nat,
               Reads(ch, p, k), NEW c \in Channels, NEW n \in Notifs, Has(c, n)'
        PROVE  InTopic(n)
    <2>1. CASE c # ch
      BY <1>3, <1>4, <2>1 DEF Reads, Sourced
    <2>2. CASE c = ch /\ n # topic[p][k]
      BY <1>4, <2>2 DEF Reads, Sourced, Has
    <2>3. CASE n = topic[p][k]
      BY <1>4, <2>3 DEF Reads, InTopic
    <2> QED
      BY <2>1, <2>2, <2>3
  <1>5. ASSUME NEW ch \in Channels, Accepts(ch),
               NEW c \in Channels, NEW n \in Notifs, Has(c, n)'
        PROVE  InTopic(n)
    <2>1. CASE c # ch
      BY <1>3, <1>5, <2>1 DEF Accepts, Sourced
    <2>2. CASE c = ch
      <3>1. PICK m \in Nat :
                /\ DOMAIN inbox[ch] = 1 .. m
                /\ DOMAIN inbox'[ch] = 1 .. m + 1
                /\ \A i \in 1 .. m : inbox'[ch][i].notif = inbox[ch][i].notif
                /\ inbox'[ch][m + 1].notif = msg[ch]
        BY <1>5 DEF Accepts
      <3>2. \A i \in 1 .. m + 1 : i \in 1 .. m \/ i = m + 1
        OBVIOUS
      <3>3. Has(ch, n)
        BY <1>5, <2>2, <3>1, <3>2 DEF Accepts, Has
      <3> QED
        BY <3>3 DEF Sourced
    <2> QED
      BY <2>1, <2>2
  <1>6. ASSUME \/ \E ch \in Channels : Moves(ch) \/ Commits(ch)
               \/ Starts \/ Ends \/ Rests,
               NEW c \in Channels, NEW n \in Notifs, Has(c, n)'
        PROVE  InTopic(n)
    <2>1. inbox'[c] = inbox[c] /\ msg'[c] \in {msg[c], NoMsg}
      BY <1>6 DEF Moves, Commits, Starts, Ends, Rests
    <2> QED
      BY <1>3, <1>6, <2>1 DEF Sourced
  <1>7. \A c \in Channels, n \in Notifs : Has(c, n)' => InTopic(n)
    BY <1>4, <1>5, <1>6, Shapes
  <1> QED
    BY <1>2, <1>7 DEF Sourced

LEMMA AlwaysSourced == Spec => []Sourced
  <1>1. Init => Sourced
    <2> SUFFICES ASSUME Init, NEW ch \in Channels, NEW n \in Notifs
                 PROVE  ~Has(ch, n)
      BY DEF Sourced
    <2>1. msg[ch] = NoMsg /\ inbox[ch] = <<>>
      BY DEF Init, Worker!Init
    <2> QED
      BY <2>1, SystemAssumption DEF Has
  <1> QED
    BY <1>1, NextSourced, AlwaysTopicInv, PTL DEF Spec

\* A worker that holds a notification finds its row: Save comes before
\* Publish, what is in the topic stays there, and workers hold nothing else,
\* through the crashes of either process (the foreign key of delivery_logs).
THEOREM ForeignKeyAlwaysHolds == Spec => []ForeignKeyHolds
  <1>1. RequestInv /\ TopicInv /\ Sourced => ForeignKeyHolds
    <2> SUFFICES ASSUME RequestInv, TopicInv, Sourced,
                        NEW ch \in Channels, msg[ch] # NoMsg
                 PROVE  msg[ch] \in rows
      BY DEF ForeignKeyHolds
    <2>1. msg[ch] \in Notifs /\ InTopic(msg[ch])
      BY WorkerTypes DEF Sourced, Has
    <2>2. Copies[msg[ch]] > 0
      BY <2>1, CopiesOfPlaces
    <2>3. \A n \in Notifs : n \in queue \/ Copies[n] > 0 => n \in rows
      BY DEF RequestInv, APIProofs!RequestInv, APIProofs!InOrder,
             APIProofs!Progress
    <2> QED
      BY <2>1, <2>2, <2>3
  <1> QED
    BY <1>1, AlwaysRequestInv, AlwaysTopicInv, AlwaysSourced, PTL

-----------------------------------------------------------------------------
(* Nothing is passed over: what a group commits, its reader has handed out *)
(* in this life of the process, or had committed before it.                *)

CommitsBehind ==
    \A ch \in Channels, p \in Partitions : stash[ch][p] <= position[ch][p]

LEMMA NextCommitsBehind ==
    TopicInv /\ CommitsBehind /\ [Next]_vars => CommitsBehind'
  <1> SUFFICES ASSUME TopicInv, CommitsBehind, [Next]_vars,
                      NEW c \in Channels, NEW q \in Partitions
               PROVE  stash'[c][q] <= position'[c][q]
    BY DEF CommitsBehind
  <1>1. stash[c][q] <= position[c][q]
    BY DEF CommitsBehind
  <1>2. ASSUME NEW ch \in Channels, NEW p \in Partitions, NEW k \in Nat,
               Reads(ch, p, k)
        PROVE  stash'[c][q] <= position'[c][q]
    BY <1>1, <1>2 DEF Reads
  <1>3. CASE Starts
    <2>1. topic[q] \in Seq(Notifs) /\ committed[c][q] \in Nat \cup {-1}
      BY WorkerTypes
    <2>2. Len(topic[q]) \in Nat
      BY <2>1
    <2> QED
      BY <1>3, <2>1, <2>2 DEF Starts
  <1>4. CASE Ends
    BY <1>4 DEF Ends
  <1>5. ASSUME \/ \E ch \in Channels : Accepts(ch) \/ Moves(ch) \/ Commits(ch)
               \/ Rests
        PROVE  stash'[c][q] <= position'[c][q]
    BY <1>1, <1>5 DEF Accepts, Moves, Commits, Rests
  <1> QED
    BY <1>2, <1>3, <1>4, <1>5, Shapes

LEMMA AlwaysCommitsBehind == Spec => []CommitsBehind
  <1>1. Init => CommitsBehind
    BY DEF Init, Worker!Init, Worker!NoOffset, CommitsBehind
  <1> QED
    BY <1>1, NextCommitsBehind, AlwaysTopicInv, PTL DEF Spec

\* A step by which ch newly misses a place is a start before its group's
\* first commit in the partition.
LEMMA StepMisses ==
    ASSUME TopicInv, CommitsBehind, [Next]_vars, NEW c \in Channels,
           NEW place \in Missed(c)' \ Missed(c)
    PROVE  committed[c][place[1]] = Worker!NoOffset
  <1> DEFINE q == place[1]
             l == place[2]
  <1>1. /\ place \in Places /\ q \in Partitions /\ l \in Nat /\ l >= 1
        /\ place = <<q, l>>
    BY WorkerTypes DEF Missed, Places
  <1>2. /\ l <= position'[c][q] \/ l <= committed'[c][q]
        /\ place \notin handed'[c]
    BY DEF Missed
  <1>3. \/ l > position[c][q] /\ l > committed[c][q]
        \/ place \in handed[c]
    <2>1. /\ ~(l <= position[c][q] \/ l <= committed[c][q])
          \/ place \in handed[c]
      BY <1>1 DEF Missed
    <2>2. position[c][q] \in Nat /\ committed[c][q] \in Nat \cup {-1}
      BY <1>1, WorkerTypes
    <2> QED
      BY <1>1, <2>1, <2>2
  <1>4. stash[c][q] <= position[c][q] /\ stash[c][q] \in Nat \cup {-1}
    BY <1>1, WorkerTypes DEF CommitsBehind
  <1>5. position[c][q] \in Nat /\ committed[c][q] \in Nat \cup {-1}
    BY <1>1, WorkerTypes
  <1> HIDE DEF q, l
  <1>6. ASSUME NEW ch \in Channels, NEW p \in Partitions, NEW k \in Nat,
               Reads(ch, p, k)
        PROVE  FALSE
    <2>1. handed[c] \subseteq handed'[c] /\ committed' = committed
      BY <1>6 DEF Reads
    <2>2. l > position[c][q] /\ l <= position'[c][q]
      BY <1>2, <1>3, <2>1, <1>5, <1>1
    <2>3. c = ch /\ q = p
      BY <1>6, <2>2, <1>1, <1>5 DEF Reads
    <2>4. l = k
      BY <1>6, <2>2, <2>3, <1>1, <1>5 DEF Reads
    <2>5. place \in handed'[c]
      BY <1>1, <1>6, <2>3, <2>4 DEF Reads
    <2> QED
      BY <1>2, <2>5
  <1>7. CASE Starts
    <2>1. handed' = handed /\ committed' = committed
      BY <1>7 DEF Starts
    <2>2. l > committed[c][q] /\ l <= position'[c][q]
      BY <1>1, <1>2, <1>3, <1>5, <2>1
    <2>3. committed[c][q] = -1
      BY <1>1, <1>5, <1>7, <2>2 DEF Starts
    <2> QED
      BY <2>3 DEF q, Worker!NoOffset
  <1>8. CASE Ends
    <2>1. handed' = handed /\ position'[c][q] = 0
      BY <1>1, <1>8 DEF Ends
    <2>2. committed'[c][q] \in {committed[c][q], stash[c][q]}
      BY <1>8 DEF Ends
    <2> QED
      BY <1>1, <1>2, <1>3, <1>4, <1>5, <2>1, <2>2
  <1>9. ASSUME NEW ch \in Channels, Commits(ch)
        PROVE  FALSE
    <2>1. handed' = handed /\ position' = position
      BY <1>9 DEF Commits
    <2>2. committed'[c][q] \in {committed[c][q], stash[c][q]}
      BY <1>9 DEF Commits
    <2> QED
      BY <1>1, <1>2, <1>3, <1>4, <1>5, <2>1, <2>2
  <1>10. ASSUME Rests \/ \E ch \in Channels : Accepts(ch) \/ Moves(ch)
         PROVE  FALSE
    <2>1. UNCHANGED <<handed, position, committed>>
      BY <1>10 DEF Rests, Accepts, Moves
    <2> QED
      BY <1>1, <1>2, <1>3, <1>5, <2>1
  <1> QED
    BY <1>6, <1>7, <1>8, <1>9, <1>10, Shapes

\* A group that has committed an offset in a partition passes over nothing
\* in it any more, whatever crashes, closes and auto-commits there are: the
\* reader is never behind what it commits, and a start reads on from there.
THEOREM NothingIsPassedOver == Spec => MissedOnlyBeforeFirstCommit
  <1>1. TopicInv /\ CommitsBehind /\ [Next]_vars =>
            [\A ch \in Channels : \A place \in Missed(ch)' \ Missed(ch) :
                committed[ch][place[1]] = Worker!NoOffset]_vars
    BY StepMisses
  <1> QED
    BY <1>1, AlwaysTopicInv, AlwaysCommitsBehind, PTL
    DEF Spec, MissedOnlyBeforeFirstCommit

-----------------------------------------------------------------------------
(* Order, in the first life of the delivery process.  Only messages stored *)
(* once have a place to be compared by.                                    *)

Only(n, a) == PlacesOf(n) = {a}

\* The one place of ch's i-th delivery, and of what its worker has in hand.
DeliveredFrom(ch, i, a) == \E n \in Notifs : inbox[ch][i].notif = n /\ Only(n, a)
InHandFrom(ch, a) == InHand(ch) /\ \E n \in Notifs : msg[ch] = n /\ Only(n, a)

\* What ch delivered from one partition, it delivered in the order of the
\* places there.
DeliveredInOrder(ch) ==
    \A i, j \in DOMAIN inbox[ch] : \A a, b \in Places :
        i < j /\ DeliveredFrom(ch, i, a) /\ DeliveredFrom(ch, j, b) /\ a[1] = b[1]
            => a[2] < b[2]

\* While the process lives its reader is past what it delivered.
ReaderIsPast(ch) ==
    proc # "down" =>
        \A i \in DOMAIN inbox[ch] : \A a \in Places :
            DeliveredFrom(ch, i, a) => a[2] <= position[ch][a[1]]

\* What is in hand was handed out after all that was delivered.
HandIsLast(ch) ==
    \A b \in Places : InHandFrom(ch, b) =>
        /\ b[2] <= position[ch][b[1]]
        /\ \A i \in DOMAIN inbox[ch] : \A a \in Places :
               DeliveredFrom(ch, i, a) /\ a[1] = b[1] => a[2] < b[2]

Ordered(ch) == DeliveredInOrder(ch) /\ ReaderIsPast(ch) /\ HandIsLast(ch)

OrderInv ==
    /\ starts = 0 => /\ proc = "down"
                     /\ \A ch \in Channels : inbox[ch] = <<>> /\ ~InHand(ch)
    /\ starts <= 1 => \A ch \in Channels : Ordered(ch)

\* A message of the topic that is stored once was stored there before.
LEMMA OnlyBefore ==
    ASSUME Extends(topic, topic') \/ topic' = topic, NEW n, InTopic(n),
           NEW a, Only(n, a)'
    PROVE  Only(n, a)
  <1>1. Extends(topic, topic')
    BY DEF Extends
  <1>2. PlacesOf(n) \subseteq PlacesOf(n)'
    BY <1>1, PlacesGrow
  <1> QED
    BY <1>2 DEF Only, InTopic

LEMMA DeliveredBefore ==
    ASSUME Sourced, Extends(topic, topic') \/ topic' = topic,
           NEW ch \in Channels, NEW i \in DOMAIN inbox[ch],
           inbox'[ch][i].notif = inbox[ch][i].notif,
           NEW a, DeliveredFrom(ch, i, a)'
    PROVE  DeliveredFrom(ch, i, a)
  <1>1. PICK n \in Notifs : inbox[ch][i].notif = n /\ Only(n, a)'
    BY DEF DeliveredFrom
  <1>2. InTopic(n)
    BY <1>1 DEF Sourced, Has
  <1> QED
    BY <1>1, <1>2, OnlyBefore DEF DeliveredFrom

LEMMA InHandBefore ==
    ASSUME Sourced, Extends(topic, topic') \/ topic' = topic,
           NEW ch \in Channels, msg'[ch] = msg[ch], InHand(ch),
           NEW a, InHandFrom(ch, a)'
    PROVE  InHandFrom(ch, a)
  <1>1. PICK n \in Notifs : msg[ch] = n /\ Only(n, a)'
    BY DEF InHandFrom
  <1>2. InTopic(n)
    BY <1>1 DEF Sourced, Has
  <1> QED
    BY <1>1, <1>2, OnlyBefore DEF InHandFrom

\* A channel whose worker does not read or deliver stays in order.
LEMMA OrderedKept ==
    ASSUME Sourced, Extends(topic, topic') \/ topic' = topic,
           NEW ch \in Channels, Ordered(ch),
           inbox'[ch] = inbox[ch],
           proc' # "down" => proc # "down" /\ position'[ch] = position[ch],
           InHand(ch)' => /\ InHand(ch) /\ msg'[ch] = msg[ch]
                          /\ position'[ch] = position[ch]
    PROVE  Ordered(ch)'
  <1>1. \A i \in DOMAIN inbox[ch] : \A a :
            DeliveredFrom(ch, i, a)' => DeliveredFrom(ch, i, a)
    BY DeliveredBefore
  <1>2. \A a : InHandFrom(ch, a)' => InHandFrom(ch, a)
    BY InHandBefore DEF InHandFrom
  <1>3. DeliveredInOrder(ch)'
    BY <1>1 DEF Ordered, DeliveredInOrder
  <1>4. ReaderIsPast(ch)'
    BY <1>1 DEF Ordered, ReaderIsPast
  <1>5. HandIsLast(ch)'
    <2> SUFFICES ASSUME NEW b \in Places, InHandFrom(ch, b)'
                 PROVE  /\ b[2] <= position'[ch][b[1]]
                        /\ \A i \in DOMAIN inbox'[ch] : \A a \in Places :
                               DeliveredFrom(ch, i, a)' /\ a[1] = b[1] =>
                                   a[2] < b[2]
      BY DEF HandIsLast
    <2>1. InHandFrom(ch, b) /\ position'[ch] = position[ch]
      BY <1>2 DEF InHandFrom
    <2> QED
      BY <1>1, <2>1 DEF Ordered, HandIsLast
  <1> QED
    BY <1>3, <1>4, <1>5 DEF Ordered

\* What is read comes after everything the reader has handed out.
LEMMA OrderedRead ==
    ASSUME TopicInv, Sourced, NEW ch \in Channels, Ordered(ch),
           NEW p \in Partitions, NEW k \in Nat, Reads(ch, p, k)
    PROVE  Ordered(ch)'
  <1>1. \A i \in DOMAIN inbox[ch] : \A a :
            DeliveredFrom(ch, i, a)' => DeliveredFrom(ch, i, a)
    BY DeliveredBefore DEF Reads
  <1>2. DeliveredInOrder(ch)'
    BY <1>1 DEF Ordered, DeliveredInOrder, Reads
  <1>3. \A i \in DOMAIN inbox[ch] : \A a \in Places :
            DeliveredFrom(ch, i, a)' => a[2] <= position[ch][a[1]]
    BY <1>1 DEF Ordered, ReaderIsPast, Reads
  <1>4. \A q \in Partitions : /\ position[ch][q] \in Nat /\ position'[ch][q] \in Nat
                              /\ position[ch][q] <= position'[ch][q]
    <2> SUFFICES ASSUME NEW q \in Partitions
                 PROVE  /\ position[ch][q] \in Nat /\ position'[ch][q] \in Nat
                        /\ position[ch][q] <= position'[ch][q]
      OBVIOUS
    <2>1. position[ch][q] \in Nat
      BY WorkerTypes
    <2>2. \/ q = p /\ position'[ch][q] = position[ch][q] + 1
          \/ position'[ch][q] = position[ch][q]
      BY DEF Reads
    <2> QED
      BY <2>1, <2>2
  <1>5. \A a \in Places : a[1] \in Partitions /\ a[2] \in Nat /\ a = <<a[1], a[2]>>
    BY WorkerTypes DEF Places
  <1>6. ReaderIsPast(ch)'
    <2>1. ASSUME NEW i \in DOMAIN inbox[ch], NEW a \in Places,
                 DeliveredFrom(ch, i, a)'
          PROVE  a[2] <= position'[ch][a[1]]
      BY <1>3, <1>4, <1>5, <2>1
    <2> QED
      BY <2>1 DEF ReaderIsPast, Reads
  <1>7. ASSUME NEW b \in Places, InHandFrom(ch, b)'
        PROVE  b = <<p, k>>
    <2>1. PICK n \in Notifs : msg'[ch] = n /\ Only(n, b)'
      BY <1>7 DEF InHandFrom
    <2>2. n = topic[p][k] /\ topic' = topic
      BY <2>1 DEF Reads
    <2>3. <<p, k>> \in PlacesOf(n)
      BY <2>2 DEF Reads
    <2>4. PlacesOf(n)' = PlacesOf(n)
      BY <2>2 DEF PlacesOf
    <2> QED
      BY <2>1, <2>3, <2>4 DEF Only
  <1>8. HandIsLast(ch)'
    <2> SUFFICES ASSUME NEW b \in Places, InHandFrom(ch, b)'
                 PROVE  /\ b[2] <= position'[ch][b[1]]
                        /\ \A i \in DOMAIN inbox'[ch] : \A a \in Places :
                               DeliveredFrom(ch, i, a)' /\ a[1] = b[1] =>
                                   a[2] < b[2]
      BY DEF HandIsLast
    <2>1. b[1] = p /\ b[2] = k
      BY <1>7
    <2>2. /\ position'[ch][p] = k /\ k = position[ch][p] + 1
          /\ inbox' = inbox /\ position[ch][p] \in Nat
      BY WorkerTypes DEF Reads
    <2>3. ASSUME NEW i \in DOMAIN inbox[ch], NEW a \in Places,
                 DeliveredFrom(ch, i, a)', a[1] = b[1]
          PROVE  a[2] < b[2]
      <3>1. a[2] <= position[ch][p] /\ a[2] \in Nat
        BY <1>3, <1>5, <2>1, <2>3
      <3> QED
        BY <2>1, <2>2, <3>1
    <2> QED
      BY <2>1, <2>2, <2>3
  <1> QED
    BY <1>2, <1>6, <1>8 DEF Ordered

\* What is delivered is what was in hand, the last to be handed out.
LEMMA OrderedAccept ==
    ASSUME TopicInv, Sourced, NEW ch \in Channels, Ordered(ch), Accepts(ch)
    PROVE  Ordered(ch)'
  <1>1. PICK m \in Nat :
            /\ DOMAIN inbox[ch] = 1 .. m
            /\ DOMAIN inbox'[ch] = 1 .. m + 1
            /\ \A i \in 1 .. m : inbox'[ch][i].notif = inbox[ch][i].notif
            /\ inbox'[ch][m + 1].notif = msg[ch]
    BY DEF Accepts
  <1>2. \A i \in 1 .. m : \A a :
            DeliveredFrom(ch, i, a)' => DeliveredFrom(ch, i, a)
    BY <1>1, DeliveredBefore DEF Accepts
  <1>3. ASSUME NEW a, DeliveredFrom(ch, m + 1, a)'
        PROVE  InHandFrom(ch, a)
    <2>1. PICK n \in Notifs : msg[ch] = n /\ Only(n, a)'
      BY <1>1, <1>3 DEF DeliveredFrom
    <2>2. InTopic(n) /\ topic' = topic
      BY <2>1 DEF Sourced, Has, Accepts
    <2>3. Only(n, a)
      BY <2>1, <2>2, OnlyBefore
    <2> QED
      BY <2>1, <2>3 DEF InHandFrom, InHand, Accepts
  <1>4. \A i \in 1 .. m + 1 : i \in 1 .. m \/ i = m + 1
    OBVIOUS
  <1>5. DeliveredInOrder(ch)'
    <2> SUFFICES ASSUME NEW i \in 1 .. m + 1, NEW j \in 1 .. m + 1,
                        NEW a \in Places, NEW b \in Places, i < j,
                        DeliveredFrom(ch, i, a)', DeliveredFrom(ch, j, b)',
                        a[1] = b[1]
                 PROVE  a[2] < b[2]
      BY <1>1 DEF DeliveredInOrder
    <2>1. i \in 1 .. m
      OBVIOUS
    <2>2. DeliveredFrom(ch, i, a)
      BY <1>2, <2>1
    <2>3. CASE j \in 1 .. m
      <3>1. DeliveredFrom(ch, j, b)
        BY <1>2, <2>3
      <3> QED
        BY <1>1, <2>1, <2>2, <2>3, <3>1 DEF Ordered, DeliveredInOrder
    <2>4. CASE j = m + 1
      <3>1. InHandFrom(ch, b)
        BY <1>3, <2>4
      <3> QED
        BY <1>1, <2>1, <2>2, <3>1 DEF Ordered, HandIsLast
    <2> QED
      BY <1>4, <2>3, <2>4
  <1>6. ReaderIsPast(ch)'
    <2> SUFFICES ASSUME proc' # "down", NEW i \in 1 .. m + 1, NEW a \in Places,
                        DeliveredFrom(ch, i, a)'
                 PROVE  a[2] <= position'[ch][a[1]]
      BY <1>1 DEF ReaderIsPast
    <2>1. proc # "down" /\ position' = position
      BY DEF Accepts
    <2>2. CASE i \in 1 .. m
      BY <1>1, <1>2, <2>1, <2>2 DEF Ordered, ReaderIsPast
    <2>3. CASE i = m + 1
      <3>1. InHandFrom(ch, a)
        BY <1>3, <2>3
      <3> QED
        BY <2>1, <3>1 DEF Ordered, HandIsLast
    <2> QED
      BY <1>4, <2>2, <2>3
  <1>7. HandIsLast(ch)'
    BY DEF Accepts, HandIsLast, InHandFrom
  <1> QED
    BY <1>5, <1>6, <1>7 DEF Ordered

LEMMA NextOrderInv == TopicInv /\ Sourced /\ OrderInv /\ [Next]_vars => OrderInv'
  <1> SUFFICES ASSUME TopicInv, Sourced, OrderInv, [Next]_vars
               PROVE  OrderInv'
    OBVIOUS
  <1>1. starts \in Nat
    BY WorkerTypes
  <1>2. Extends(topic, topic') \/ topic' = topic
    BY Shapes DEF Reads, Accepts, Moves, Commits, Starts, Ends, Rests
  <1>3. CASE Starts
    <2>1. starts' # 0 /\ (starts' <= 1 => starts = 0)
      BY <1>1, <1>3 DEF Starts
    <2>2. ASSUME starts = 0, NEW c \in Channels
          PROVE  Ordered(c)'
      <3>1. DOMAIN inbox'[c] = {} /\ ~InHand(c)'
        BY <1>3, <2>2 DEF OrderInv, Starts
      <3> QED
        BY <3>1
        DEF Ordered, DeliveredInOrder, ReaderIsPast, HandIsLast, InHandFrom
    <2> QED
      BY <2>1, <2>2 DEF OrderInv
  <1>4. ASSUME NEW ch \in Channels, NEW p \in Partitions, NEW k \in Nat,
               Reads(ch, p, k)
        PROVE  OrderInv'
    <2>1. starts' = starts /\ starts # 0
      BY <1>4 DEF OrderInv, Reads
    <2>2. ASSUME NEW c \in Channels, Ordered(c)
          PROVE  Ordered(c)'
      <3>1. CASE c = ch
        BY <1>4, <2>2, <3>1, OrderedRead
      <3>2. CASE c # ch
        BY <1>2, <1>4, <2>2, <3>2, OrderedKept DEF Reads, InHand
      <3> QED
        BY <3>1, <3>2
    <2> QED
      BY <2>1, <2>2 DEF OrderInv
  <1>5. ASSUME NEW ch \in Channels, Accepts(ch)
        PROVE  OrderInv'
    <2>1. starts' = starts /\ starts # 0
      BY <1>5 DEF OrderInv, Accepts, InHand
    <2>2. ASSUME NEW c \in Channels, Ordered(c)
          PROVE  Ordered(c)'
      <3>1. CASE c = ch
        BY <1>5, <2>2, <3>1, OrderedAccept
      <3>2. CASE c # ch
        BY <1>2, <1>5, <2>2, <3>2, OrderedKept DEF Accepts, InHand
      <3> QED
        BY <3>1, <3>2
    <2> QED
      BY <2>1, <2>2 DEF OrderInv
  <1>6. ASSUME \/ \E ch \in Channels : Moves(ch) \/ Commits(ch)
               \/ Ends \/ Rests
        PROVE  OrderInv'
    <2>1. /\ starts' = starts /\ inbox' = inbox
          /\ proc' # "down" => proc # "down" /\ position' = position
      BY <1>6 DEF Moves, Commits, Ends, Rests
    <2>2. ASSUME NEW c \in Channels, InHand(c)'
          PROVE  InHand(c) /\ msg'[c] = msg[c] /\ position' = position
      BY <1>6, <2>2 DEF Moves, Commits, Ends, Rests, InHand
    <2>3. ASSUME NEW c \in Channels, Ordered(c)
          PROVE  Ordered(c)'
      BY <1>2, <2>1, <2>2, <2>3, OrderedKept
    <2>4. proc = "down" => proc' = "down"
      BY <2>1
    <2> QED
      BY <2>1, <2>2, <2>3, <2>4 DEF OrderInv
  <1> QED
    BY <1>3, <1>4, <1>5, <1>6, Shapes

LEMMA AlwaysOrderInv == Spec => []OrderInv
  <1>1. Init => OrderInv
    <2> SUFFICES ASSUME Init
                 PROVE  OrderInv
      OBVIOUS
    <2>1. \A c \in Channels : inbox[c] = <<>> /\ DOMAIN inbox[c] = {} /\ ~InHand(c)
      BY DEF Init, Worker!Init, InHand
    <2>2. proc = "down"
      BY DEF Init, Worker!Init
    <2> QED
      BY <2>1, <2>2
      DEF OrderInv, Ordered, DeliveredInOrder, ReaderIsPast, HandIsLast,
          InHandFrom
  <1> QED
    BY <1>1, NextOrderInv, AlwaysTopicInv, AlwaysSourced, PTL DEF Spec

\* A message with one copy has one place.
LEMMA CopyIsOnly ==
    ASSUME NEW n \in Notifs, Copies[n] = 1, NEW a \in PlacesOf(n)
    PROVE  Only(n, a)
  <1>1. IsFiniteSet(PlacesOf(n))
    BY PlacesAreFinite
  <1>2. Cardinality(PlacesOf(n)) = 1
    BY DEF Copies
  <1>3. \E x : PlacesOf(n) = {x}
    BY <1>1, <1>2, FS_Singleton
  <1> QED
    BY <1>3 DEF Only

LEMMA DeliveredNotif ==
    ASSUME TopicInv, NEW ch \in Channels, NEW i \in DOMAIN inbox[ch]
    PROVE  inbox[ch][i].notif \in Notifs
  <1> DEFINE sends == [notif : Notifs, log : Nat]
             s == inbox[ch]
             d == s[i]
  <1>1. s \in Seq(sends) /\ i \in DOMAIN s
    BY WorkerTypes
  <1> HIDE DEF s, sends
  <1>2. d \in sends
    BY <1>1
  <1> HIDE DEF d
  <1>3. d.notif \in Notifs
    BY <1>2 DEF sends
  <1> QED
    BY <1>3 DEF d, s

\* In one life of the process a channel delivers the messages of a partition
\* that are stored once in the order they were stored in, and each at most
\* once: the reader hands them out in order and is past what is delivered.
THEOREM DeliveredInPartitionOrder == Spec => []InOrderPerPartition
  <1>1. TopicInv /\ OrderInv => InOrderPerPartition
    <2> SUFFICES ASSUME TopicInv, OrderInv, starts = 1, NEW ch \in Channels,
                        NEW i \in DOMAIN inbox[ch], NEW j \in DOMAIN inbox[ch],
                        i < j,
                        NEW a \in PlacesOf(inbox[ch][i].notif),
                        NEW b \in PlacesOf(inbox[ch][j].notif),
                        a[1] = b[1],
                        Copies[inbox[ch][i].notif] = 1,
                        Copies[inbox[ch][j].notif] = 1
                 PROVE  a[2] < b[2]
      BY DEF InOrderPerPartition
    <2>1. inbox[ch][i].notif \in Notifs /\ inbox[ch][j].notif \in Notifs
      BY DeliveredNotif
    <2>2. DeliveredFrom(ch, i, a) /\ DeliveredFrom(ch, j, b)
      BY <2>1, CopyIsOnly DEF DeliveredFrom
    <2>3. a \in Places /\ b \in Places
      BY DEF PlacesOf
    <2>4. DeliveredInOrder(ch)
      BY DEF OrderInv, Ordered
    <2> QED
      BY <2>2, <2>3, <2>4 DEF DeliveredInOrder
  <1> QED
    BY <1>1, AlwaysTopicInv, AlwaysOrderInv, PTL

-----------------------------------------------------------------------------
(* The delivery ledger: what the server stores in the topic and the table  *)
(* does not touch the books of the workers.                                *)

Books == WorkerProofs!BooksInv

LEMMA NextBooks == TopicInv /\ Books /\ [Next]_vars => Books'
  <1> SUFFICES ASSUME TopicInv, Books, [Next]_vars
               PROVE  Books'
    OBVIOUS
  <1>1. CASE [WorkerProofs!Next]_(WorkerProofs!vars)
    BY <1>1, Assumptions, WorkerProofs!NextBooksInv
    DEF TopicInv, WorkerTypeInv, Books
  <1>2. ASSUME NEW n \in Notifs, Write(n)
        PROVE  Books'
    <2>1. UNCHANGED <<logs, inbox, pc, msg>>
      BY <1>2 DEF Write
    <2> QED
      BY <2>1
      DEF Books, WorkerProofs!BooksInv, WorkerProofs!PersistBeforeSend,
          WorkerProofs!SentIsTrue, WorkerProofs!OneSendPerRow,
          WorkerProofs!RepeatOnlyIfUnmarked, WorkerProofs!OpenRowIsPending,
          WorkerProofs!NoSentRowDuringTurn, WorkerProofs!AcceptedUnderOpenRow,
          WorkerProofs!RowOpen, WorkerProofs!PendingRow
  <1> QED
    BY <1>1, <1>2, WorkerSteps

LEMMA AlwaysBooks == Spec => []Books
  <1>1. Init => Books
    BY Assumptions, SameProcess, WorkerProofs!InitBooksInv DEF Init, Books
  <1> QED
    BY <1>1, NextBooks, AlwaysTopicInv, PTL DEF Spec

\* A step of the system is one of the ledgers, or changes nothing in them.
LEMMA LedgerSteps ==
    TopicInv /\ Books /\ [Next]_vars =>
        [WorkerProofs!Ledger!Next]_(WorkerProofs!Ledger!vars)
  <1> SUFFICES ASSUME TopicInv, Books, [Next]_vars
               PROVE  [WorkerProofs!Ledger!Next]_(WorkerProofs!Ledger!vars)
    OBVIOUS
  <1>1. CASE [WorkerProofs!Next]_(WorkerProofs!vars)
    BY <1>1, Assumptions, WorkerProofs!NextMaps
    DEF TopicInv, WorkerTypeInv, Books
  <1>2. ASSUME NEW n \in Notifs, Write(n)
        PROVE  UNCHANGED WorkerProofs!Ledger!vars
    BY <1>2 DEF Write, WorkerProofs!Ledger!vars, WorkerProofs!LedgerView,
                WorkerProofs!RowOpen
  <1> QED
    BY <1>1, <1>2, WorkerSteps

LEMMA SameLedger ==
    /\ WorkerProofs!Ledger!Init => Worker!Ledger!Init
    /\ [WorkerProofs!Ledger!Next]_(WorkerProofs!Ledger!vars) =>
           [Worker!Ledger!Next]_(Worker!Ledger!vars)
  BY DEF Worker!Ledger!Init, WorkerProofs!Ledger!Init, Worker!Ledger!Next,
         WorkerProofs!Ledger!Next, Worker!Ledger!vars, WorkerProofs!Ledger!vars,
         Worker!Ledger!Open, WorkerProofs!Ledger!Open,
         Worker!Ledger!Accept, WorkerProofs!Ledger!Accept,
         Worker!Ledger!Close, WorkerProofs!Ledger!Close,
         Worker!Ledger!GiveUp, WorkerProofs!Ledger!GiveUp,
         Worker!Ledger!Last, WorkerProofs!Ledger!Last,
         Worker!Ledger!SetLast, WorkerProofs!Ledger!SetLast,
         Worker!LedgerView, WorkerProofs!LedgerView,
         Worker!RowOpen, WorkerProofs!RowOpen

\* The system keeps the ledger of every channel: with a server that writes to
\* the topic at any time and workers that start, stop and crash by
\* themselves, the rows and the accepted sends are those of DeliveryLedger.
THEOREM SystemKeepsLedger == Spec => Worker!KeepsLedger
  <1>1. Init => Worker!Ledger!Init
    BY Assumptions, SameProcess, SameLedger, WorkerProofs!InitMaps DEF Init
  <1>2. TopicInv /\ Books /\ [Next]_vars => [Worker!Ledger!Next]_(Worker!Ledger!vars)
    BY LedgerSteps, SameLedger
  <1> QED
    BY <1>1, <1>2, AlwaysTopicInv, AlwaysBooks, PTL
    DEF Spec, Worker!KeepsLedger, Worker!Ledger!Spec
=============================================================================
