------------------------ MODULE DeliveryWorkerProofs ------------------------
(* Theorems about DeliveryWorker, for every value of its constants. *)
EXTENDS DeliveryWorker, TLAPS

\* Replacing one row leaves a sequence of rows, of equal length.
LEMMA ReplaceRow ==
    ASSUME NEW s \in Seq(Rows), NEW i, NEW r \in Rows
    PROVE  /\ [s EXCEPT ![i] = r] \in Seq(Rows)
           /\ Len([s EXCEPT ![i] = r]) = Len(s)
  <1> DEFINE n == Len(s)
             t == [s EXCEPT ![i] = r]
  <1>1. n \in Nat /\ s \in [1 .. n -> Rows]
    OBVIOUS
  <1> HIDE DEF n
  <1>2. t \in [1 .. n -> Rows]
    BY <1>1
  <1> HIDE DEF t
  <1>3. t \in Seq(Rows) /\ Len(t) = n
    BY <1>1, <1>2
  <1> QED
    BY <1>3 DEF t, n

-----------------------------------------------------------------------------
(* Type correctness.  TypeOK is not inductive alone: a worker past its read *)
(* must hold a notification, and one that waits must have attempts left.    *)

Busy(ch) == pc[ch] \notin {"read", "stopped"}

LocalInv ==
    /\ pc \in [Channels -> PCs]
    /\ msg \in [Channels -> Notifs \cup {NoMsg}]
    /\ attempt \in [Channels -> 0 .. MaxAttempts]
    /\ \A ch \in Channels : Busy(ch) => msg[ch] \in Notifs
    /\ \A ch \in Channels : pc[ch] = "backoff" => attempt[ch] < MaxAttempts

TypeInv == TypeOK /\ LocalInv

LEMMA InitTypeInv == Init => TypeInv
  BY ConstantsAssumption
  DEF Init, TypeInv, TypeOK, LocalInv, Busy, Offsets, NoOffset, PCs

\* The values the process takes when it ends are of their types.
LEMMA ProcessEndsTypeInv ==
    ASSUME TypeInv, ProcessEnds,
           committed' \in [Channels -> [Partitions -> Offsets]]
    PROVE  TypeInv'
  BY ConstantsAssumption
  DEF TypeInv, TypeOK, LocalInv, Busy, ProcessEnds, store, Offsets, NoOffset, PCs

\* A turn that returns leaves the worker idle and its locals well typed.
LEMMA ReturnLocalInv ==
    ASSUME TypeInv, NEW ch \in Channels, Return(ch)
    PROVE  LocalInv'
  BY ConstantsAssumption DEF TypeInv, LocalInv, Busy, Return, Goto, PCs

\* The rows a worker writes are rows.
LEMMA RowWritesType ==
    ASSUME TypeInv, NEW ch \in Channels, Busy(ch)
    PROVE  /\ InsertRow(ch) => logs' \in [Channels -> Seq(Rows)]
           /\ UpdateRow(ch) => logs' \in [Channels -> Seq(Rows)]
  <1>1. msg[ch] \in Notifs
    BY DEF TypeInv, LocalInv
  <1>2. logs \in [Channels -> Seq(Rows)]
    BY DEF TypeInv, TypeOK
  <1>3. ASSUME InsertRow(ch)
        PROVE  logs' \in [Channels -> Seq(Rows)]
    <2>1. PendingRow(ch) \in Rows
      BY <1>1 DEF PendingRow, Rows, Statuses
    <2> QED
      BY <1>2, <1>3, <2>1 DEF InsertRow
  <1>4. ASSUME UpdateRow(ch)
        PROVE  logs' \in [Channels -> Seq(Rows)]
    <2> DEFINE n == Len(logs[ch])
               r == [notif |-> logs[ch][n].notif, status |-> Verdict(ch)]
    <2>1. CASE n = 0
      <3>1. logs[ch] = <<>>
        BY <1>2, <2>1
      <3>2. logs' = logs
        BY <1>2, <1>4, <3>1 DEF UpdateRow
      <3> QED
        BY <1>2, <3>2
    <2>2. CASE n # 0
      <3>1. n \in 1 .. Len(logs[ch])
        BY <1>2, <2>2
      <3>2. r \in Rows
        <4> DEFINE row == logs[ch][n]
        <4>3. row \in Rows
          BY <1>2, <3>1
        <4> HIDE DEF row
        <4>4. row.notif \in Notifs
          BY <4>3 DEF Rows
        <4>1. logs[ch][n].notif \in Notifs
          BY <4>4 DEF row
        <4>2. Verdict(ch) \in Statuses
          BY DEF Verdict, Statuses
        <4> QED
          BY <4>1, <4>2 DEF Rows
      <3>3. [logs[ch] EXCEPT ![n] = r] \in Seq(Rows)
        BY <1>2, <3>2, ReplaceRow
      <3>4. logs' = [logs EXCEPT ![ch] = [logs[ch] EXCEPT ![n] = r]]
        BY <1>2, <1>4 DEF UpdateRow
      <3> QED
        BY <1>2, <3>3, <3>4
    <2> QED
      BY <2>1, <2>2
  <1> QED
    BY <1>3, <1>4

\* One turn of one worker preserves the type invariant.
LEMMA TurnTypeInv ==
    ASSUME TypeInv, NEW ch \in Channels, Turn(ch)
    PROVE  TypeInv'
  <1> USE ConstantsAssumption DEF TypeInv, TypeOK, broker, reader, local, store
  <1>1. ASSUME NEW p \in Partitions, ReadOne(ch, p)
        PROVE  TypeInv'
    <2>1. /\ position[ch][p] + 1 \in Nat
          /\ topic[p][position[ch][p] + 1] \in Notifs
      BY <1>1 DEF ReadOne
    <2>2. /\ position' \in [Channels -> [Partitions -> Nat]]
          /\ stash' \in [Channels -> [Partitions -> Offsets]]
      BY <1>1, <2>1 DEF ReadOne, Offsets
    <2>3. LocalInv'
      BY <1>1, <2>1 DEF ReadOne, Goto, LocalInv, Busy, PCs
    <2> QED
      BY <1>1, <2>2, <2>3 DEF ReadOne, LocalInv
  <1>2. CASE RunReturns(ch)
    BY <1>2 DEF RunReturns, Goto, LocalInv, Busy, PCs
  <1>14. CASE ReadTimesOut(ch)
    BY <1>14 DEF ReadTimesOut, Goto, LocalInv, Busy, PCs
  <1>3. CASE CheckSent(ch)
    <2>1. LocalInv'
      <3>1. CASE ExistsSent(msg[ch])
        BY <1>3, <3>1, ReturnLocalInv DEF CheckSent
      <3>2. CASE ~ExistsSent(msg[ch])
        BY <1>3, <3>2 DEF CheckSent, Goto, LocalInv, Busy, PCs
      <3> QED
        BY <3>1, <3>2
    <2> QED
      BY <1>3, <2>1 DEF CheckSent, LocalInv
  <1>4. CASE CheckFails(ch)
    <2>1. LocalInv'
      BY <1>4, ReturnLocalInv DEF CheckFails
    <2> QED
      BY <1>4, <2>1 DEF CheckFails, DBError, LocalInv
  <1>5. CASE InsertLog(ch)
    <2>1. logs' \in [Channels -> Seq(Rows)]
      BY <1>5, RowWritesType DEF InsertLog, Busy
    <2>2. LocalInv'
      BY <1>5 DEF InsertLog, Goto, LocalInv, Busy, PCs
    <2> QED
      BY <1>5, <2>1, <2>2 DEF InsertLog, LocalInv
  <1>6. CASE InsertFails(ch)
    <2>1. logs' \in [Channels -> Seq(Rows)]
      BY <1>6, RowWritesType DEF InsertFails, Busy
    <2>2. LocalInv'
      BY <1>6, ReturnLocalInv DEF InsertFails
    <2>3. dbErrors' \in 0 .. MaxDBErrors
      BY <1>6 DEF InsertFails, DBError
    <2> QED
      BY <1>6, <2>1, <2>2, <2>3 DEF InsertFails, LocalInv
  <1>7. CASE SendAccepted(ch)
    <2> DEFINE send == [notif |-> msg[ch], log |-> Len(logs[ch])]
    <2>1. send \in Accepted
      <3>1. msg[ch] \in Notifs
        BY <1>7 DEF SendAccepted, LocalInv, Busy
      <3>2. Len(logs[ch]) \in Nat
        <4>1. logs[ch] \in Seq(Rows)
          OBVIOUS
        <4> QED
          BY <4>1
      <3> QED
        BY <3>1, <3>2 DEF Accepted
    <2>2. inbox' \in [Channels -> Seq(Accepted)]
      <3>1. inbox' = [inbox EXCEPT ![ch] = Append(inbox[ch], send)]
        BY <1>7 DEF SendAccepted
      <3>2. Append(inbox[ch], send) \in Seq(Accepted)
        BY <2>1
      <3> QED
        BY <3>1, <3>2
    <2>3. LocalInv'
      BY <1>7 DEF SendAccepted, Goto, LocalInv, Busy, PCs
    <2> QED
      BY <1>7, <2>2, <2>3 DEF SendAccepted, LocalInv
  <1>8. CASE SendRefused(ch)
    BY <1>8 DEF SendRefused, Goto, LocalInv, Busy, PCs
  <1>9. CASE SendPanics(ch)
    BY <1>9, ProcessEndsTypeInv DEF SendPanics
  <1>10. CASE BackoffElapsed(ch)
    BY <1>10 DEF BackoffElapsed, Goto, LocalInv, Busy, PCs
  <1>11. CASE BackoffCancelled(ch)
    BY <1>11 DEF BackoffCancelled, Goto, LocalInv, Busy, PCs
  <1>12. CASE MarkRow(ch)
    <2>1. logs' \in [Channels -> Seq(Rows)]
      BY <1>12, RowWritesType DEF MarkRow, Busy
    <2>2. LocalInv'
      BY <1>12, ReturnLocalInv DEF MarkRow
    <2> QED
      BY <1>12, <2>1, <2>2 DEF MarkRow, LocalInv
  <1>13. CASE MarkFails(ch)
    <2>1. logs' \in [Channels -> Seq(Rows)]
      BY <1>13, RowWritesType DEF MarkFails, Busy
    <2>2. LocalInv'
      BY <1>13, ReturnLocalInv DEF MarkFails
    <2>3. dbErrors' \in 0 .. MaxDBErrors
      BY <1>13 DEF MarkFails, DBError
    <2> QED
      BY <1>13, <2>1, <2>2, <2>3 DEF MarkFails, LocalInv
  <1> QED
    BY <1>1, <1>2, <1>3, <1>4, <1>5, <1>6, <1>7, <1>8, <1>9, <1>10, <1>11,
       <1>12, <1>13, <1>14 DEF Turn, Work

LEMMA NextTypeInv == TypeInv /\ [Next]_vars => TypeInv'
  <1> SUFFICES ASSUME TypeInv, [Next]_vars
               PROVE  TypeInv'
    OBVIOUS
  <1> USE DEF TypeInv, TypeOK, LocalInv, Busy, broker, reader, local, store
  <1>1. ASSUME NEW n \in Notifs, NEW p \in Partitions, Publish(n, p)
        PROVE  TypeInv'
    BY <1>1 DEF Publish
  <1>2. CASE Start
    <2>1. position' \in [Channels -> [Partitions -> Nat]]
      <3>1. \A ch \in Channels, p \in Partitions : StartOffset(ch, p) \in Nat
        BY DEF StartOffset, Offsets, NoOffset
      <3> QED
        BY <1>2, <3>1 DEF Start
    <2> QED
      BY <1>2, <2>1, ConstantsAssumption DEF Start, PCs
  <1>3. CASE Crash
    BY <1>3, ProcessEndsTypeInv DEF Crash
  <1>4. CASE Signal
    BY <1>4 DEF Signal
  <1>5. CASE CloseConsumers
    BY <1>5, ProcessEndsTypeInv DEF CloseConsumers
  <1>6. ASSUME NEW ch \in Channels, AutoCommit(ch)
        PROVE  TypeInv'
    BY <1>6 DEF AutoCommit
  <1>7. ASSUME NEW ch \in Channels, Turn(ch)
        PROVE  TypeInv'
    BY <1>7, TurnTypeInv
  <1>8. CASE UNCHANGED vars
    BY <1>8 DEF vars
  <1> QED
    BY <1>1, <1>2, <1>3, <1>4, <1>5, <1>6, <1>7, <1>8 DEF Next

\* The type invariant and the shape of a worker's locals always hold.
THEOREM AlwaysTypeInv == Spec => []TypeInv
  BY InitTypeInv, NextTypeInv, PTL DEF Spec

\* Every variable keeps its type, for any channels, messages, partitions,
\* attempt limit and failures (TypeOK, the type invariant of the runs).
THEOREM TypeCorrect == Spec => []TypeOK
  <1>1. TypeInv => TypeOK
    BY DEF TypeInv
  <1> QED
    BY <1>1, AlwaysTypeInv, PTL

-----------------------------------------------------------------------------
(* The books of one channel: its rows L and the sends B its provider        *)
(* accepted.  The four lemmas say what each write does to them.             *)

Books(L, B) ==
    /\ \A j \in DOMAIN B :
           /\ B[j].log \in DOMAIN L
           /\ L[B[j].log].notif = B[j].notif
           /\ L[B[j].log].status # "failed"
    /\ \A i \in DOMAIN L :
           L[i].status = "sent" => \E j \in DOMAIN B : B[j].log = i
    /\ \A i, j \in DOMAIN B : i < j => B[i].log < B[j].log
    /\ \A i, j \in DOMAIN B :
           i < j /\ B[i].notif = B[j].notif => L[B[i].log].status # "sent"

LEMMA BooksOfChannels ==
    /\ PersistBeforeSend
    /\ SentIsTrue
    /\ OneSendPerRow
    /\ RepeatOnlyIfUnmarked
    <=> \A ch \in Channels : Books(logs[ch], inbox[ch])
  BY DEF Books, PersistBeforeSend, SentIsTrue, OneSendPerRow,
         RepeatOnlyIfUnmarked

\* A new pending row leaves the books in order.
LEMMA BooksInsert ==
    ASSUME NEW L \in Seq(Rows), NEW B \in Seq(Accepted), Books(L, B),
           NEW r \in Rows, r.status = "pending"
    PROVE  Books(Append(L, r), B)
  <1> DEFINE M == Append(L, r)
  <1>1. /\ DOMAIN L = 1 .. Len(L)
        /\ DOMAIN M = 1 .. Len(L) + 1
        /\ \A i \in DOMAIN L : M[i] = L[i]
        /\ M[Len(L) + 1] = r
        /\ Len(L) \in Nat
    OBVIOUS
  <1> HIDE DEF M
  <1>2. Books(M, B)
    BY <1>1 DEF Books
  <1> QED
    BY <1>2 DEF M

\* An accepted send under the last row, for whose notification no row was
\* marked sent, leaves the books in order.
LEMMA BooksAccept ==
    ASSUME NEW L \in Seq(Rows), NEW B \in Seq(Accepted), Books(L, B),
           Len(L) > 0,
           L[Len(L)].status = "pending",
           \A j \in DOMAIN B : B[j].log < Len(L),
           \A i \in DOMAIN L :
               L[i].notif = L[Len(L)].notif => L[i].status # "sent"
    PROVE  Books(L, Append(B, [notif |-> L[Len(L)].notif, log |-> Len(L)]))
  <1> DEFINE n == Len(L)
             d == [notif |-> L[n].notif, log |-> n]
             C == Append(B, d)
             m == Len(B) + 1
  <1>1. /\ n \in Nat /\ n \in DOMAIN L
        /\ m \in Nat
        /\ DOMAIN B = 1 .. m - 1
        /\ DOMAIN C = 1 .. m
        /\ \A j \in DOMAIN B : C[j] = B[j]
        /\ C[m] = d
    OBVIOUS
  <1>2. d.notif = L[n].notif /\ d.log = n
    OBVIOUS
  <1>3. /\ L[n].status = "pending"
        /\ \A j \in DOMAIN B : B[j].log < n
        /\ \A i \in DOMAIN L : L[i].notif = L[n].notif => L[i].status # "sent"
    OBVIOUS
  <1> HIDE DEF n, m, d, C
  <1>4. \A j \in DOMAIN C : j = m \/ j \in DOMAIN B
    BY <1>1
  <1>5. \A i, j \in DOMAIN C : i < j => i \in DOMAIN B
    BY <1>1
  <1>6. \A j \in DOMAIN C :
           /\ C[j].log \in DOMAIN L
           /\ L[C[j].log].notif = C[j].notif
           /\ L[C[j].log].status # "failed"
    BY <1>1, <1>2, <1>3, <1>4 DEF Books
  <1>7. \A i \in DOMAIN L :
           L[i].status = "sent" => \E j \in DOMAIN C : C[j].log = i
    BY <1>1 DEF Books
  <1>8. \A i, j \in DOMAIN C : i < j => C[i].log < C[j].log
    BY <1>1, <1>2, <1>3, <1>4, <1>5 DEF Books
  <1>9. \A i, j \in DOMAIN C :
           i < j /\ C[i].notif = C[j].notif => L[C[i].log].status # "sent"
    BY <1>1, <1>2, <1>3, <1>4, <1>5 DEF Books
  <1>10. Books(L, C)
    BY <1>6, <1>7, <1>8, <1>9 DEF Books
  <1> QED
    BY <1>10 DEF C, d, n

\* Marking the last row sent, when a send was accepted under it, or failed,
\* when none was, leaves the books in order.
LEMMA BooksMark ==
    ASSUME NEW L \in Seq(Rows), NEW B \in Seq(Accepted), Books(L, B),
           Len(L) > 0,
           NEW v \in {"sent", "failed"},
           v = "sent" => \E j \in DOMAIN B : B[j].log = Len(L),
           v = "failed" => \A j \in DOMAIN B : B[j].log < Len(L)
    PROVE  Books([L EXCEPT ![Len(L)] =
                     [notif |-> L[Len(L)].notif, status |-> v]], B)
  <1> DEFINE n == Len(L)
             r == [notif |-> L[n].notif, status |-> v]
             M == [L EXCEPT ![n] = r]
  <1>1. /\ n \in Nat /\ n \in DOMAIN L
        /\ DOMAIN L = 1 .. n
        /\ DOMAIN M = DOMAIN L
        /\ \A i \in DOMAIN L : i # n => M[i] = L[i]
        /\ M[n] = r
    OBVIOUS
  <1>2. r.notif = L[n].notif /\ r.status = v
    OBVIOUS
  <1>3. /\ v = "sent" => \E j \in DOMAIN B : B[j].log = n
        /\ v = "failed" => \A j \in DOMAIN B : B[j].log < n
    OBVIOUS
  <1>4. \A j \in DOMAIN B : j \in Nat /\ B[j].log \in Nat
    <2> TAKE j \in DOMAIN B
    <2> DEFINE d == B[j]
    <2>1. d \in Accepted /\ j \in Nat
      OBVIOUS
    <2> HIDE DEF d
    <2>2. d.log \in Nat
      BY <2>1 DEF Accepted
    <2> QED
      BY <2>1, <2>2 DEF d
  <1> HIDE DEF n, r, M
  <1>5. ASSUME NEW j \in DOMAIN B
        PROVE  /\ B[j].log \in DOMAIN M
               /\ M[B[j].log].notif = B[j].notif
               /\ M[B[j].log].status # "failed"
    <2>1. /\ B[j].log \in DOMAIN L
          /\ L[B[j].log].notif = B[j].notif
          /\ L[B[j].log].status # "failed"
      BY DEF Books
    <2>2. CASE B[j].log = n
      <3>1. v # "failed"
        BY <1>1, <1>3, <2>2
      <3> QED
        BY <1>1, <1>2, <2>1, <2>2, <3>1
    <2>3. CASE B[j].log # n
      BY <1>1, <2>1, <2>3
    <2> QED
      BY <2>2, <2>3
  <1>6. \A i \in DOMAIN M :
           M[i].status = "sent" => \E j \in DOMAIN B : B[j].log = i
    BY <1>1, <1>2, <1>3 DEF Books
  <1>7. \A i, j \in DOMAIN B : i < j => B[i].log < n
    BY <1>1, <1>4 DEF Books
  <1>8. \A i, j \in DOMAIN B :
           i < j /\ B[i].notif = B[j].notif => M[B[i].log].status # "sent"
    BY <1>1, <1>4, <1>7 DEF Books
  <1>9. Books(M, B)
    BY <1>5, <1>6, <1>8 DEF Books
  <1> QED
    BY <1>9 DEF M, r, n

-----------------------------------------------------------------------------
(* The books and the turn of one channel: its worker is at p with the        *)
(* notification n.  BooksInv is TurnBooks of every channel.                  *)

HasRow == {"send", "backoff", "markSent", "markFailed"}

TurnBooks(L, B, p, n) ==
    /\ Books(L, B)
    /\ p \in HasRow =>
           Len(L) > 0 /\ L[Len(L)] = [notif |-> n, status |-> "pending"]
    /\ p \in HasRow \cup {"insert"} =>
           \A i \in DOMAIN L : L[i].notif = n => L[i].status # "sent"
    /\ p = "markSent" => \E j \in DOMAIN B : B[j].log = Len(L)
    /\ p \in HasRow \ {"markSent"} => \A j \in DOMAIN B : B[j].log < Len(L)

LEMMA BooksInvOfChannels ==
    BooksInv <=> \A ch \in Channels :
                     TurnBooks(logs[ch], inbox[ch], pc[ch], msg[ch])
  <1>1. BooksInv <=>
          /\ \A ch \in Channels : Books(logs[ch], inbox[ch])
          /\ OpenRowIsPending
          /\ NoSentRowDuringTurn
          /\ AcceptedUnderOpenRow
    BY BooksOfChannels DEF BooksInv
  <1>2. \A ch \in Channels : RowOpen(ch) <=> pc[ch] \in HasRow
    BY DEF RowOpen, HasRow
  <1> QED
    BY <1>1, <1>2
    DEF TurnBooks, HasRow, OpenRowIsPending, NoSentRowDuringTurn,
        AcceptedUnderOpenRow, PendingRow

\* The same of the next state.
LEMMA NextBooksOfChannels ==
    ASSUME \A ch \in Channels :
               TurnBooks(logs'[ch], inbox'[ch], pc'[ch], msg'[ch])
    PROVE  BooksInv'
  <1>1. (BooksInv <=> \A ch \in Channels :
             TurnBooks(logs[ch], inbox[ch], pc[ch], msg[ch]))'
    BY BooksInvOfChannels, PTL
  <1> QED
    BY <1>1

\* A turn that ends, or has yet to look at its message, asks nothing of the
\* books but their own order.
LEMMA TurnIdle ==
    ASSUME NEW L, NEW B, NEW p, NEW n, TurnBooks(L, B, p, n),
           NEW q \in {"read", "check", "stopped"}, NEW m
    PROVE  TurnBooks(L, B, q, m)
  BY DEF TurnBooks, HasRow

\* A turn that found no sent row may insert one.
LEMMA TurnCheck ==
    ASSUME NEW L, NEW B, NEW p, NEW n, TurnBooks(L, B, p, n), NEW m,
           \A i \in DOMAIN L : L[i].notif = m => L[i].status # "sent"
    PROVE  TurnBooks(L, B, "insert", m)
  BY DEF TurnBooks, HasRow

\* Refusals and waits leave the row of the turn open and unsent.
LEMMA TurnRetry ==
    ASSUME NEW L, NEW B, NEW n,
           NEW p \in {"send", "backoff"}, TurnBooks(L, B, p, n),
           NEW q \in {"send", "backoff", "markFailed"}
    PROVE  TurnBooks(L, B, q, n)
  BY DEF TurnBooks, HasRow

\* The pending row of the turn: the send may be made, or the turn ends.
LEMMA TurnInsert ==
    ASSUME NEW L \in Seq(Rows), NEW B \in Seq(Accepted), NEW n \in Notifs,
           TurnBooks(L, B, "insert", n)
    PROVE  LET M == Append(L, [notif |-> n, status |-> "pending"])
           IN  /\ TurnBooks(M, B, "send", n)
               /\ \A m : TurnBooks(M, B, "read", m)
  <1> DEFINE r == [notif |-> n, status |-> "pending"]
             M == Append(L, r)
             k == Len(L)
  <1>1. r \in Rows /\ r.status = "pending"
    BY DEF Rows, Statuses
  <1>2. /\ k \in Nat
        /\ Len(M) = k + 1
        /\ DOMAIN L = 1 .. k
        /\ DOMAIN M = 1 .. k + 1
        /\ \A i \in DOMAIN L : M[i] = L[i]
        /\ M[k + 1] = r
    OBVIOUS
  <1> HIDE DEF r
  <1>3. Books(L, B)
    BY DEF TurnBooks
  <1>4. Books(M, B)
    BY <1>1, <1>3, BooksInsert
  <1>5. \A i \in DOMAIN M : M[i].notif = n => M[i].status # "sent"
    <2>1. \A i \in DOMAIN L : L[i].notif = n => L[i].status # "sent"
      BY DEF TurnBooks
    <2> HIDE DEF M, k
    <2> QED
      BY <1>1, <1>2, <2>1
  <1>6. \A j \in DOMAIN B : B[j].log < Len(M)
    <2> TAKE j \in DOMAIN B
    <2>1. B[j].log \in DOMAIN L
      BY <1>3 DEF Books
    <2> HIDE DEF M, k
    <2> QED
      BY <1>2, <2>1
  <1>7. Len(M) > 0 /\ M[Len(M)] = r
    <2> HIDE DEF M, k
    <2> QED
      BY <1>2
  <1> HIDE DEF M
  <1>8. TurnBooks(M, B, "send", n)
    BY <1>4, <1>5, <1>6, <1>7 DEF TurnBooks, HasRow, r
  <1>9. \A m : TurnBooks(M, B, "read", m)
    BY <1>4 DEF TurnBooks, HasRow
  <1> QED
    BY <1>8, <1>9 DEF M, r

\* A send the provider accepts is the one of the turn's row.
LEMMA TurnAccept ==
    ASSUME NEW L \in Seq(Rows), NEW B \in Seq(Accepted), NEW n \in Notifs,
           TurnBooks(L, B, "send", n)
    PROVE  TurnBooks(L, Append(B, [notif |-> n, log |-> Len(L)]), "markSent", n)
  <1> DEFINE d == [notif |-> n, log |-> Len(L)]
             C == Append(B, d)
  <1>1. /\ Books(L, B)
        /\ Len(L) > 0
        /\ L[Len(L)] = [notif |-> n, status |-> "pending"]
        /\ \A j \in DOMAIN B : B[j].log < Len(L)
        /\ \A i \in DOMAIN L : L[i].notif = n => L[i].status # "sent"
    BY DEF TurnBooks, HasRow
  <1>2. L[Len(L)].notif = n /\ L[Len(L)].status = "pending"
    BY <1>1
  <1>3. Books(L, C)
    BY <1>1, <1>2, BooksAccept
  <1>4. \E j \in DOMAIN C : C[j].log = Len(L)
    <2>1. Len(B) + 1 \in DOMAIN C /\ C[Len(B) + 1] = d
      OBVIOUS
    <2>2. d.log = Len(L)
      OBVIOUS
    <2> HIDE DEF d, C
    <2> QED
      BY <2>1, <2>2
  <1> HIDE DEF d, C
  <1>5. TurnBooks(L, C, "markSent", n)
    BY <1>1, <1>3, <1>4 DEF TurnBooks, HasRow
  <1> QED
    BY <1>5 DEF C, d

\* The final status of the turn's row.
LEMMA TurnMark ==
    ASSUME NEW L \in Seq(Rows), NEW B \in Seq(Accepted), NEW n, NEW m,
           NEW p \in {"markSent", "markFailed"}, TurnBooks(L, B, p, n)
    PROVE  TurnBooks([L EXCEPT ![Len(L)] =
                         [notif |-> L[Len(L)].notif,
                          status |-> IF p = "markSent" THEN "sent"
                                                       ELSE "failed"]],
                     B, "read", m)
  <1> DEFINE v == IF p = "markSent" THEN "sent" ELSE "failed"
             M == [L EXCEPT ![Len(L)] = [notif |-> L[Len(L)].notif, status |-> v]]
  <1>1. /\ Books(L, B)
        /\ Len(L) > 0
        /\ v \in {"sent", "failed"}
        /\ v = "sent" => \E j \in DOMAIN B : B[j].log = Len(L)
        /\ v = "failed" => \A j \in DOMAIN B : B[j].log < Len(L)
    BY DEF TurnBooks, HasRow
  <1> HIDE DEF v
  <1>2. Books(M, B)
    BY <1>1, BooksMark
  <1> HIDE DEF M
  <1>3. TurnBooks(M, B, "read", m)
    BY <1>2 DEF TurnBooks, HasRow
  <1> QED
    BY <1>3 DEF M, v

-----------------------------------------------------------------------------
(* BooksInv is inductive.                                                  *)

\* A step that touches the rows, the sends and the turn of one channel only
\* keeps BooksInv when it keeps that channel's books.
LEMMA OneChannel ==
    ASSUME TypeInv, BooksInv, NEW ch \in Channels,
           \A c \in Channels \ {ch} :
               /\ logs'[c] = logs[c]
               /\ inbox'[c] = inbox[c]
               /\ pc'[c] = pc[c]
               /\ msg'[c] = msg[c],
           TurnBooks(logs'[ch], inbox'[ch], pc'[ch], msg'[ch])
    PROVE  BooksInv'
  <1>1. \A c \in Channels : TurnBooks(logs[c], inbox[c], pc[c], msg[c])
    BY BooksInvOfChannels
  <1>2. ASSUME NEW c \in Channels
        PROVE  TurnBooks(logs'[c], inbox'[c], pc'[c], msg'[c])
    BY <1>1
  <1> QED
    BY <1>2, NextBooksOfChannels

LEMMA InitBooksInv == Init => BooksInv
  BY DEF Init, BooksInv, PersistBeforeSend, SentIsTrue, OneSendPerRow,
         RepeatOnlyIfUnmarked, OpenRowIsPending, NoSentRowDuringTurn,
         AcceptedUnderOpenRow, RowOpen

\* When the process ends the books are closed as they are.
LEMMA ProcessEndsBooks ==
    ASSUME BooksInv, ProcessEnds
    PROVE  BooksInv'
  <1>1. \A ch \in Channels : TurnBooks(logs[ch], inbox[ch], pc[ch], msg[ch])
    BY BooksInvOfChannels
  <1>2. ASSUME NEW ch \in Channels
        PROVE  TurnBooks(logs'[ch], inbox'[ch], pc'[ch], msg'[ch])
    <2>1. TurnBooks(logs[ch], inbox[ch], "stopped", NoMsg)
      BY <1>1, TurnIdle
    <2> QED
      BY <2>1 DEF ProcessEnds, store
  <1> QED
    BY <1>2, NextBooksOfChannels

\* The books of the channels that do not take the step are left alone.
LEMMA OthersUnchanged ==
    ASSUME TypeInv, NEW ch \in Channels,
           \/ UNCHANGED <<logs, inbox>>
           \/ InsertRow(ch) /\ UNCHANGED inbox
           \/ UpdateRow(ch) /\ UNCHANGED inbox
           \/ /\ \E d : inbox' = [inbox EXCEPT ![ch] = Append(@, d)]
              /\ UNCHANGED logs,
           \/ UNCHANGED <<pc, msg>>
           \/ (\E q : Goto(ch, q)) /\ UNCHANGED msg
           \/ (\E q : Goto(ch, q)) /\ \E m : msg' = [msg EXCEPT ![ch] = m]
    PROVE  \A c \in Channels \ {ch} :
               /\ logs'[c] = logs[c]
               /\ inbox'[c] = inbox[c]
               /\ pc'[c] = pc[c]
               /\ msg'[c] = msg[c]
  BY DEF TypeInv, TypeOK, InsertRow, UpdateRow, Goto

\* Where a turn that returns leaves the worker.
LEMMA ReturnTo ==
    ASSUME TypeInv, NEW ch \in Channels, Return(ch)
    PROVE  pc'[ch] = "read" /\ msg'[ch] = NoMsg
  BY DEF TypeInv, TypeOK, Return, Goto

\* Inserting the row of a turn, whether or not the worker hears of it.
LEMMA InsertBooks ==
    ASSUME TypeInv, BooksInv, NEW ch \in Channels, pc[ch] = "insert",
           InsertRow(ch), UNCHANGED inbox,
           \/ Goto(ch, "send") /\ UNCHANGED msg
           \/ Return(ch)
    PROVE  BooksInv'
  <1> DEFINE M == Append(logs[ch], [notif |-> msg[ch], status |-> "pending"])
  <1>1. /\ logs[ch] \in Seq(Rows) /\ inbox[ch] \in Seq(Accepted)
        /\ msg[ch] \in Notifs
    BY DEF TypeInv, TypeOK, LocalInv, Busy
  <1>2. TurnBooks(logs[ch], inbox[ch], "insert", msg[ch])
    BY BooksInvOfChannels
  <1>3. /\ TurnBooks(M, inbox[ch], "send", msg[ch])
        /\ TurnBooks(M, inbox[ch], "read", NoMsg)
    BY <1>1, <1>2, TurnInsert
  <1>4. logs'[ch] = M
    BY DEF InsertRow, PendingRow, TypeInv, TypeOK
  <1>5. inbox'[ch] = inbox[ch]
    OBVIOUS
  <1> HIDE DEF M
  <1>6. TurnBooks(logs'[ch], inbox'[ch], pc'[ch], msg'[ch])
    <2>1. CASE Goto(ch, "send") /\ UNCHANGED msg
      <3>1. pc'[ch] = "send" /\ msg'[ch] = msg[ch]
        BY <2>1 DEF Goto, TypeInv, TypeOK
      <3> QED
        BY <1>3, <1>4, <1>5, <3>1
    <2>2. CASE Return(ch)
      <3>1. pc'[ch] = "read" /\ msg'[ch] = NoMsg
        BY <2>2, ReturnTo
      <3> QED
        BY <1>3, <1>4, <1>5, <3>1
    <2> QED
      BY <2>1, <2>2
  <1>7. \/ (\E q : Goto(ch, q)) /\ UNCHANGED msg
        \/ (\E q : Goto(ch, q)) /\ \E m : msg' = [msg EXCEPT ![ch] = m]
    BY DEF Return
  <1>8. \A c \in Channels \ {ch} :
            /\ logs'[c] = logs[c]
            /\ inbox'[c] = inbox[c]
            /\ pc'[c] = pc[c]
            /\ msg'[c] = msg[c]
    BY <1>7, OthersUnchanged
  <1> QED
    BY <1>6, <1>8, OneChannel

\* Writing the final status of a turn, whether or not the worker hears of it.
LEMMA UpdateBooks ==
    ASSUME TypeInv, BooksInv, NEW ch \in Channels,
           pc[ch] \in {"markSent", "markFailed"},
           UpdateRow(ch), UNCHANGED inbox, Return(ch)
    PROVE  BooksInv'
  <1> DEFINE L == logs[ch]
             M == [L EXCEPT ![Len(L)] =
                      [notif |-> L[Len(L)].notif,
                       status |-> IF pc[ch] = "markSent" THEN "sent"
                                                         ELSE "failed"]]
  <1>1. L \in Seq(Rows) /\ inbox[ch] \in Seq(Accepted)
    BY DEF TypeInv, TypeOK
  <1>2. TurnBooks(L, inbox[ch], pc[ch], msg[ch])
    BY BooksInvOfChannels
  <1>3. TurnBooks(M, inbox[ch], "read", NoMsg)
    BY <1>1, <1>2, TurnMark
  <1>4. logs'[ch] = M
    BY DEF UpdateRow, Verdict, TypeInv, TypeOK
  <1>5. inbox'[ch] = inbox[ch]
    OBVIOUS
  <1>6. pc'[ch] = "read" /\ msg'[ch] = NoMsg
    BY ReturnTo
  <1> HIDE DEF M
  <1>7. TurnBooks(logs'[ch], inbox'[ch], pc'[ch], msg'[ch])
    BY <1>3, <1>4, <1>5, <1>6
  <1>8. (\E q : Goto(ch, q)) /\ \E m : msg' = [msg EXCEPT ![ch] = m]
    BY DEF Return
  <1>9. \A c \in Channels \ {ch} :
            /\ logs'[c] = logs[c]
            /\ inbox'[c] = inbox[c]
            /\ pc'[c] = pc[c]
            /\ msg'[c] = msg[c]
    BY <1>8, OthersUnchanged
  <1> QED
    BY <1>7, <1>9, OneChannel

\* A turn that moves, or returns, without touching rows or sends.
LEMMA QuietBooks ==
    ASSUME TypeInv, BooksInv, NEW ch \in Channels, UNCHANGED <<logs, inbox>>,
           NEW q, Goto(ch, q), NEW m, msg' = [msg EXCEPT ![ch] = m],
           TurnBooks(logs[ch], inbox[ch], q, m)
    PROVE  BooksInv'
  <1>1. pc'[ch] = q /\ msg'[ch] = m
    BY DEF Goto, TypeInv, TypeOK
  <1>2. TurnBooks(logs'[ch], inbox'[ch], pc'[ch], msg'[ch])
    BY <1>1
  <1>3. \A c \in Channels \ {ch} :
            /\ logs'[c] = logs[c]
            /\ inbox'[c] = inbox[c]
            /\ pc'[c] = pc[c]
            /\ msg'[c] = msg[c]
    BY OthersUnchanged
  <1> QED
    BY <1>2, <1>3, OneChannel

\* The same when process() keeps its notification.
LEMMA MoveBooks ==
    ASSUME TypeInv, BooksInv, NEW ch \in Channels, UNCHANGED <<logs, inbox, msg>>,
           NEW q, Goto(ch, q), TurnBooks(logs[ch], inbox[ch], q, msg[ch])
    PROVE  BooksInv'
  <1>1. msg' = [msg EXCEPT ![ch] = msg[ch]]
    BY DEF TypeInv, TypeOK
  <1> QED
    BY <1>1, QuietBooks

\* Returning without touching rows or sends.
LEMMA ReturnBooks ==
    ASSUME TypeInv, BooksInv, NEW ch \in Channels, UNCHANGED <<logs, inbox>>,
           Return(ch)
    PROVE  BooksInv'
  <1>1. TurnBooks(logs[ch], inbox[ch], "read", NoMsg)
    BY BooksInvOfChannels, TurnIdle
  <1> QED
    BY <1>1, QuietBooks DEF Return

\* The idempotency check: a turn goes on only if no row was marked sent.
LEMMA CheckBooks ==
    ASSUME TypeInv, BooksInv, NEW ch \in Channels, CheckSent(ch)
    PROVE  BooksInv'
  <1>1. UNCHANGED <<logs, inbox>>
    BY DEF CheckSent, store
  <1>2. CASE Return(ch)
    BY <1>1, <1>2, ReturnBooks
  <1>3. CASE ~ExistsSent(msg[ch]) /\ Goto(ch, "insert") /\ UNCHANGED msg
    <2>1. \A i \in DOMAIN logs[ch] :
              logs[ch][i].notif = msg[ch] => logs[ch][i].status # "sent"
      BY <1>3 DEF ExistsSent
    <2>2. TurnBooks(logs[ch], inbox[ch], "insert", msg[ch])
      BY <2>1, BooksInvOfChannels, TurnCheck
    <2> QED
      BY <1>1, <1>3, <2>2, MoveBooks
  <1> QED
    BY <1>2, <1>3 DEF CheckSent

\* The provider accepts the send of a turn.
LEMMA AcceptBooks ==
    ASSUME TypeInv, BooksInv, NEW ch \in Channels, SendAccepted(ch)
    PROVE  BooksInv'
  <1> DEFINE C == Append(inbox[ch], [notif |-> msg[ch], log |-> Len(logs[ch])])
  <1>1. /\ logs[ch] \in Seq(Rows) /\ inbox[ch] \in Seq(Accepted)
        /\ msg[ch] \in Notifs
    BY DEF SendAccepted, TypeInv, TypeOK, LocalInv, Busy
  <1>2. TurnBooks(logs[ch], inbox[ch], "send", msg[ch])
    BY BooksInvOfChannels DEF SendAccepted
  <1>3. TurnBooks(logs[ch], C, "markSent", msg[ch])
    BY <1>1, <1>2, TurnAccept
  <1>4. /\ inbox'[ch] = C /\ logs'[ch] = logs[ch]
        /\ pc'[ch] = "markSent" /\ msg'[ch] = msg[ch]
    BY DEF SendAccepted, Goto, TypeInv, TypeOK
  <1> HIDE DEF C
  <1>5. TurnBooks(logs'[ch], inbox'[ch], pc'[ch], msg'[ch])
    BY <1>3, <1>4
  <1>6. /\ \E d : inbox' = [inbox EXCEPT ![ch] = Append(@, d)]
        /\ Goto(ch, "markSent")
        /\ UNCHANGED <<logs, msg>>
    BY DEF SendAccepted
  <1>7. \A c \in Channels \ {ch} :
            /\ logs'[c] = logs[c]
            /\ inbox'[c] = inbox[c]
            /\ pc'[c] = pc[c]
            /\ msg'[c] = msg[c]
    BY <1>6, OthersUnchanged
  <1> QED
    BY <1>5, <1>7, OneChannel

\* One turn of one worker preserves the books.
LEMMA TurnBooksInv ==
    ASSUME TypeInv, BooksInv, NEW ch \in Channels, Turn(ch)
    PROVE  BooksInv'
  <1>0. TurnBooks(logs[ch], inbox[ch], pc[ch], msg[ch])
    BY BooksInvOfChannels
  <1>1. ASSUME NEW p \in Partitions, ReadOne(ch, p)
        PROVE  BooksInv'
    <2>1. TurnBooks(logs[ch], inbox[ch], "check", topic[p][position[ch][p] + 1])
      BY <1>0, TurnIdle
    <2> QED
      BY <1>1, <2>1, QuietBooks DEF ReadOne, store
  <1>2. CASE RunReturns(ch)
    <2>1. TurnBooks(logs[ch], inbox[ch], "stopped", msg[ch])
      BY <1>0, TurnIdle
    <2> QED
      BY <1>2, <2>1, MoveBooks DEF RunReturns, store
  <1>14. CASE ReadTimesOut(ch)
    <2>1. TurnBooks(logs[ch], inbox[ch], "stopped", msg[ch])
      BY <1>0, TurnIdle
    <2> QED
      BY <1>14, <2>1, MoveBooks DEF ReadTimesOut, store
  <1>3. CASE CheckSent(ch)
    BY <1>3, CheckBooks
  <1>4. CASE CheckFails(ch)
    BY <1>4, ReturnBooks DEF CheckFails, store
  <1>5. CASE InsertLog(ch)
    BY <1>5, InsertBooks DEF InsertLog
  <1>6. CASE InsertFails(ch)
    <2>1. CASE InsertRow(ch)
      BY <1>6, <2>1, InsertBooks DEF InsertFails
    <2>2. CASE UNCHANGED logs
      BY <1>6, <2>2, ReturnBooks DEF InsertFails
    <2> QED
      BY <1>6, <2>1, <2>2 DEF InsertFails
  <1>7. CASE SendAccepted(ch)
    BY <1>7, AcceptBooks
  <1>8. CASE SendRefused(ch)
    <2>1. PICK q \in {"backoff", "markFailed"} : Goto(ch, q)
      BY <1>8 DEF SendRefused
    <2>2. TurnBooks(logs[ch], inbox[ch], q, msg[ch])
      BY <1>0, <1>8, TurnRetry DEF SendRefused
    <2> QED
      BY <1>8, <2>1, <2>2, MoveBooks DEF SendRefused, store
  <1>9. CASE SendPanics(ch)
    BY <1>9, ProcessEndsBooks DEF SendPanics
  <1>10. CASE BackoffElapsed(ch)
    <2>1. TurnBooks(logs[ch], inbox[ch], "send", msg[ch])
      BY <1>0, <1>10, TurnRetry DEF BackoffElapsed
    <2> QED
      BY <1>10, <2>1, MoveBooks DEF BackoffElapsed, store
  <1>11. CASE BackoffCancelled(ch)
    <2>1. TurnBooks(logs[ch], inbox[ch], "markFailed", msg[ch])
      BY <1>0, <1>11, TurnRetry DEF BackoffCancelled
    <2> QED
      BY <1>11, <2>1, MoveBooks DEF BackoffCancelled, store
  <1>12. CASE MarkRow(ch)
    BY <1>12, UpdateBooks DEF MarkRow
  <1>13. CASE MarkFails(ch)
    <2>1. CASE UpdateRow(ch)
      BY <1>13, <2>1, UpdateBooks DEF MarkFails
    <2>2. CASE UNCHANGED logs
      BY <1>13, <2>2, ReturnBooks DEF MarkFails
    <2> QED
      BY <1>13, <2>1, <2>2 DEF MarkFails
  <1> QED
    BY <1>1, <1>2, <1>3, <1>4, <1>5, <1>6, <1>7, <1>8, <1>9, <1>10, <1>11,
       <1>12, <1>13, <1>14 DEF Turn, Work

LEMMA NextBooksInv == TypeInv /\ BooksInv /\ [Next]_vars => BooksInv'
  <1> SUFFICES ASSUME TypeInv, BooksInv, [Next]_vars
               PROVE  BooksInv'
    OBVIOUS
  <1>1. ASSUME UNCHANGED <<logs, inbox>>, UNCHANGED <<pc, msg>>
        PROVE  BooksInv'
    BY <1>1, BooksInvOfChannels, NextBooksOfChannels
  <1>2. ASSUME NEW n \in Notifs, NEW p \in Partitions, Publish(n, p)
        PROVE  BooksInv'
    BY <1>1, <1>2 DEF Publish, local, store
  <1>3. CASE Start
    <2>1. \A ch \in Channels :
              TurnBooks(logs[ch], inbox[ch], "read", msg[ch])
      BY BooksInvOfChannels, TurnIdle
    <2> QED
      BY <1>3, <2>1, NextBooksOfChannels DEF Start, store
  <1>4. CASE Crash
    BY <1>4, ProcessEndsBooks DEF Crash
  <1>5. CASE Signal
    BY <1>1, <1>5 DEF Signal, local, store
  <1>6. CASE CloseConsumers
    BY <1>6, ProcessEndsBooks DEF CloseConsumers
  <1>7. ASSUME NEW ch \in Channels, AutoCommit(ch)
        PROVE  BooksInv'
    BY <1>1, <1>7 DEF AutoCommit, local, store
  <1>8. ASSUME NEW ch \in Channels, Turn(ch)
        PROVE  BooksInv'
    BY <1>8, TurnBooksInv
  <1>9. CASE UNCHANGED vars
    BY <1>1, <1>9 DEF vars, local, store
  <1> QED
    BY <1>2, <1>3, <1>4, <1>5, <1>6, <1>7, <1>8, <1>9 DEF Next

\* The books of the store and the turns under way agree, always.
THEOREM BooksAlwaysInOrder == Spec => []BooksInv
  BY AlwaysTypeInv, InitBooksInv, NextBooksInv, PTL DEF Spec

\* worker.process persists before it sends: no crash, panic or failed call
\* leaves an accepted send without its row, or with a row marked failed.
THEOREM SendsArePersisted == Spec => []PersistBeforeSend
  <1>1. BooksInv => PersistBeforeSend
    BY DEF BooksInv
  <1> QED
    BY <1>1, BooksAlwaysInOrder, PTL

\* A row is marked sent only for a send the provider accepted under it.
THEOREM SentRowsAreTrue == Spec => []SentIsTrue
  <1>1. BooksInv => SentIsTrue
    BY DEF BooksInv
  <1> QED
    BY <1>1, BooksAlwaysInOrder, PTL

\* No turn sends twice: each row covers at most one accepted send, and the
\* sends come in the order of their rows.
THEOREM AtMostOneSendPerRow == Spec => []OneSendPerRow
  <1>1. BooksInv => OneSendPerRow
    BY DEF BooksInv
  <1> QED
    BY <1>1, BooksAlwaysInOrder, PTL

\* The idempotency check: a notification is accepted again only after a send
\* whose row was never marked sent.
THEOREM RepeatsAreUnmarked == Spec => []RepeatOnlyIfUnmarked
  <1>1. BooksInv => RepeatOnlyIfUnmarked
    BY DEF BooksInv
  <1> QED
    BY <1>1, BooksAlwaysInOrder, PTL
=============================================================================
