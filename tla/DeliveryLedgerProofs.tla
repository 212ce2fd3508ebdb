------------------------- MODULE DeliveryLedgerProofs -------------------------
(* The delivery workers implement DeliveryLedger, for every value of their  *)
(* constants: each of their steps is a step of the ledgers or a stutter.    *)
EXTENDS DeliveryWorkerProofs

\* A function that agrees with another but for one argument.
LEMMA ExceptOne ==
    ASSUME NEW S, NEW f, NEW g, NEW c \in S, NEW v,
           f = [x \in S |-> f[x]], g = [x \in S |-> g[x]],
           g[c] = v, \A x \in S \ {c} : g[x] = f[x]
    PROVE  g = [f EXCEPT ![c] = v]
  OBVIOUS

-----------------------------------------------------------------------------
(* The ledger of one channel, as a view of its rows L and sends B.          *)

Under(B, i) == \E j \in DOMAIN B : B[j].log = i
Entry(L, B, i) ==
    [notif |-> L[i].notif, status |-> L[i].status, accepted |-> Under(B, i)]
View(L, B) == [i \in DOMAIN L |-> Entry(L, B, i)]

\* It is a sequence, as long as the rows.
LEMMA ViewIsSeq ==
    ASSUME NEW L \in Seq(Rows), NEW B
    PROVE  /\ Len(View(L, B)) = Len(L)
           /\ DOMAIN View(L, B) = 1 .. Len(L)
           /\ View(L, B) \in Seq({Entry(L, B, i) : i \in DOMAIN L})
           /\ \A i \in DOMAIN L : View(L, B)[i] = Entry(L, B, i)
  <1> DEFINE n == Len(L)
             S == {Entry(L, B, i) : i \in DOMAIN L}
             V == View(L, B)
  <1>1. n \in Nat /\ DOMAIN L = 1 .. n
    OBVIOUS
  <1>2. \A i \in DOMAIN L : Entry(L, B, i) \in S
    OBVIOUS
  <1>3. V = [i \in 1 .. n |-> Entry(L, B, i)]
    BY <1>1 DEF View
  <1> HIDE DEF n, S, V
  <1>4. V \in [1 .. n -> S]
    BY <1>1, <1>2, <1>3
  <1>5. V \in Seq(S) /\ Len(V) = n /\ DOMAIN V = 1 .. n
    BY <1>1, <1>4
  <1> QED
    BY <1>1, <1>3, <1>5 DEF n, S, V

\* An entry has the notification and the status of its row.
LEMMA ViewFields ==
    ASSUME NEW L \in Seq(Rows), NEW B, NEW i \in DOMAIN L
    PROVE  /\ View(L, B)[i].notif = L[i].notif
           /\ View(L, B)[i].status = L[i].status
  <1>1. View(L, B)[i] = Entry(L, B, i)
    BY ViewIsSeq
  <1> QED
    BY <1>1 DEF Entry

\* A sequence one longer than another that begins with it.
LEMMA ExtendsByOne ==
    ASSUME NEW S, NEW T, NEW s \in Seq(S), NEW t \in Seq(T), NEW e,
           Len(t) = Len(s) + 1,
           \A i \in 1 .. Len(s) : t[i] = s[i],
           t[Len(s) + 1] = e
    PROVE  t = Append(s, e)
  OBVIOUS

\* A new pending row, under which nothing was sent yet, is a new entry.
LEMMA ViewInsert ==
    ASSUME NEW L \in Seq(Rows), NEW B, Books(L, B), NEW r \in Rows
    PROVE  View(Append(L, r), B) =
           Append(View(L, B), [notif |-> r.notif, status |-> r.status,
                               accepted |-> FALSE])
  <1> DEFINE n == Len(L)
             M == Append(L, r)
             V == View(L, B)
             W == View(M, B)
             e == [notif |-> r.notif, status |-> r.status, accepted |-> FALSE]
  <1>1. /\ n \in Nat /\ M \in Seq(Rows)
        /\ DOMAIN L = 1 .. n /\ DOMAIN M = 1 .. n + 1
        /\ \A i \in 1 .. n : M[i] = L[i]
        /\ M[n + 1] = r
        /\ Len(M) = n + 1
    OBVIOUS
  <1>2. Under(B, n + 1) = FALSE
    <2>1. \A j \in DOMAIN B : B[j].log \in 1 .. n
      BY <1>1 DEF Books
    <2>2. ~Under(B, n + 1)
      BY <1>1, <2>1 DEF Under
    <2> QED
      BY <2>2 DEF Under
  <1>3. /\ V \in Seq({Entry(L, B, i) : i \in DOMAIN L}) /\ Len(V) = n
        /\ \A i \in 1 .. n : V[i] = Entry(L, B, i)
    BY <1>1, ViewIsSeq
  <1> HIDE DEF M
  <1>4. /\ W \in Seq({Entry(M, B, i) : i \in DOMAIN M}) /\ Len(W) = n + 1
        /\ \A i \in 1 .. n + 1 : W[i] = Entry(M, B, i)
    BY <1>1, ViewIsSeq
  <1> HIDE DEF n, V, W
  <1>5. \A i \in 1 .. n : W[i] = V[i]
    <2> TAKE i \in 1 .. n
    <2>1. i \in 1 .. n + 1
      BY <1>1
    <2> QED
      BY <1>1, <1>3, <1>4, <2>1 DEF Entry
  <1>6. W[n + 1] = e
    <2>1. n + 1 \in 1 .. n + 1
      BY <1>1
    <2> QED
      BY <1>1, <1>2, <1>4, <2>1 DEF Entry
  <1> HIDE DEF e
  <1>7. W = Append(V, e)
    BY <1>3, <1>4, <1>5, <1>6, ExtendsByOne
  <1> QED
    BY <1>7 DEF M, V, W, e, n

\* Replacing the last field of an entry.
LEMMA AcceptEntry ==
    ASSUME NEW a, NEW b, NEW u, NEW v, NEW t,
           v = [notif |-> a, status |-> b, accepted |-> u]
    PROVE  [v EXCEPT !.accepted = t] =
           [notif |-> a, status |-> b, accepted |-> t]
  OBVIOUS

\* A send accepted under the last row is taken down in the last entry.
LEMMA ViewAccept ==
    ASSUME NEW L \in Seq(Rows), NEW B \in Seq(Accepted), Len(L) > 0,
           NEW d, d.log = Len(L)
    PROVE  View(L, Append(B, d)) =
           [View(L, B) EXCEPT ![Len(L)] = [View(L, B)[Len(L)] EXCEPT
                                              !.accepted = TRUE]]
  <1> DEFINE n == Len(L)
             m == Len(B) + 1
             C == Append(B, d)
             V == View(L, B)
             W == View(L, C)
             yes == TRUE
             e == [V[n] EXCEPT !.accepted = yes]
  <1>1. /\ n \in DOMAIN L
        /\ m \in Nat \ {0} /\ DOMAIN B = 1 .. m - 1 /\ DOMAIN C = 1 .. m
        /\ \A j \in DOMAIN B : C[j] = B[j]
        /\ C[m] = d
    OBVIOUS
  <1>0. d.log = n
    OBVIOUS
  <1> HIDE DEF n, m, C
  <1>2. Under(C, n) = yes
    <2>1. m \in DOMAIN C
      BY <1>1
    <2>2. Under(C, n)
      BY <1>0, <1>1, <2>1 DEF Under
    <2> QED
      BY <2>2 DEF Under
  <1> HIDE DEF yes
  <1>3. ASSUME NEW i \in DOMAIN L \ {n}
        PROVE  Under(C, i) = Under(B, i)
    <2>1. \A j \in DOMAIN C : j = m \/ j \in DOMAIN B
      BY <1>1
    <2>2. \A j \in DOMAIN B : j \in DOMAIN C
      BY <1>1
    <2>3. Under(C, i) <=> Under(B, i)
      BY <1>0, <1>1, <2>1, <2>2 DEF Under
    <2> QED
      BY <2>3 DEF Under
  <1>4. /\ V = [i \in DOMAIN L |-> V[i]] /\ W = [i \in DOMAIN L |-> W[i]]
        /\ \A i \in DOMAIN L : V[i] = Entry(L, B, i) /\ W[i] = Entry(L, C, i)
    BY DEF View
  <1>5. ASSUME NEW i \in DOMAIN L \ {n}
        PROVE  W[i] = V[i]
    <2>1. V[i] = Entry(L, B, i) /\ W[i] = Entry(L, C, i)
      BY <1>4
    <2>2. Under(C, i) = Under(B, i)
      BY <1>3
    <2> HIDE DEF V, W
    <2> QED
      BY <2>1, <2>2 DEF Entry
  <1>6. W[n] = e
    <2>1. W[n] = [notif |-> L[n].notif, status |-> L[n].status, accepted |-> yes]
      BY <1>1, <1>2, <1>4 DEF Entry
    <2>2. V[n] = [notif |-> L[n].notif, status |-> L[n].status,
                  accepted |-> Under(B, n)]
      BY <1>1, <1>4 DEF Entry
    <2>3. e = [notif |-> L[n].notif, status |-> L[n].status, accepted |-> yes]
      BY <2>2, AcceptEntry
    <2> QED
      BY <2>1, <2>3
  <1> HIDE DEF V, W, e
  <1>7. W = [V EXCEPT ![n] = e]
    BY <1>1, <1>4, <1>5, <1>6, ExceptOne
  <1> QED
    BY <1>7 DEF V, W, e, n, C, yes

\* The final status of the last row is that of the last entry.
LEMMA ViewMark ==
    ASSUME NEW L \in Seq(Rows), NEW B, Len(L) > 0, NEW v
    PROVE  View([L EXCEPT ![Len(L)] =
                    [notif |-> L[Len(L)].notif, status |-> v]], B) =
           [View(L, B) EXCEPT ![Len(L)] = [View(L, B)[Len(L)] EXCEPT
                                              !.status = v]]
  <1> DEFINE n == Len(L)
             r == [notif |-> L[n].notif, status |-> v]
             M == [L EXCEPT ![n] = r]
             V == View(L, B)
             W == View(M, B)
             e == [V[n] EXCEPT !.status = v]
  <1>1. /\ n \in DOMAIN L
        /\ DOMAIN M = DOMAIN L
        /\ \A i \in DOMAIN L \ {n} : M[i] = L[i]
        /\ M[n] = r
        /\ r.notif = L[n].notif /\ r.status = v
    OBVIOUS
  <1> HIDE DEF n, r, M
  <1>2. /\ V = [i \in DOMAIN L |-> V[i]] /\ W = [i \in DOMAIN L |-> W[i]]
        /\ \A i \in DOMAIN L : V[i] = Entry(L, B, i) /\ W[i] = Entry(M, B, i)
    BY <1>1 DEF View
  <1>3. ASSUME NEW i \in DOMAIN L \ {n}
        PROVE  W[i] = V[i]
    <2>1. V[i] = Entry(L, B, i) /\ W[i] = Entry(M, B, i)
      BY <1>2
    <2>2. M[i] = L[i]
      BY <1>1
    <2> HIDE DEF V, W
    <2> QED
      BY <2>1, <2>2 DEF Entry
  <1>4. W[n] = e
    BY <1>1, <1>2 DEF Entry
  <1> HIDE DEF V, W, e
  <1>5. W = [V EXCEPT ![n] = e]
    BY <1>1, <1>2, <1>3, <1>4, ExceptOne
  <1> QED
    BY <1>5 DEF V, W, e, n, r, M

-----------------------------------------------------------------------------
(* The views of the state, and what makes a step of the ledgers.            *)

OpenView == [ch \in Channels |-> RowOpen(ch)]

\* The ledgers and the open flags, channel by channel.
LEMMA ViewsOfState ==
    /\ LedgerView = [ch \in Channels |-> View(logs[ch], inbox[ch])]
    /\ \A ch \in Channels : OpenView[ch] <=> pc[ch] \in HasRow
    /\ \A ch \in Channels : OpenView[ch] \in BOOLEAN
    /\ OpenView = [ch \in Channels |-> OpenView[ch]]
  <1>1. LedgerView = [ch \in Channels |-> View(logs[ch], inbox[ch])]
    BY DEF LedgerView, View, Entry, Under
  <1>2. \A ch \in Channels : OpenView[ch] <=> pc[ch] \in HasRow
    BY DEF OpenView, RowOpen, HasRow
  <1>3. \A ch \in Channels : OpenView[ch] \in BOOLEAN
    BY DEF OpenView, RowOpen
  <1>4. OpenView = [ch \in Channels |-> OpenView[ch]]
    BY DEF OpenView
  <1> QED
    BY <1>1, <1>2, <1>3, <1>4

\* The same of the next state.
LEMMA ViewsOfNextState ==
    /\ LedgerView' = [ch \in Channels |-> View(logs'[ch], inbox'[ch])]
    /\ \A ch \in Channels : OpenView'[ch] <=> pc'[ch] \in HasRow
    /\ \A ch \in Channels : OpenView'[ch] \in BOOLEAN
    /\ OpenView' = [ch \in Channels |-> OpenView'[ch]]
  <1>1. LedgerView' = [ch \in Channels |-> View(logs'[ch], inbox'[ch])]
    BY DEF LedgerView, View, Entry, Under
  <1>2. \A ch \in Channels : OpenView'[ch] <=> pc'[ch] \in HasRow
    BY DEF OpenView, RowOpen, HasRow
  <1>3. \A ch \in Channels : OpenView'[ch] \in BOOLEAN
    BY DEF OpenView, RowOpen
  <1>4. OpenView' = [ch \in Channels |-> OpenView'[ch]]
    BY DEF OpenView
  <1> QED
    BY <1>1, <1>2, <1>3, <1>4

\* One channel moves: the ledgers and the open flags of the others stay.
LEMMA OneView ==
    ASSUME NEW ch \in Channels,
           \A c \in Channels \ {ch} :
               /\ logs'[c] = logs[c]
               /\ inbox'[c] = inbox[c]
               /\ pc'[c] = pc[c]
    PROVE  /\ LedgerView' = [LedgerView EXCEPT
                                 ![ch] = View(logs'[ch], inbox'[ch])]
           /\ \A v : (OpenView'[ch] = v) =>
                         OpenView' = [OpenView EXCEPT ![ch] = v]
  <1>1. LedgerView' = [LedgerView EXCEPT ![ch] = View(logs'[ch], inbox'[ch])]
    BY ViewsOfState, ViewsOfNextState
  <1>2. ASSUME NEW c \in Channels \ {ch}
        PROVE  OpenView'[c] = OpenView[c]
    BY DEF OpenView, RowOpen
  <1>3. ASSUME NEW v, OpenView'[ch] = v
        PROVE  OpenView' = [OpenView EXCEPT ![ch] = v]
    BY <1>2, <1>3, ViewsOfState, ViewsOfNextState, ExceptOne
  <1> QED
    BY <1>1, <1>3

\* The four actions of DeliveryLedger, stated for the views.
LEMMA OpenIsNext ==
    ASSUME NEW ch \in Channels, NEW n \in Notifs, NEW b \in BOOLEAN,
           ~OpenView[ch],
           \A i \in DOMAIN LedgerView[ch] :
               LedgerView[ch][i].notif = n => LedgerView[ch][i].status # "sent",
           LedgerView' = [LedgerView EXCEPT ![ch] = Append(LedgerView[ch],
               [notif |-> n, status |-> "pending", accepted |-> FALSE])],
           OpenView' = [OpenView EXCEPT ![ch] = b]
    PROVE  Ledger!Next
  <1>1. Ledger!Open(ch, n, b)
    BY DEF Ledger!Open, OpenView
  <1> QED
    BY <1>1 DEF Ledger!Next

LEMMA AcceptIsNext ==
    ASSUME NEW ch \in Channels, NEW v, NEW k, v = LedgerView[ch], k = Len(v),
           OpenView[ch], ~v[k].accepted,
           LedgerView' = [LedgerView EXCEPT ![ch] =
               [v EXCEPT ![k] = [v[k] EXCEPT !.accepted = TRUE]]],
           OpenView' = OpenView
    PROVE  Ledger!Next
  <1>1. Ledger!Accept(ch)
    BY DEF Ledger!Accept, Ledger!SetLast, Ledger!Last, OpenView
  <1> QED
    BY <1>1 DEF Ledger!Next

LEMMA CloseIsNext ==
    ASSUME NEW ch \in Channels, NEW v, NEW k, v = LedgerView[ch], k = Len(v),
           OpenView[ch],
           LedgerView' = [LedgerView EXCEPT ![ch] =
               [v EXCEPT ![k] = [v[k] EXCEPT
                   !.status = IF v[k].accepted THEN "sent" ELSE "failed"]]],
           OpenView' = [OpenView EXCEPT ![ch] = FALSE]
    PROVE  Ledger!Next
  <1>1. Ledger!Close(ch)
    BY DEF Ledger!Close, Ledger!SetLast, Ledger!Last, OpenView
  <1> QED
    BY <1>1 DEF Ledger!Next

\* Giving up one entry, or all of them.
LEMMA GiveUpIsNext ==
    ASSUME NEW chs, chs = Channels \/ \E ch \in Channels : chs = {ch},
           LedgerView' = LedgerView,
           \A c \in Channels : OpenView'[c] <=> (OpenView[c] /\ c \notin chs)
    PROVE  Ledger!Next
  <1>1. OpenView' = [c \in Channels |-> OpenView[c] /\ c \notin chs]
    BY ViewsOfNextState
  <1>2. Ledger!GiveUp(chs)
    BY <1>1 DEF Ledger!GiveUp, OpenView
  <1> QED
    BY <1>2 DEF Ledger!Next

-----------------------------------------------------------------------------
(* Each write of a turn is a step of the ledgers.                           *)

\* Inserting the row of a turn opens an entry, which is given up at once when
\* the worker hears of an error.
LEMMA InsertIsNext ==
    ASSUME TypeInv, BooksInv, NEW ch \in Channels, pc[ch] = "insert",
           InsertRow(ch), UNCHANGED inbox,
           \/ Goto(ch, "send") /\ UNCHANGED msg
           \/ Return(ch)
    PROVE  Ledger!Next
  <1> DEFINE r == PendingRow(ch)
             L == logs[ch]
             B == inbox[ch]
             b == OpenView'[ch]
  <1>1. /\ L \in Seq(Rows) /\ msg[ch] \in Notifs
        /\ r \in Rows /\ r.notif = msg[ch] /\ r.status = "pending"
    BY DEF TypeInv, TypeOK, LocalInv, Busy, PendingRow, Rows, Statuses
  <1>2. /\ Books(L, B)
        /\ \A i \in DOMAIN L : L[i].notif = msg[ch] => L[i].status # "sent"
    BY BooksInvOfChannels DEF TurnBooks
  <1>3. logs'[ch] = Append(L, r) /\ inbox'[ch] = B
    BY DEF InsertRow, TypeInv, TypeOK
  <1>4. /\ \A c \in Channels \ {ch} : /\ logs'[c] = logs[c]
                                      /\ inbox'[c] = inbox[c]
                                      /\ pc'[c] = pc[c]
    BY DEF InsertRow, Return, Goto, TypeInv, TypeOK
  <1>5. LedgerView[ch] = View(L, B)
    BY ViewsOfState
  <1>6. \A i \in DOMAIN LedgerView[ch] :
            LedgerView[ch][i].notif = msg[ch] => LedgerView[ch][i].status # "sent"
    <2> HIDE DEF r, L, B
    <2>1. DOMAIN View(L, B) = DOMAIN L
      BY DEF View
    <2>2. \A i \in DOMAIN L : /\ View(L, B)[i].notif = L[i].notif
                             /\ View(L, B)[i].status = L[i].status
      BY <1>1, ViewFields
    <2> QED
      BY <1>2, <1>5, <2>1, <2>2
  <1>7. View(logs'[ch], inbox'[ch]) =
            Append(LedgerView[ch], [notif |-> msg[ch], status |-> "pending",
                                    accepted |-> FALSE])
    <2> HIDE DEF r, L, B
    <2> QED
      BY <1>1, <1>2, <1>3, <1>5, ViewInsert
  <1>8. ~OpenView[ch] /\ b \in BOOLEAN
    BY ViewsOfState, ViewsOfNextState DEF HasRow
  <1>9. /\ LedgerView' = [LedgerView EXCEPT
               ![ch] = Append(LedgerView[ch],
                         [notif |-> msg[ch], status |-> "pending",
                          accepted |-> FALSE])]
        /\ OpenView' = [OpenView EXCEPT ![ch] = b]
    BY <1>4, <1>7, OneView
  <1> HIDE DEF b
  <1> QED
    BY <1>1, <1>6, <1>8, <1>9, OpenIsNext

\* The provider accepts one send under the open entry.
LEMMA SendIsNext ==
    ASSUME TypeInv, BooksInv, NEW ch \in Channels, SendAccepted(ch)
    PROVE  Ledger!Next
  <1> DEFINE L == logs[ch]
             B == inbox[ch]
             d == [notif |-> msg[ch], log |-> Len(L)]
             V == LedgerView[ch]
  <1>1. L \in Seq(Rows) /\ B \in Seq(Accepted) /\ d.log = Len(L)
    BY DEF TypeInv, TypeOK
  <1>2. /\ Len(L) > 0
        /\ \A j \in DOMAIN B : B[j].log < Len(L)
    BY BooksInvOfChannels DEF SendAccepted, TurnBooks, HasRow
  <1>3. logs'[ch] = L /\ inbox'[ch] = Append(B, d)
    BY DEF SendAccepted, TypeInv, TypeOK
  <1>4. pc[ch] = "send" /\ pc'[ch] = "markSent"
    BY DEF SendAccepted, Goto, TypeInv, TypeOK
  <1>5. \A c \in Channels \ {ch} : /\ logs'[c] = logs[c]
                                   /\ inbox'[c] = inbox[c]
                                   /\ pc'[c] = pc[c]
    BY DEF SendAccepted, Goto, TypeInv, TypeOK
  <1>6. V = View(L, B)
    BY ViewsOfState
  <1>7. Len(V) = Len(L) /\ V[Len(L)] = Entry(L, B, Len(L))
    <2>1. Len(L) \in DOMAIN L
      BY <1>1, <1>2
    <2> HIDE DEF L, B, V
    <2> QED
      BY <1>1, <1>6, <2>1, ViewIsSeq
  <1>8. ~V[Len(L)].accepted
    <2>1. ~Under(B, Len(L))
      <3>1. \A j \in DOMAIN B : B[j].log # Len(L)
        BY <1>1, <1>2
      <3> QED
        BY <3>1 DEF Under
    <2> QED
      BY <1>7, <2>1 DEF Entry
  <1>9. View(logs'[ch], inbox'[ch]) =
            [V EXCEPT ![Len(L)] = [V[Len(L)] EXCEPT !.accepted = TRUE]]
    <2> HIDE DEF L, B, d, V
    <2> QED
      BY <1>1, <1>2, <1>3, <1>6, ViewAccept
  <1>10. OpenView[ch] /\ OpenView' = OpenView
    <2>1. OpenView[ch]
      BY <1>4, ViewsOfState DEF HasRow
    <2>2. \A c \in Channels : pc'[c] \in HasRow <=> pc[c] \in HasRow
      BY <1>4, <1>5 DEF HasRow
    <2>3. \A c \in Channels : OpenView'[c] = OpenView[c]
      BY <2>2, ViewsOfState, ViewsOfNextState
    <2> QED
      BY <2>1, <2>3, ViewsOfState, ViewsOfNextState
  <1>11. LedgerView' = [LedgerView EXCEPT
             ![ch] = [V EXCEPT ![Len(L)] = [V[Len(L)] EXCEPT !.accepted = TRUE]]]
    BY <1>5, <1>9, OneView
  <1> QED
    BY <1>7, <1>8, <1>10, <1>11, AcceptIsNext

\* The final status closes the entry, truthfully.
LEMMA MarkIsNext ==
    ASSUME TypeInv, BooksInv, NEW ch \in Channels,
           pc[ch] \in {"markSent", "markFailed"},
           UpdateRow(ch), UNCHANGED inbox, Return(ch)
    PROVE  Ledger!Next
  <1> DEFINE L == logs[ch]
             B == inbox[ch]
             k == Len(L)
             V == LedgerView[ch]
             v == Verdict(ch)
  <1>1. L \in Seq(Rows) /\ B \in Seq(Accepted)
    BY DEF TypeInv, TypeOK
  <1>2. /\ k > 0
        /\ pc[ch] = "markSent" => Under(B, k)
        /\ pc[ch] = "markFailed" => \A j \in DOMAIN B : B[j].log < k
    BY BooksInvOfChannels DEF TurnBooks, HasRow, Under
  <1>3. logs'[ch] = [L EXCEPT ![k] = [notif |-> L[k].notif, status |-> v]]
        /\ inbox'[ch] = B
    BY DEF UpdateRow, TypeInv, TypeOK
  <1>4. \A c \in Channels \ {ch} : /\ logs'[c] = logs[c]
                                   /\ inbox'[c] = inbox[c]
                                   /\ pc'[c] = pc[c]
    BY DEF UpdateRow, Return, Goto, TypeInv, TypeOK
  <1>5. V = View(L, B)
    BY ViewsOfState
  <1>6. Len(V) = k /\ V[k] = Entry(L, B, k)
    <2>1. k \in DOMAIN L
      BY <1>1, <1>2
    <2> QED
      BY <1>1, <1>5, <2>1, ViewIsSeq
  <1>7. v = IF V[k].accepted THEN "sent" ELSE "failed"
    <2>1. pc[ch] = "markSent" <=> Under(B, k)
      <3>1. ASSUME pc[ch] = "markFailed"
            PROVE  ~Under(B, k)
        <4>1. \A j \in DOMAIN B : B[j].log # k
          BY <1>1, <1>2, <3>1
        <4> QED
          BY <4>1 DEF Under
      <3> QED
        BY <1>2, <3>1
    <2>2. V[k].accepted <=> Under(B, k)
      BY <1>6 DEF Entry
    <2> QED
      BY <2>1, <2>2 DEF Verdict
  <1>8. View(logs'[ch], inbox'[ch]) =
            [V EXCEPT ![k] = [V[k] EXCEPT !.status = v]]
    <2>1. View([L EXCEPT ![k] = [notif |-> L[k].notif, status |-> v]], B) =
              [View(L, B) EXCEPT ![k] = [View(L, B)[k] EXCEPT !.status = v]]
      BY <1>1, <1>2, ViewMark
    <2> QED
      BY <1>3, <1>5, <2>1
  <1>9. OpenView[ch] /\ OpenView'[ch] = FALSE
    <2>1. pc'[ch] = "read"
      BY ReturnTo
    <2>2. ~OpenView'[ch] /\ OpenView'[ch] \in BOOLEAN
      BY <2>1, ViewsOfNextState DEF HasRow
    <2>3. OpenView[ch]
      BY ViewsOfState DEF HasRow
    <2> QED
      BY <2>2, <2>3
  <1>10. /\ LedgerView' = [LedgerView EXCEPT
                ![ch] = [V EXCEPT ![k] = [V[k] EXCEPT !.status = v]]]
         /\ OpenView' = [OpenView EXCEPT ![ch] = FALSE]
    BY <1>4, <1>8, <1>9, OneView
  <1> HIDE DEF v
  <1> QED
    BY <1>6, <1>7, <1>9, <1>10, CloseIsNext

-----------------------------------------------------------------------------
(* Every step is a step of the ledgers or leaves them alone.                *)

\* Rows and sends stay, and the turns that have a row are the same.
LEMMA QuietIsStutter ==
    ASSUME UNCHANGED <<logs, inbox>>,
           \A c \in Channels : pc'[c] \in HasRow <=> pc[c] \in HasRow
    PROVE  UNCHANGED Ledger!vars
  <1>1. LedgerView' = LedgerView
    BY ViewsOfState, ViewsOfNextState
  <1>2. \A c \in Channels : OpenView'[c] = OpenView[c]
    BY ViewsOfState, ViewsOfNextState
  <1>3. OpenView' = OpenView
    BY <1>2, ViewsOfState, ViewsOfNextState
  <1> QED
    BY <1>1, <1>3 DEF Ledger!vars, OpenView

\* A turn that moves on, with its row or without one.
LEMMA GotoIsStutter ==
    ASSUME TypeInv, NEW ch \in Channels, UNCHANGED <<logs, inbox>>,
           NEW q, Goto(ch, q), q \in HasRow <=> pc[ch] \in HasRow
    PROVE  UNCHANGED Ledger!vars
  <1>1. \A c \in Channels : pc'[c] \in HasRow <=> pc[c] \in HasRow
    BY DEF Goto, TypeInv, TypeOK
  <1> QED
    BY <1>1, QuietIsStutter

\* A turn that returns without a final status gives its entry up.
LEMMA ReturnIsNext ==
    ASSUME TypeInv, NEW ch \in Channels, UNCHANGED <<logs, inbox>>, Return(ch)
    PROVE  Ledger!Next
  <1>1. LedgerView' = LedgerView
    BY ViewsOfState, ViewsOfNextState
  <1>2. \A c \in Channels :
            pc'[c] \in HasRow <=> (pc[c] \in HasRow /\ c \notin {ch})
    BY DEF Return, Goto, TypeInv, TypeOK, HasRow
  <1>3. \A c \in Channels :
            OpenView'[c] <=> (OpenView[c] /\ c \notin {ch})
    BY <1>2, ViewsOfState, ViewsOfNextState
  <1> QED
    BY <1>1, <1>3, GiveUpIsNext

\* When no turn has a row any more, all entries are given up.
LEMMA AllIdleIsNext ==
    ASSUME UNCHANGED <<logs, inbox>>, \A c \in Channels : pc'[c] \notin HasRow
    PROVE  Ledger!Next
  <1>1. LedgerView' = LedgerView
    BY ViewsOfState, ViewsOfNextState
  <1>2. \A c \in Channels :
            OpenView'[c] <=> (OpenView[c] /\ c \notin Channels)
    BY ViewsOfNextState
  <1> QED
    BY <1>1, <1>2, GiveUpIsNext

\* The process ends: every turn under way leaves its entry.
LEMMA ProcessEndsIsNext == ProcessEnds => Ledger!Next
  <1> SUFFICES ASSUME ProcessEnds
               PROVE  Ledger!Next
    OBVIOUS
  <1>1. UNCHANGED <<logs, inbox>> /\ \A c \in Channels : pc'[c] \notin HasRow
    BY DEF ProcessEnds, store, HasRow
  <1> QED
    BY <1>1, AllIdleIsNext

\* One step of a worker.
LEMMA TurnMaps ==
    ASSUME TypeInv, BooksInv, NEW ch \in Channels, Turn(ch)
    PROVE  Ledger!Next \/ UNCHANGED Ledger!vars
  <1> USE DEF store
  <1>1. ASSUME NEW p \in Partitions, ReadOne(ch, p)
        PROVE  UNCHANGED Ledger!vars
    BY <1>1, GotoIsStutter DEF ReadOne, HasRow
  <1>2. CASE RunReturns(ch)
    BY <1>2, GotoIsStutter DEF RunReturns, HasRow
  <1>3. CASE ReadTimesOut(ch)
    BY <1>3, GotoIsStutter DEF ReadTimesOut, HasRow
  <1>4. CASE CheckSent(ch)
    <2>1. CASE Return(ch)
      BY <1>4, <2>1, ReturnIsNext DEF CheckSent
    <2>2. CASE Goto(ch, "insert")
      BY <1>4, <2>2, GotoIsStutter DEF CheckSent, HasRow
    <2> QED
      BY <1>4, <2>1, <2>2 DEF CheckSent
  <1>5. CASE CheckFails(ch)
    BY <1>5, ReturnIsNext DEF CheckFails
  <1>6. CASE InsertLog(ch)
    BY <1>6, InsertIsNext DEF InsertLog
  <1>7. CASE InsertFails(ch)
    <2>1. CASE InsertRow(ch)
      BY <1>7, <2>1, InsertIsNext DEF InsertFails
    <2>2. CASE UNCHANGED logs
      BY <1>7, <2>2, ReturnIsNext DEF InsertFails
    <2> QED
      BY <1>7, <2>1, <2>2 DEF InsertFails
  <1>8. CASE SendAccepted(ch)
    BY <1>8, SendIsNext
  <1>9. CASE SendRefused(ch)
    <2>1. PICK q \in {"markFailed", "backoff"} : Goto(ch, q)
      BY <1>9 DEF SendRefused
    <2> QED
      BY <1>9, <2>1, GotoIsStutter DEF SendRefused, HasRow
  <1>10. CASE SendPanics(ch)
    BY <1>10, ProcessEndsIsNext DEF SendPanics
  <1>11. CASE BackoffElapsed(ch)
    BY <1>11, GotoIsStutter DEF BackoffElapsed, HasRow
  <1>12. CASE BackoffCancelled(ch)
    BY <1>12, GotoIsStutter DEF BackoffCancelled, HasRow
  <1>13. CASE MarkRow(ch)
    BY <1>13, MarkIsNext DEF MarkRow
  <1>14. CASE MarkFails(ch)
    <2>1. CASE UpdateRow(ch)
      BY <1>14, <2>1, MarkIsNext DEF MarkFails
    <2>2. CASE UNCHANGED logs
      BY <1>14, <2>2, ReturnIsNext DEF MarkFails
    <2> QED
      BY <1>14, <2>1, <2>2 DEF MarkFails
  <1> QED
    BY <1>1, <1>2, <1>3, <1>4, <1>5, <1>6, <1>7, <1>8, <1>9, <1>10, <1>11,
       <1>12, <1>13, <1>14 DEF Turn, Work

\* One step of the process or of its environment.
LEMMA NextMaps ==
    TypeInv /\ BooksInv /\ [Next]_vars => [Ledger!Next]_(Ledger!vars)
  <1> SUFFICES ASSUME TypeInv, BooksInv, [Next]_vars
               PROVE  Ledger!Next \/ UNCHANGED Ledger!vars
    OBVIOUS
  <1>1. ASSUME UNCHANGED <<logs, inbox, pc>>
        PROVE  UNCHANGED Ledger!vars
    BY <1>1, QuietIsStutter
  <1>2. ASSUME NEW n \in Notifs, NEW p \in Partitions, Publish(n, p)
        PROVE  UNCHANGED Ledger!vars
    BY <1>1, <1>2 DEF Publish, local, store
  <1>3. CASE Start
    <2>1. \A c \in Channels : pc'[c] \notin HasRow
      BY <1>3 DEF Start, HasRow
    <2> QED
      BY <1>3, <2>1, AllIdleIsNext DEF Start, store
  <1>4. CASE Crash
    BY <1>4, ProcessEndsIsNext DEF Crash
  <1>5. CASE Signal
    BY <1>1, <1>5 DEF Signal, local, store
  <1>6. CASE CloseConsumers
    BY <1>6, ProcessEndsIsNext DEF CloseConsumers
  <1>7. ASSUME NEW ch \in Channels, AutoCommit(ch)
        PROVE  UNCHANGED Ledger!vars
    BY <1>1, <1>7 DEF AutoCommit, local, store
  <1>8. ASSUME NEW ch \in Channels, Turn(ch)
        PROVE  Ledger!Next \/ UNCHANGED Ledger!vars
    BY <1>8, TurnMaps
  <1>9. CASE UNCHANGED vars
    BY <1>1, <1>9 DEF vars, local, store
  <1> QED
    BY <1>2, <1>3, <1>4, <1>5, <1>6, <1>7, <1>8, <1>9 DEF Next

\* Before the first start the ledgers are empty.
LEMMA InitMaps == Init => Ledger!Init
  <1> SUFFICES ASSUME Init
               PROVE  Ledger!Init
    OBVIOUS
  <1>1. LedgerView = [ch \in Channels |-> <<>>]
    <2> DEFINE empty == <<>>
               V == View(empty, empty)
    <2>1. empty \in Seq(Rows) /\ Len(empty) = 0
      OBVIOUS
    <2>2. V \in Seq({Entry(empty, empty, i) : i \in DOMAIN empty}) /\ Len(V) = 0
      BY <2>1, ViewIsSeq
    <2>3. V = <<>>
      BY <2>2
    <2>4. \A ch \in Channels : logs[ch] = empty /\ inbox[ch] = empty
      BY DEF Init
    <2>5. LedgerView = [ch \in Channels |-> V]
      BY <2>4, ViewsOfState
    <2> QED
      BY <2>3, <2>5
  <1>2. OpenView = [ch \in Channels |-> FALSE]
    <2>1. \A ch \in Channels : ~OpenView[ch]
      BY ViewsOfState DEF Init, HasRow
    <2>2. \A ch \in Channels : OpenView[ch] = FALSE
      BY <2>1, ViewsOfState
    <2> QED
      BY <2>2, ViewsOfState
  <1> QED
    BY <1>1, <1>2 DEF Ledger!Init, OpenView

\* The delivery workers implement DeliveryLedger: whatever calls fail, and
\* wherever the process crashes, panics or is told to stop, the rows and the
\* accepted sends are those of a ledger that is opened before a send, closed
\* truthfully and never taken up again (worker.process).
THEOREM WorkersKeepLedger == Spec => KeepsLedger
  BY AlwaysTypeInv, BooksAlwaysInOrder, InitMaps, NextMaps, PTL
  DEF Spec, KeepsLedger, Ledger!Spec
=============================================================================
