------------------------- MODULE RateLimiterProofs -------------------------
(* Theorems about RateLimiter, for any keys, callers, limit and window.    *)
EXTENDS RateLimiter, TLAPS

\* A key that does not exist has no expiry.
NoTTLWithoutKey == \A k \in Keys : count[k] = 0 => ttl[k] = NoTTL

KeyInv ==
    /\ TypeOK
    /\ NoTTLWithoutKey
    /\ ExpireOncePerLife
    /\ NoKeyWithoutExpiry

LEMMA InitKeyInv == Init => KeyInv
  BY LimiterAssumption
  DEF Init, KeyInv, TypeOK, NoTTLWithoutKey, ExpireOncePerLife,
      NoKeyWithoutExpiry, NoTTL

\* INCR stores a value above the one it found, or above the limit.
LEMMA IncrementedValue ==
    ASSUME TypeOK, NEW k \in Keys
    PROVE  /\ Incremented(k) \in 1 .. Limit + 1
           /\ Incremented(k) = 1 <=> count[k] = 0
  BY LimiterAssumption DEF TypeOK, Incremented

\* Allowing a call keeps the record of allowed calls one, and adds the call to
\* every span that ends now.
LEMMA AdmitType ==
    ASSUME TypeOK, NEW k \in Keys, Admit(k)
    PROVE  /\ recent' \in [Keys -> [0 .. Window - 1 -> Nat]]
           /\ \A a \in 0 .. Window - 1 : recent'[k][a] = recent[k][a] + 1
           /\ \A j \in Keys \ {k} : recent'[j] = recent[j]
  <1> DEFINE r == [a \in 0 .. Window - 1 |-> recent[k][a] + 1]
  <1>1. recent[k] \in [0 .. Window - 1 -> Nat]
    BY DEF TypeOK
  <1>2. ASSUME NEW a \in 0 .. Window - 1
        PROVE  recent[k][a] + 1 \in Nat
    <2>1. recent[k][a] \in Nat
      BY <1>1
    <2> QED
      BY <2>1
  <1>3. r \in [0 .. Window - 1 -> Nat]
    BY <1>2
  <1>4. \A a \in 0 .. Window - 1 : r[a] = recent[k][a] + 1
    OBVIOUS
  <1>5. recent' = [recent EXCEPT ![k] = r]
    BY DEF Admit
  <1> HIDE DEF r
  <1>6. /\ recent'[k] = r
        /\ \A j \in Keys \ {k} : recent'[j] = recent[j]
        /\ recent' \in [Keys -> [0 .. Window - 1 -> Nat]]
    BY <1>3, <1>5 DEF TypeOK
  <1> QED
    BY <1>4, <1>6

\* The type of the counters is kept when INCR, or its lost reply, writes k.
LEMMA IncrCount ==
    ASSUME TypeOK, NEW k \in Keys,
           count' = [count EXCEPT ![k] = Incremented(k)]
    PROVE  /\ count' \in [Keys -> 0 .. Limit + 1]
           /\ count'[k] > 0
           /\ \A j \in Keys : j # k => count'[j] = count[j]
  BY IncrementedValue, LimiterAssumption DEF TypeOK

LEMMA IncrKeepsInv ==
    ASSUME KeyInv, NEW c \in Callers, NEW k \in Keys, Incr(c, k)
    PROVE  KeyInv'
  <1>1. TypeOK
    BY DEF KeyInv
  <1>2. /\ count' \in [Keys -> 0 .. Limit + 1]
        /\ count'[k] > 0
        /\ \A j \in Keys : j # k => count'[j] = count[j]
    BY <1>1, IncrCount DEF Incr
  <1>3. CASE count[k] = 0
    <2>1. Incremented(k) = 1
      BY <1>1, <1>3, IncrementedValue
    <2>2. /\ expiring' = [expiring EXCEPT ![c] = k]
          /\ UNCHANGED <<ttl, recent, faults>>
      BY <2>1 DEF Incr
    <2>3. TypeOK'
      BY <1>1, <1>2, <2>2 DEF TypeOK
    <2>4. /\ expiring'[c] = k
          /\ \A d \in Callers \ {c} : expiring'[d] = expiring[d]
      BY <1>1, <2>2 DEF TypeOK
    <2>5. \A d \in Callers : expiring[d] # k
      BY <1>1, <1>3, LimiterAssumption DEF KeyInv, ExpireOncePerLife
    <2>6. NoTTLWithoutKey'
      BY <1>2, <2>2 DEF KeyInv, NoTTLWithoutKey
    <2>7. ExpireOncePerLife'
      <3> SUFFICES ASSUME NEW d \in Callers, expiring'[d] # NoKey
                   PROVE  /\ ttl'[expiring'[d]] = NoTTL
                          /\ count'[expiring'[d]] > 0
                          /\ \A e \in Callers \ {d} :
                                 expiring'[e] # expiring'[d]
        BY DEF ExpireOncePerLife
      <3>1. CASE d = c
        BY <1>2, <1>3, <2>2, <2>4, <2>5, <3>1 DEF KeyInv, NoTTLWithoutKey
      <3>2. CASE d # c
        <4>1. expiring'[d] = expiring[d] /\ expiring[d] \in Keys
          BY <1>1, <2>4, <3>2 DEF TypeOK
        <4>2. expiring[d] # k
          BY <2>5
        <4> QED
          BY <1>2, <2>2, <2>4, <3>2, <4>1, <4>2 DEF KeyInv, ExpireOncePerLife
      <3> QED
        BY <3>1, <3>2
    <2>8. NoKeyWithoutExpiry'
      <3> SUFFICES ASSUME NEW j \in Keys, count'[j] > 0, ttl'[j] = NoTTL,
                          faults' = 0
                   PROVE  \E d \in Callers : expiring'[d] = j
        BY DEF NoKeyWithoutExpiry
      <3>1. CASE j = k
        BY <2>4, <3>1
      <3>2. CASE j # k
        <4>1. PICK d \in Callers : expiring[d] = j
          BY <1>2, <2>2, <3>2 DEF KeyInv, NoKeyWithoutExpiry
        <4>2. d # c
          BY <4>1, LimiterAssumption DEF Incr
        <4> QED
          BY <2>4, <4>1, <4>2
      <3> QED
        BY <3>1, <3>2
    <2> QED
      BY <2>3, <2>6, <2>7, <2>8 DEF KeyInv
  <1>4. CASE count[k] # 0
    <2>1. Incremented(k) # 1
      BY <1>1, <1>4, IncrementedValue
    <2>2. /\ UNCHANGED <<ttl, expiring, faults>>
          /\ Admit(k) \/ UNCHANGED recent
      BY <2>1 DEF Incr
    <2>3. count[k] > 0
      BY <1>1, <1>4 DEF TypeOK
    <2>4. recent' \in [Keys -> [0 .. Window - 1 -> Nat]]
      BY <1>1, <2>2, AdmitType DEF TypeOK
    <2>5. TypeOK'
      BY <1>1, <1>2, <2>2, <2>4 DEF TypeOK
    <2>6. NoTTLWithoutKey'
      BY <1>2, <2>2 DEF KeyInv, NoTTLWithoutKey
    <2>7. ExpireOncePerLife'
      BY <1>1, <1>2, <2>2 DEF KeyInv, ExpireOncePerLife, TypeOK
    <2>8. NoKeyWithoutExpiry'
      BY <1>2, <2>2, <2>3 DEF KeyInv, NoKeyWithoutExpiry
    <2> QED
      BY <2>5, <2>6, <2>7, <2>8 DEF KeyInv
  <1> QED
    BY <1>3, <1>4

LEMMA LostReplyKeepsInv ==
    ASSUME KeyInv, NEW k \in Keys, IncrReplyLost(k)
    PROVE  KeyInv'
  <1>1. TypeOK
    BY DEF KeyInv
  <1>2. /\ count' \in [Keys -> 0 .. Limit + 1]
        /\ count'[k] > 0
        /\ \A j \in Keys : j # k => count'[j] = count[j]
    BY <1>1, IncrCount DEF IncrReplyLost
  <1>3. UNCHANGED <<ttl, expiring, recent>> /\ faults' \in 1 .. MaxFaults
    BY <1>1, LimiterAssumption DEF IncrReplyLost, TypeOK
  <1>4. TypeOK'
    BY <1>1, <1>2, <1>3, LimiterAssumption DEF TypeOK
  <1>5. NoTTLWithoutKey'
    BY <1>2, <1>3 DEF KeyInv, NoTTLWithoutKey
  <1>6. ExpireOncePerLife'
    BY <1>1, <1>2, <1>3 DEF KeyInv, ExpireOncePerLife, TypeOK
  <1>7. NoKeyWithoutExpiry'
    BY <1>3 DEF NoKeyWithoutExpiry
  <1> QED
    BY <1>4, <1>5, <1>6, <1>7 DEF KeyInv

\* The first caller of a life returns, with or without an expiry set.
LEMMA FirstCallerKeepsInv ==
    ASSUME KeyInv, NEW c \in Callers, expiring[c] # NoKey, FirstAllowed(c),
           SetTTL(expiring[c]) \/ (UNCHANGED ttl /\ faults' # 0),
           faults' \in 0 .. MaxFaults, faults' = 0 => faults = 0
    PROVE  KeyInv'
  <1> DEFINE k == expiring[c]
  <1>1. TypeOK /\ k \in Keys
    BY DEF KeyInv, TypeOK
  <1>2. count' = count /\ expiring' = [expiring EXCEPT ![c] = NoKey] /\ Admit(k)
    BY DEF FirstAllowed
  <1>3. recent' \in [Keys -> [0 .. Window - 1 -> Nat]]
    BY <1>1, <1>2, AdmitType
  <1>4. /\ expiring'[c] = NoKey
        /\ \A d \in Callers \ {c} : expiring'[d] = expiring[d]
        /\ expiring' \in [Callers -> Keys \cup {NoKey}]
    BY <1>1, <1>2 DEF TypeOK
  <1>5. /\ ttl' \in [Keys -> 1 .. Window \cup {NoTTL}]
        /\ \A j \in Keys : j # k => ttl'[j] = ttl[j]
        /\ ttl'[k] # NoTTL \/ faults' # 0
    <2>1. CASE UNCHANGED ttl /\ faults' # 0
      BY <1>1, <2>1 DEF TypeOK
    <2>2. CASE SetTTL(k)
      <3>1. ttl' = [ttl EXCEPT ![k] = Window]
        BY <2>2 DEF SetTTL
      <3>2. Window \in 1 .. Window /\ Window # NoTTL
        BY LimiterAssumption DEF NoTTL
      <3> HIDE DEF k
      <3> QED
        BY <1>1, <3>1, <3>2 DEF TypeOK
    <2> QED
      BY <2>1, <2>2
  <1>6. count[k] > 0 /\ \A d \in Callers \ {c} : expiring[d] # k
    BY DEF KeyInv, ExpireOncePerLife
  <1> HIDE DEF k
  <1>7. TypeOK'
    BY <1>1, <1>2, <1>3, <1>4, <1>5 DEF TypeOK
  <1>8. NoTTLWithoutKey'
    BY <1>1, <1>2, <1>5, <1>6 DEF KeyInv, NoTTLWithoutKey, TypeOK
  <1>9. ExpireOncePerLife'
    <2> SUFFICES ASSUME NEW d \in Callers, expiring'[d] # NoKey
                 PROVE  /\ ttl'[expiring'[d]] = NoTTL
                        /\ count'[expiring'[d]] > 0
                        /\ \A e \in Callers \ {d} : expiring'[e] # expiring'[d]
      BY DEF ExpireOncePerLife
    <2>1. d # c /\ expiring'[d] = expiring[d] /\ expiring[d] \in Keys
      BY <1>1, <1>4 DEF TypeOK
    <2>2. expiring[d] # k
      BY <1>6, <2>1
    <2> QED
      BY <1>2, <1>4, <1>5, <2>1, <2>2 DEF KeyInv, ExpireOncePerLife
  <1>10. NoKeyWithoutExpiry'
    <2> SUFFICES ASSUME NEW j \in Keys, count'[j] > 0, ttl'[j] = NoTTL,
                        faults' = 0
                 PROVE  \E d \in Callers : expiring'[d] = j
      BY DEF NoKeyWithoutExpiry
    <2>1. j # k
      BY <1>5
    <2>2. PICK d \in Callers : expiring[d] = j
      BY <1>2, <1>5, <2>1 DEF KeyInv, NoKeyWithoutExpiry
    <2>3. d # c
      BY <2>1, <2>2 DEF k
    <2> QED
      BY <1>4, <2>2, <2>3
  <1> QED
    BY <1>7, <1>8, <1>9, <1>10 DEF KeyInv

LEMMA DeathKeepsInv ==
    ASSUME KeyInv, ServerDies
    PROVE  KeyInv'
  <1>1. faults' \in 1 .. MaxFaults
    BY LimiterAssumption DEF KeyInv, TypeOK, ServerDies
  <1>2. \A c \in Callers : expiring'[c] = NoKey
    BY DEF ServerDies
  <1> QED
    BY <1>1, <1>2, LimiterAssumption
    DEF KeyInv, TypeOK, ServerDies, NoTTLWithoutKey, ExpireOncePerLife,
        NoKeyWithoutExpiry

LEMMA TickKeepsInv ==
    ASSUME KeyInv, Tick
    PROVE  KeyInv'
  <1>1. TypeOK /\ UNCHANGED <<expiring, faults>>
    BY DEF KeyInv, Tick
  <1>2. recent' \in [Keys -> [0 .. Window - 1 -> Nat]]
    <2>1. ASSUME NEW k \in Keys, NEW a \in 0 .. Window - 1
          PROVE  (IF a = 0 THEN 0 ELSE recent[k][a - 1]) \in Nat
      <3>1. CASE a = 0
        BY <3>1
      <3>2. CASE a # 0
        <4>1. a - 1 \in 0 .. Window - 1
          BY <3>2, LimiterAssumption
        <4>2. recent[k] \in [0 .. Window - 1 -> Nat]
          BY <1>1 DEF TypeOK
        <4>3. recent[k][a - 1] \in Nat
          BY <4>1, <4>2
        <4> QED
          BY <3>2, <4>3
      <3> QED
        BY <3>1, <3>2
    <2> QED
      BY <2>1 DEF Tick
  <1>3. \A k \in Keys :
            /\ ttl[k] = NoTTL => ttl'[k] = NoTTL /\ count'[k] = count[k]
            /\ ttl[k] = 1 => ttl'[k] = NoTTL /\ count'[k] = 0
            /\ ttl[k] \in 2 .. Window =>
                   ttl'[k] \in 1 .. Window /\ count'[k] = count[k]
    BY LimiterAssumption DEF Tick, NoTTL
  <1>4. \A k \in Keys : ttl[k] = NoTTL \/ ttl[k] = 1 \/ ttl[k] \in 2 .. Window
    BY <1>1, LimiterAssumption DEF TypeOK, NoTTL
  <1>5. TypeOK'
    <2>1. \A k \in Keys : ttl'[k] \in 1 .. Window \cup {NoTTL}
      BY <1>3, <1>4
    <2>2. \A k \in Keys : count'[k] \in 0 .. Limit + 1
      BY <1>1, <1>3, <1>4, LimiterAssumption DEF TypeOK
    <2> QED
      BY <1>1, <1>2, <2>1, <2>2 DEF TypeOK, Tick
  <1>6. NoTTLWithoutKey'
    BY <1>3, <1>4 DEF KeyInv, NoTTLWithoutKey
  <1>7. ExpireOncePerLife'
    <2> SUFFICES ASSUME NEW c \in Callers, expiring[c] # NoKey
                 PROVE  /\ ttl'[expiring[c]] = NoTTL
                        /\ count'[expiring[c]] > 0
                        /\ \A d \in Callers \ {c} : expiring[d] # expiring[c]
      BY <1>1 DEF ExpireOncePerLife
    <2>1. expiring[c] \in Keys
      BY <1>1 DEF TypeOK
    <2> QED
      BY <1>3, <2>1 DEF KeyInv, ExpireOncePerLife
  <1>8. NoKeyWithoutExpiry'
    <2> SUFFICES ASSUME NEW k \in Keys, count'[k] > 0, ttl'[k] = NoTTL,
                        faults = 0
                 PROVE  \E c \in Callers : expiring[c] = k
      BY <1>1 DEF NoKeyWithoutExpiry
    <2>1. ttl[k] = NoTTL /\ count[k] > 0
      BY <1>3, <1>4, LimiterAssumption DEF NoTTL
    <2> QED
      BY <2>1 DEF KeyInv, NoKeyWithoutExpiry
  <1> QED
    BY <1>5, <1>6, <1>7, <1>8 DEF KeyInv

LEMMA NextKeyInv == KeyInv /\ [Next]_vars => KeyInv'
  <1> SUFFICES ASSUME KeyInv, [Next]_vars
               PROVE  KeyInv'
    OBVIOUS
  <1>1. ASSUME NEW c \in Callers, NEW k \in Keys, Incr(c, k)
        PROVE  KeyInv'
    BY <1>1, IncrKeepsInv
  <1>2. ASSUME NEW k \in Keys, IncrReplyLost(k)
        PROVE  KeyInv'
    BY <1>2, LostReplyKeepsInv
  <1>3. ASSUME NEW c \in Callers, Expire(c)
        PROVE  KeyInv'
    BY <1>3, FirstCallerKeepsInv DEF Expire, KeyInv, TypeOK
  <1>4. ASSUME NEW c \in Callers, ExpireFails(c)
        PROVE  KeyInv'
    <2>1. faults' \in 1 .. MaxFaults
      BY <1>4, LimiterAssumption DEF ExpireFails, KeyInv, TypeOK
    <2>2. faults' \in 0 .. MaxFaults /\ faults' # 0
      BY <2>1, LimiterAssumption
    <2> QED
      BY <1>4, <2>2, FirstCallerKeepsInv DEF ExpireFails
  <1>5. CASE ServerDies
    BY <1>5, DeathKeepsInv
  <1>6. CASE Tick
    BY <1>6, TickKeepsInv
  <1>7. CASE UNCHANGED vars
    BY <1>7 DEF vars, KeyInv, TypeOK, NoTTLWithoutKey, ExpireOncePerLife,
                NoKeyWithoutExpiry
  <1> QED
    BY <1>1, <1>2, <1>3, <1>4, <1>5, <1>6, <1>7 DEF Next

\* The counters, their expiries and the callers between INCR and EXPIRE
\* agree, always.
THEOREM KeysInOrder == Spec => []KeyInv
  BY InitKeyInv, NextKeyInv, PTL DEF Spec

\* No interleaving of Allow calls leaves a key without expiry: only a failed
\* command or a dead server does.
THEOREM KeysExpire == Spec => []NoKeyWithoutExpiry
  <1>1. KeyInv => NoKeyWithoutExpiry
    BY DEF KeyInv
  <1> QED
    BY <1>1, KeysInOrder, PTL

\* EXPIRE is sent once in a key's life, so a window under way is never
\* lengthened.
THEOREM WindowsAreNotExtended == Spec => []ExpireOncePerLife
  <1>1. KeyInv => ExpireOncePerLife
    BY DEF KeyInv
  <1> QED
    BY <1>1, KeysInOrder, PTL

\* Every counter, expiry and record of allowed calls keeps its type (TypeOK,
\* the type invariant of the runs).
THEOREM LimiterTypeCorrect == Spec => []TypeOK
  <1>1. KeyInv => TypeOK
    BY DEF KeyInv
  <1> QED
    BY <1>1, KeysInOrder, PTL

-----------------------------------------------------------------------------
(* The bound on a window.  Of the calls in the last Window ticks, those of *)
(* the life under way are at most its counter, and one of those of the     *)
(* life before, the first, is older: the key lives Window ticks from the   *)
(* EXPIRE that came before it.  Spans says so of a counter n, the time t   *)
(* its key has left, the calls f allowed and whether the first is still to *)
(* come (p = 1); of the calls since the EXPIRE, the first is not one.      *)

Counted(n) == IF n > Limit THEN Limit ELSE n
Pending(k) == IF \E c \in Callers : expiring[c] = k THEN 1 ELSE 0

Spans(n, t, f, p) ==
    /\ \A a \in 1 .. Window - 1 : f[a - 1] <= f[a]
    /\ f[Window - 1] + p <= Limit - 1 + Counted(n)
    /\ t # NoTTL /\ t < Window => f[Window - 1 - t] <= Counted(n) - 1

SpanInv(k) == Spans(count[k], ttl[k], recent[k], Pending(k))
SpansInv == \A k \in Keys : SpanInv(k)

\* A call that is allowed is counted in every span: f, g are the calls before
\* and after it.
LEMMA AllowedEverywhere ==
    ASSUME NEW f \in [0 .. Window - 1 -> Nat],
           NEW g \in [0 .. Window - 1 -> Nat],
           \A a \in 1 .. Window - 1 : f[a - 1] <= f[a],
           \A a \in 0 .. Window - 1 : g[a] = f[a] + 1,
           NEW a \in 1 .. Window - 1
    PROVE  g[a - 1] <= g[a]
  <1>1. a \in 0 .. Window - 1 /\ a - 1 \in 0 .. Window - 1
    BY LimiterAssumption
  <1>2. f[a - 1] <= f[a] /\ f[a] \in Nat /\ f[a - 1] \in Nat
    BY <1>1
  <1> QED
    BY <1>1, <1>2

\* A later call of a life is counted and allowed.
LEMMA SpansAllow ==
    ASSUME NEW n \in 0 .. Limit + 1, n + 1 <= Limit,
           NEW t \in 1 .. Window \cup {NoTTL},
           NEW f \in [0 .. Window - 1 -> Nat],
           NEW g \in [0 .. Window - 1 -> Nat],
           NEW p \in {0, 1},
           Spans(n, t, f, p),
           \A a \in 0 .. Window - 1 : g[a] = f[a] + 1
    PROVE  Spans(n + 1, t, g, p)
  <1>1. \A a \in 1 .. Window - 1 : g[a - 1] <= g[a]
    BY AllowedEverywhere DEF Spans
  <1>2. g[Window - 1] + p <= Limit - 1 + Counted(n + 1)
    <2>1. Window - 1 \in 0 .. Window - 1
      BY LimiterAssumption
    <2>2. f[Window - 1] \in Nat /\ g[Window - 1] = f[Window - 1] + 1
      BY <2>1
    <2> QED
      BY <2>2, LimiterAssumption DEF Spans, Counted
  <1>3. ASSUME t # NoTTL, t < Window
        PROVE  g[Window - 1 - t] <= Counted(n + 1) - 1
    <2>1. Window - 1 - t \in 0 .. Window - 1
      BY <1>3, LimiterAssumption DEF NoTTL
    <2>2. /\ f[Window - 1 - t] \in Nat
          /\ g[Window - 1 - t] = f[Window - 1 - t] + 1
          /\ f[Window - 1 - t] <= Counted(n) - 1
      BY <1>3, <2>1 DEF Spans
    <2> QED
      BY <2>2, LimiterAssumption DEF Counted
  <1> QED
    BY <1>1, <1>2, <1>3 DEF Spans

\* The first call of a life, counted before, is allowed with or without a TTL.
LEMMA SpansFirst ==
    ASSUME NEW n \in 0 .. Limit + 1, NEW u \in {NoTTL, Window},
           NEW f \in [0 .. Window - 1 -> Nat],
           NEW g \in [0 .. Window - 1 -> Nat],
           Spans(n, NoTTL, f, 1),
           \A a \in 0 .. Window - 1 : g[a] = f[a] + 1
    PROVE  Spans(n, u, g, 0)
  <1>1. \A a \in 1 .. Window - 1 : g[a - 1] <= g[a]
    BY AllowedEverywhere DEF Spans
  <1>2. g[Window - 1] + 0 <= Limit - 1 + Counted(n)
    <2>1. Window - 1 \in 0 .. Window - 1
      BY LimiterAssumption
    <2>2. f[Window - 1] \in Nat /\ g[Window - 1] = f[Window - 1] + 1
      BY <2>1
    <2> QED
      BY <2>2, LimiterAssumption DEF Spans, Counted
  <1> QED
    BY <1>1, <1>2, LimiterAssumption DEF Spans

\* A call that is counted and not allowed, or that begins a life, or a first
\* call that is given up.
LEMMA SpansQuiet ==
    ASSUME NEW n \in 0 .. Limit + 1, NEW m \in 0 .. Limit + 1,
           NEW t \in 1 .. Window \cup {NoTTL},
           NEW f \in [0 .. Window - 1 -> Nat],
           NEW p \in {0, 1}, NEW q \in {0, 1},
           Spans(n, t, f, p), n <= m,
           q <= p \/ (n = 0 /\ m = 1)
    PROVE  Spans(m, t, f, q)
  <1>1. Counted(n) \in Nat /\ Counted(m) \in Nat /\ Counted(n) <= Counted(m)
    BY LimiterAssumption DEF Counted
  <1>2. f[Window - 1] + q <= Limit - 1 + Counted(m)
    <2>1. f[Window - 1] \in Nat
      BY LimiterAssumption
    <2>2. f[Window - 1] + p <= Limit - 1 + Counted(n)
      BY DEF Spans
    <2>3. CASE q <= p
      BY <1>1, <2>1, <2>2, <2>3, LimiterAssumption
    <2>4. CASE n = 0 /\ m = 1
      <3>1. Counted(n) = 0 /\ Counted(m) = 1
        BY <2>4, LimiterAssumption DEF Counted
      <3> QED
        BY <2>1, <2>2, <3>1, LimiterAssumption
    <2> QED
      BY <2>3, <2>4
  <1>3. ASSUME t # NoTTL, t < Window
        PROVE  f[Window - 1 - t] <= Counted(m) - 1
    <2>1. Window - 1 - t \in 0 .. Window - 1
      BY <1>3, LimiterAssumption DEF NoTTL
    <2>2. f[Window - 1 - t] \in Nat /\ f[Window - 1 - t] <= Counted(n) - 1
      BY <1>3, <2>1 DEF Spans
    <2> QED
      BY <1>1, <2>2
  <1> QED
    BY <1>2, <1>3 DEF Spans

\* A tick: the calls age, the oldest fall out of the span, and the key may
\* be deleted with its counter.
LEMMA SpansAge ==
    ASSUME NEW n \in 0 .. Limit + 1, NEW t \in 1 .. Window \cup {NoTTL},
           NEW f \in [0 .. Window - 1 -> Nat], NEW p \in {0, 1},
           Spans(n, t, f, p),
           t # NoTTL => n > 0 /\ p = 0
    PROVE  Spans(IF t = 1 THEN 0 ELSE n,
                 IF t \in {1, NoTTL} THEN NoTTL ELSE t - 1,
                 [a \in 0 .. Window - 1 |-> IF a = 0 THEN 0 ELSE f[a - 1]],
                 p)
  <1> DEFINE m == IF t = 1 THEN 0 ELSE n
             u == IF t \in {1, NoTTL} THEN NoTTL ELSE t - 1
             g == [a \in 0 .. Window - 1 |-> IF a = 0 THEN 0 ELSE f[a - 1]]
  <1>1. /\ g[0] = 0
        /\ \A a \in 1 .. Window - 1 :
               a - 1 \in 0 .. Window - 1 /\ g[a] = f[a - 1]
    BY LimiterAssumption
  <1>2. \A a \in 0 .. Window - 1 : f[a] \in Nat
    OBVIOUS
  <1>3. \A a \in 1 .. Window - 1 : f[a - 1] <= f[a]
    BY DEF Spans
  <1> HIDE DEF g
  <1>4. ASSUME NEW a \in 1 .. Window - 1
        PROVE  g[a - 1] <= g[a]
    <2>1. g[a] = f[a - 1] /\ f[a - 1] \in Nat
      BY <1>1, <1>2
    <2>2. CASE a = 1
      BY <1>1, <2>1, <2>2
    <2>3. CASE a # 1
      <3>1. a - 1 \in 1 .. Window - 1
        BY <2>3, LimiterAssumption
      <3>2. g[a - 1] = f[a - 1 - 1] /\ f[a - 1 - 1] <= f[a - 1]
        BY <1>1, <1>3, <3>1
      <3> QED
        BY <2>1, <3>2
    <2> QED
      BY <2>2, <2>3
  <1>5. g[Window - 1] + p <= Limit - 1 + Counted(m)
    <2>1. f[Window - 1] \in Nat /\ f[Window - 1] + p <= Limit - 1 + Counted(n)
      BY <1>2, LimiterAssumption DEF Spans
    <2>2. CASE Window = 1
      <3>1. g[Window - 1] = 0
        BY <1>1, <2>2
      <3>2. CASE t = NoTTL
        <4>1. m = n
          BY <3>2 DEF NoTTL
        <4> QED
          BY <2>1, <3>1, <4>1, LimiterAssumption DEF Counted
      <3>3. CASE t # NoTTL
        BY <3>1, <3>3, LimiterAssumption DEF Counted
      <3> QED
        BY <3>2, <3>3
    <2>3. CASE Window # 1
      <3>1. Window - 1 \in 1 .. Window - 1 /\ Window - 1 - 1 = Window - 2
        BY <2>3, LimiterAssumption
      <3>2. /\ g[Window - 1] = f[Window - 2] /\ f[Window - 2] \in Nat
            /\ f[Window - 2] <= f[Window - 1]
        BY <1>1, <1>2, <1>3, <3>1
      <3>3. CASE t = 1
        <4>1. f[Window - 2] <= Counted(n) - 1 /\ p = 0 /\ Counted(m) = 0
          <5>1. f[Window - 1 - t] <= Counted(n) - 1
            BY <2>3, <3>3, LimiterAssumption DEF Spans, NoTTL
          <5>2. Window - 1 - t = Window - 2 /\ p = 0 /\ m = 0
            BY <3>3, LimiterAssumption DEF NoTTL
          <5> QED
            BY <5>1, <5>2, LimiterAssumption DEF Counted
        <4> QED
          BY <3>2, <4>1, LimiterAssumption DEF Counted
      <3>4. CASE t # 1
        <4>1. m = n
          BY <3>4
        <4> QED
          BY <2>1, <3>2, <4>1, LimiterAssumption DEF Counted
      <3> QED
        BY <3>3, <3>4
    <2> QED
      BY <2>2, <2>3
  <1>6. ASSUME u # NoTTL, u < Window
        PROVE  g[Window - 1 - u] <= Counted(m) - 1
    <2>1. t \in 2 .. Window /\ u = t - 1 /\ m = n /\ n > 0
      BY <1>6 DEF NoTTL
    <2>2. Window - 1 - u = Window - t
      BY <2>1, LimiterAssumption
    <2>3. CASE t = Window
      <3>1. g[Window - 1 - u] = 0
        BY <1>1, <2>2, <2>3, LimiterAssumption
      <3> QED
        BY <2>1, <3>1, LimiterAssumption DEF Counted
    <2>4. CASE t # Window
      <3>1. /\ Window - t \in 1 .. Window - 1
            /\ Window - t - 1 = Window - 1 - t
        BY <2>1, <2>4, LimiterAssumption
      <3>2. g[Window - t] = f[Window - 1 - t]
        BY <1>1, <3>1
      <3>3. f[Window - 1 - t] <= Counted(n) - 1
        BY <2>1, <2>4, LimiterAssumption DEF Spans, NoTTL
      <3> QED
        BY <2>1, <2>2, <3>2, <3>3
    <2> QED
      BY <2>3, <2>4
  <1>7. Spans(m, u, g, p)
    BY <1>4, <1>5, <1>6 DEF Spans
  <1> QED
    BY <1>7 DEF m, u, g

\* The values of one key, in this state and the next.
LEMMA KeyValues ==
    ASSUME TypeOK, TypeOK', NEW k \in Keys
    PROVE  /\ count[k] \in 0 .. Limit + 1 /\ count'[k] \in 0 .. Limit + 1
           /\ ttl[k] \in 1 .. Window \cup {NoTTL}
           /\ ttl'[k] \in 1 .. Window \cup {NoTTL}
           /\ recent[k] \in [0 .. Window - 1 -> Nat]
           /\ recent'[k] \in [0 .. Window - 1 -> Nat]
           /\ Pending(k) \in {0, 1} /\ Pending(k)' \in {0, 1}
  BY DEF TypeOK, Pending

LEMMA InitSpansInv == Init => SpansInv
  <1> SUFFICES ASSUME Init, NEW k \in Keys
               PROVE  SpanInv(k)
    BY DEF SpansInv
  <1>1. recent[k] = [a \in 0 .. Window - 1 |-> 0]
    BY DEF Init
  <1>2. \A a \in 0 .. Window - 1 : recent[k][a] = 0
    BY <1>1
  <1>3. \A a \in 1 .. Window - 1 : recent[k][a - 1] <= recent[k][a]
    <2> SUFFICES ASSUME NEW a \in 1 .. Window - 1
                 PROVE  recent[k][a - 1] <= recent[k][a]
      OBVIOUS
    <2>1. a - 1 \in 0 .. Window - 1 /\ a \in 0 .. Window - 1
      BY LimiterAssumption
    <2> QED
      BY <1>2, <2>1
  <1>4. Pending(k) = 0
    BY LimiterAssumption DEF Init, Pending
  <1>5. count[k] = 0 /\ ttl[k] = NoTTL
    BY DEF Init
  <1>6. recent[k][Window - 1] = 0
    BY <1>2, LimiterAssumption
  <1>7. recent[k][Window - 1] + Pending(k) <= Limit - 1 + Counted(count[k])
    BY <1>4, <1>5, <1>6, LimiterAssumption DEF Counted
  <1> QED
    BY <1>3, <1>5, <1>7 DEF SpanInv, Spans

\* A key that a step leaves alone keeps its spans.
LEMMA OtherKeys ==
    ASSUME SpansInv, NEW k \in Keys,
           count'[k] = count[k], ttl'[k] = ttl[k], recent'[k] = recent[k],
           (\E c \in Callers : expiring'[c] = k) <=>
               (\E c \in Callers : expiring[c] = k)
    PROVE  SpanInv(k)'
  BY DEF SpansInv, SpanInv, Pending

\* Allow: a new life, a call allowed or a call rejected.
LEMMA IncrSpans ==
    ASSUME KeyInv, KeyInv', SpansInv, NEW c \in Callers, NEW k \in Keys,
           Incr(c, k), NEW j \in Keys
    PROVE  SpanInv(j)'
  <1>1. TypeOK /\ TypeOK' /\ SpanInv(k)
    BY DEF KeyInv, SpansInv
  <1>2. /\ count' = [count EXCEPT ![k] = Incremented(k)]
        /\ UNCHANGED <<ttl, faults>>
        /\ count'[k] = Incremented(k)
        /\ \A i \in Keys \ {k} : count'[i] = count[i]
    BY <1>1 DEF Incr, TypeOK
  <1>3. \A i \in Keys \ {k} : recent'[i] = recent[i]
    <2>1. Admit(k) \/ UNCHANGED recent
      BY DEF Incr
    <2> QED
      BY <1>1, <2>1, AdmitType
  <1>4. \A i \in Keys \ {k} : (\E d \in Callers : expiring'[d] = i) <=>
                              (\E d \in Callers : expiring[d] = i)
    <2>1. /\ expiring[c] = NoKey
          /\ UNCHANGED expiring \/ expiring' = [expiring EXCEPT ![c] = k]
      BY DEF Incr
    <2>2. \A d \in Callers \ {c} : expiring'[d] = expiring[d]
      BY <1>1, <2>1 DEF TypeOK
    <2>3. expiring'[c] \in {k, NoKey}
      BY <1>1, <2>1 DEF TypeOK
    <2> QED
      BY <2>1, <2>2, <2>3, LimiterAssumption
  <1>5. CASE j # k
    BY <1>2, <1>3, <1>4, <1>5, OtherKeys
  <1> DEFINE n == count[k]
             m == count'[k]
             t == ttl[k]
             u == ttl'[k]
             f == recent[k]
             g == recent'[k]
             b == Pending(k)
             q == Pending(k)'
  <1>6. /\ n \in 0 .. Limit + 1 /\ m \in 0 .. Limit + 1
        /\ t \in 1 .. Window \cup {NoTTL} /\ u \in 1 .. Window \cup {NoTTL}
        /\ f \in [0 .. Window - 1 -> Nat] /\ g \in [0 .. Window - 1 -> Nat]
        /\ b \in {0, 1} /\ q \in {0, 1}
    BY <1>1, KeyValues
  <1>7. Spans(n, t, f, b) /\ u = t /\ (SpanInv(k)' <=> Spans(m, u, g, q))
    BY <1>1, <1>2 DEF SpanInv
  <1>8. ASSUME count[k] = 0
        PROVE  SpanInv(k)'
    <2>1. m = 1 /\ g = f /\ n = 0
      BY <1>1, <1>2, <1>8, IncrementedValue DEF Incr
    <2> HIDE DEF n, m, t, u, f, g, b, q
    <2> QED
      BY <1>6, <1>7, <2>1, SpansQuiet
  <1>9. ASSUME count[k] # 0
        PROVE  SpanInv(k)'
    <2>1. Incremented(k) # 1 /\ UNCHANGED expiring
      BY <1>1, <1>9, IncrementedValue DEF Incr
    <2>2. Pending(k)' = Pending(k)
      BY <2>1 DEF Pending
    <2>3. CASE Verdict(Incremented(k))
      <3>1. Admit(k)
        BY <2>1, <2>3 DEF Incr
      <3>2. count'[k] = count[k] + 1 /\ count'[k] <= Limit
        BY <1>1, <1>2, <2>3, LimiterAssumption
        DEF Incremented, Verdict, TypeOK
      <3>3. \A a \in 0 .. Window - 1 : g[a] = f[a] + 1
        BY <1>1, <3>1, AdmitType
      <3>4. m = n + 1 /\ m <= Limit /\ q = b
        BY <2>2, <3>2
      <3> HIDE DEF n, m, t, u, f, g, b, q
      <3>5. Spans(n + 1, t, g, b)
        BY <1>6, <1>7, <3>3, <3>4, SpansAllow
      <3> QED
        BY <1>7, <3>4, <3>5
    <2>4. CASE ~Verdict(Incremented(k))
      <3>1. g = f /\ q = b
        BY <2>1, <2>2, <2>4 DEF Incr
      <3>2. n <= m
        BY <1>1, <1>2 DEF Incremented, TypeOK
      <3>3. q <= b
        BY <1>6, <3>1
      <3> HIDE DEF n, m, t, u, f, g, b, q
      <3> QED
        BY <1>6, <1>7, <3>1, <3>2, <3>3, SpansQuiet
    <2> QED
      BY <2>3, <2>4
  <1> QED
    BY <1>5, <1>8, <1>9

\* A lost reply counts a call that nobody allowed.
LEMMA LostReplySpans ==
    ASSUME KeyInv, KeyInv', SpansInv, NEW k \in Keys, IncrReplyLost(k),
           NEW j \in Keys
    PROVE  SpanInv(j)'
  <1>1. TypeOK /\ TypeOK' /\ SpanInv(j)
    BY DEF KeyInv, SpansInv
  <1>2. UNCHANGED <<ttl, expiring, recent>> /\ Pending(j)' = Pending(j)
    BY DEF IncrReplyLost, Pending
  <1>3. count[j] <= count'[j]
    BY <1>1 DEF IncrReplyLost, Incremented, TypeOK
  <1>4. Spans(count'[j], ttl[j], recent[j], Pending(j))
    <2> DEFINE n == count[j]
               m == count'[j]
               t == ttl[j]
               f == recent[j]
               b == Pending(j)
    <2>1. /\ n \in 0 .. Limit + 1 /\ m \in 0 .. Limit + 1
          /\ t \in 1 .. Window \cup {NoTTL}
          /\ f \in [0 .. Window - 1 -> Nat] /\ b \in {0, 1} /\ b <= b
      BY <1>1, KeyValues
    <2>2. Spans(n, t, f, b) /\ n <= m
      BY <1>1, <1>3 DEF SpanInv
    <2> HIDE DEF n, m, t, f, b
    <2>3. Spans(m, t, f, b)
      BY <2>1, <2>2, SpansQuiet
    <2> QED
      BY <2>3 DEF m, t, f, b
  <1> QED
    BY <1>2, <1>4 DEF SpanInv

\* The first caller of a life is allowed, after its EXPIRE or its failure.
LEMMA FirstCallerSpans ==
    ASSUME KeyInv, KeyInv', SpansInv, NEW c \in Callers, NEW k \in Keys,
           expiring[c] = k, FirstAllowed(c), SetTTL(k) \/ UNCHANGED ttl,
           NEW j \in Keys
    PROVE  SpanInv(j)'
  <1>1. TypeOK /\ TypeOK' /\ k # NoKey
    BY LimiterAssumption DEF KeyInv
  <1>2. /\ count' = count /\ Admit(k)
        /\ expiring' = [expiring EXCEPT ![c] = NoKey]
    BY DEF FirstAllowed
  <1>3. /\ \A a \in 0 .. Window - 1 : recent'[k][a] = recent[k][a] + 1
        /\ \A i \in Keys \ {k} : recent'[i] = recent[i]
    BY <1>1, <1>2, AdmitType
  <1>4. /\ expiring'[c] = NoKey
        /\ \A d \in Callers \ {c} : expiring'[d] = expiring[d]
    BY <1>1, <1>2 DEF TypeOK
  <1>5. ttl[k] = NoTTL /\ \A d \in Callers \ {c} : expiring[d] # k
    BY <1>1 DEF KeyInv, ExpireOncePerLife
  <1>6. /\ \A i \in Keys \ {k} : ttl'[i] = ttl[i]
        /\ ttl'[k] = ttl[k] \/ ttl'[k] = Window
    BY <1>1 DEF SetTTL, TypeOK
  <1>7. CASE j # k
    <2>1. \A d \in Callers : expiring'[d] = j <=> expiring[d] = j
      BY <1>4, <1>7, LimiterAssumption
    <2>2. (\E d \in Callers : expiring'[d] = j) <=>
              (\E d \in Callers : expiring[d] = j)
      BY <2>1
    <2> QED
      BY <1>2, <1>3, <1>6, <1>7, <2>2, OtherKeys
  <1>8. Pending(k) = 1 /\ Pending(k)' = 0
    <2>1. \A d \in Callers : expiring'[d] # k
      BY <1>1, <1>4, <1>5
    <2> QED
      BY <2>1 DEF Pending
  <1>9. SpanInv(k)'
    <2> DEFINE n == count[k]
               t == ttl[k]
               u == ttl'[k]
               f == recent[k]
               g == recent'[k]
    <2>1. /\ n \in 0 .. Limit + 1
          /\ t \in 1 .. Window \cup {NoTTL} /\ u \in 1 .. Window \cup {NoTTL}
          /\ f \in [0 .. Window - 1 -> Nat] /\ g \in [0 .. Window - 1 -> Nat]
      BY <1>1, KeyValues
    <2>2. /\ Spans(n, t, f, 1) /\ \A a \in 0 .. Window - 1 : g[a] = f[a] + 1
          /\ u = t \/ u = Window
          /\ t = NoTTL
      BY <1>3, <1>5, <1>6, <1>8 DEF SpansInv, SpanInv
    <2> HIDE DEF n, t, u, f, g
    <2>3. Spans(n, u, g, 0)
      BY <2>1, <2>2, SpansFirst
    <2> QED
      BY <1>2, <1>8, <2>3 DEF SpanInv, n, u, g
  <1> QED
    BY <1>7, <1>9

\* With the server die the first callers: nothing more is allowed.
LEMMA DeathSpans ==
    ASSUME KeyInv, KeyInv', SpansInv, ServerDies, NEW j \in Keys
    PROVE  SpanInv(j)'
  <1>1. TypeOK /\ TypeOK' /\ UNCHANGED <<count, ttl, recent>>
    BY DEF KeyInv, ServerDies
  <1>2. Pending(j)' = 0
    BY LimiterAssumption DEF ServerDies, Pending
  <1>3. Spans(count[j], ttl[j], recent[j], 0)
    <2> DEFINE n == count[j]
               t == ttl[j]
               f == recent[j]
               b == Pending(j)
    <2>1. /\ n \in 0 .. Limit + 1 /\ t \in 1 .. Window \cup {NoTTL}
          /\ f \in [0 .. Window - 1 -> Nat] /\ b \in {0, 1} /\ 0 <= b
          /\ n <= n
      BY <1>1, KeyValues
    <2>2. Spans(n, t, f, b)
      BY DEF SpansInv, SpanInv
    <2> HIDE DEF n, t, f, b
    <2>3. Spans(n, t, f, 0)
      BY <2>1, <2>2, SpansQuiet
    <2> QED
      BY <2>3 DEF n, t, f
  <1> QED
    BY <1>1, <1>2, <1>3 DEF SpanInv

LEMMA TickSpans ==
    ASSUME KeyInv, KeyInv', SpansInv, Tick, NEW j \in Keys
    PROVE  SpanInv(j)'
  <1> DEFINE n == count[j]
             t == ttl[j]
             f == recent[j]
             b == Pending(j)
  <1>1. /\ n \in 0 .. Limit + 1 /\ t \in 1 .. Window \cup {NoTTL}
        /\ f \in [0 .. Window - 1 -> Nat] /\ b \in {0, 1}
    BY KeyValues DEF KeyInv
  <1>2. t # NoTTL => n > 0 /\ b = 0
    <2>1. t # NoTTL => n # 0 /\ \A c \in Callers : expiring[c] # j
      BY LimiterAssumption DEF KeyInv, NoTTLWithoutKey, ExpireOncePerLife
    <2> QED
      BY <1>1, <2>1 DEF Pending
  <1>3. Spans(n, t, f, b)
    BY DEF SpansInv, SpanInv
  <1>4. /\ count'[j] = IF t = 1 THEN 0 ELSE n
        /\ ttl'[j] = IF t \in {1, NoTTL} THEN NoTTL ELSE t - 1
        /\ recent'[j] = [a \in 0 .. Window - 1 |-> IF a = 0 THEN 0 ELSE f[a - 1]]
        /\ Pending(j)' = b
    BY DEF Tick, Pending
  <1> HIDE DEF n, t, f, b
  <1>5. Spans(IF t = 1 THEN 0 ELSE n,
              IF t \in {1, NoTTL} THEN NoTTL ELSE t - 1,
              [a \in 0 .. Window - 1 |-> IF a = 0 THEN 0 ELSE f[a - 1]], b)
    BY <1>1, <1>2, <1>3, SpansAge
  <1> QED
    BY <1>4, <1>5 DEF SpanInv

LEMMA NextSpansInv == KeyInv /\ SpansInv /\ [Next]_vars => SpansInv'
  <1> SUFFICES ASSUME KeyInv, SpansInv, [Next]_vars, NEW j \in Keys
               PROVE  SpanInv(j)'
    BY DEF SpansInv
  <1>1. KeyInv'
    BY NextKeyInv
  <1>2. ASSUME NEW c \in Callers, NEW k \in Keys, Incr(c, k)
        PROVE  SpanInv(j)'
    BY <1>1, <1>2, IncrSpans
  <1>3. ASSUME NEW k \in Keys, IncrReplyLost(k)
        PROVE  SpanInv(j)'
    BY <1>1, <1>3, LostReplySpans
  <1>4. ASSUME NEW c \in Callers, Expire(c) \/ ExpireFails(c)
        PROVE  SpanInv(j)'
    <2>1. expiring[c] \in Keys
      BY <1>4 DEF KeyInv, TypeOK, Expire, ExpireFails
    <2> QED
      BY <1>1, <1>4, <2>1, FirstCallerSpans DEF Expire, ExpireFails
  <1>5. CASE ServerDies
    BY <1>1, <1>5, DeathSpans
  <1>6. CASE Tick
    BY <1>1, <1>6, TickSpans
  <1>7. CASE UNCHANGED vars
    BY <1>7 DEF vars, SpansInv, SpanInv, Pending
  <1> QED
    BY <1>2, <1>3, <1>4, <1>5, <1>6, <1>7 DEF Next

\* A span of a window's length never sees more than 2 * Limit - 1 allowed
\* calls, whatever fails: for every limit and every window.
THEOREM SpansAreBounded == Spec => []WindowBound
  <1>1. KeyInv /\ SpansInv => WindowBound
    <2> SUFFICES ASSUME KeyInv, SpansInv, NEW k \in Keys
                 PROVE  recent[k][Window - 1] <= 2 * Limit - 1
      BY DEF WindowBound
    <2>1. recent[k][Window - 1] + Pending(k) <= Limit - 1 + Counted(count[k])
      BY DEF SpansInv, SpanInv, Spans
    <2>2. /\ recent[k][Window - 1] \in Nat /\ Pending(k) \in {0, 1}
          /\ Counted(count[k]) \in 0 .. Limit
      BY LimiterAssumption DEF KeyInv, TypeOK, Pending, Counted
    <2> QED
      BY <2>1, <2>2, LimiterAssumption
  <1> QED
    BY <1>1, InitKeyInv, NextKeyInv, InitSpansInv, NextSpansInv, PTL DEF Spec
=============================================================================
