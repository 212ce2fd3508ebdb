--------------------------- MODULE UserCacheProofs ---------------------------
(* Theorems about UserCache, for every TTL, bound and set of callers. *)
EXTENDS UserCache, TLAPS

\* A lookup on its way to its SET holds a value no older than the time since
\* it was read; the current version of the row is not out of date.
HeldIsRecent ==
    \A c \in Callers : lookup[c].step = "set" =>
        lookup[c].val \in Versions /\ outdated[lookup[c].val] <= lookup[c].held

CurrentIsCurrent ==
    /\ Version \in Versions
    /\ \A v \in Versions : v >= Version => outdated[v] = 0

\* A lookup that meets an unreadable row knows it.
UnreadableIsSeen ==
    \A c \in Callers : lookup[c].step # "idle" /\ ~Readable => lookup[c].excuse

CacheInv ==
    /\ TypeOK
    /\ CurrentIsCurrent
    /\ HeldIsRecent
    /\ FreshEnough
    /\ UnreadableIsSeen
    /\ ErrorHasCause

LEMMA InitCacheInv == Init => CacheInv
  <1> SUFFICES ASSUME Init
               PROVE  CacheInv
    OBVIOUS
  <1> USE ConstantsAssumption DEF Init, Versions, NoEntry
  <1>1. PICK content \in Contents : row = <<content>>
    OBVIOUS
  <1>2. Idle \in Lookups
    BY DEF Idle, Lookups
  <1>3. TypeOK
    <2>1. 0 \in 0 .. Old
      BY DEF Old
    <2> QED
      BY <1>1, <1>2, <2>1 DEF TypeOK
  <1>4. CurrentIsCurrent
    BY <1>1 DEF CurrentIsCurrent, Version
  <1> QED
    BY <1>3, <1>4
    DEF CacheInv, HeldIsRecent, FreshEnough, UnreadableIsSeen, ErrorHasCause, Idle

\* A step of one caller that leaves the row, its age and the cache alone.
LEMMA QuietLookup ==
    ASSUME CacheInv, NEW c \in Callers,
           UNCHANGED <<kind, row, outdated, cache, ttl>>,
           NEW l \in Lookups, lookup' = [lookup EXCEPT ![c] = l],
           l.step = "set" => l.val \in Versions /\ outdated[l.val] <= l.held,
           l.step # "idle" /\ ~Readable => l.excuse,
           l.answer = "error" => l.excuse
    PROVE  CacheInv'
  <1>1. lookup \in [Callers -> Lookups]
    BY DEF CacheInv, TypeOK
  <1>2. lookup'[c] = l /\ \A d \in Callers \ {c} : lookup'[d] = lookup[d]
    BY <1>1
  <1>3. lookup' \in [Callers -> Lookups]
    BY <1>1
  <1>4. TypeOK' /\ CurrentIsCurrent' /\ FreshEnough'
    BY <1>3 DEF CacheInv, TypeOK, CurrentIsCurrent, FreshEnough, Version
  <1>5. HeldIsRecent'
    BY <1>2 DEF CacheInv, HeldIsRecent
  <1>6. UnreadableIsSeen' /\ ErrorHasCause'
    BY <1>2 DEF CacheInv, UnreadableIsSeen, ErrorHasCause, Readable, ReadableAs, Version
  <1> QED
    BY <1>4, <1>5, <1>6 DEF CacheInv

\* What Answer makes of a lookup.
Answered(c, answer) ==
    [lookup[c] EXCEPT !.step = "idle", !.answer = answer,
                      !.val = NoEntry, !.held = 0]

LEMMA AnswerIsLookup ==
    ASSUME CacheInv, NEW c \in Callers, NEW answer \in {"found", "error"},
           Answer(c, answer)
    PROVE  /\ Answered(c, answer) \in Lookups
           /\ lookup' = [lookup EXCEPT ![c] = Answered(c, answer)]
           /\ Answered(c, answer).step = "idle"
           /\ Answered(c, answer).answer = answer
           /\ Answered(c, answer).excuse = lookup[c].excuse
  <1> DEFINE lk == lookup[c]
  <1>1. lookup \in [Callers -> Lookups] /\ lk \in Lookups
    BY DEF CacheInv, TypeOK
  <1>2. lookup' = [lookup EXCEPT ![c] = Answered(c, answer)]
    BY <1>1 DEF Answer, Answered
  <1>3. NoEntry \in Versions \cup {NoEntry} /\ 0 \in 0 .. MaxHold
    BY ConstantsAssumption
  <1>4. /\ Answered(c, answer).step = "idle"
        /\ Answered(c, answer).answer = answer
        /\ Answered(c, answer).excuse = lk.excuse
        /\ Answered(c, answer) \in Lookups
    <2> HIDE DEF lk
    <2> QED
      BY <1>1, <1>3 DEF Answered, Lookups, lk
  <1> QED
    BY <1>2, <1>4

LEMMA QuietAnswer ==
    ASSUME CacheInv, NEW c \in Callers, NEW answer \in {"found", "error"},
           UNCHANGED <<kind, row, outdated, cache, ttl>>, Answer(c, answer),
           answer = "error" => lookup[c].excuse
    PROVE  CacheInv'
  BY AnswerIsLookup, QuietLookup

LEMMA GotoQuery ==
    ASSUME CacheInv, NEW c \in Callers, At(c, "get"),
           UNCHANGED <<kind, row, outdated, cache, ttl>>, Goto(c, "query")
    PROVE  CacheInv'
  <1> DEFINE l == [lookup[c] EXCEPT !.step = "query"]
  <1>1. lookup[c] \in Lookups
    BY DEF CacheInv, TypeOK
  <1>2. l \in Lookups /\ l.step = "query" /\ l.excuse = lookup[c].excuse
        /\ l.answer = lookup[c].answer
    BY <1>1 DEF Lookups
  <1>3. lookup' = [lookup EXCEPT ![c] = l]
    BY DEF Goto
  <1>4. lookup[c].answer = "error" => lookup[c].excuse
    BY DEF CacheInv, ErrorHasCause
  <1>5. ~Readable => lookup[c].excuse
    BY DEF CacheInv, UnreadableIsSeen, At
  <1> HIDE DEF l
  <1> QED
    BY <1>2, <1>3, <1>4, <1>5, QuietLookup

\* Every step of a lookup preserves the invariant.
LEMMA LookupCacheInv ==
    ASSUME CacheInv, NEW c \in Callers, Find(c) \/ Lookup(c)
    PROVE  CacheInv'
  <1> DEFINE lk == lookup[c]
  <1>0. /\ lookup \in [Callers -> Lookups]
        /\ lk \in Lookups
        /\ lk.step = "set" => lk.val \in Versions /\ outdated[lk.val] <= lk.held
        /\ lk.step # "idle" /\ ~Readable => lk.excuse
        /\ lk.answer = "error" => lk.excuse
    BY DEF CacheInv, TypeOK, HeldIsRecent, UnreadableIsSeen, ErrorHasCause
  <1>1. CASE Find(c)
    <2> DEFINE e == ~Readable
               l == [Idle EXCEPT !.step = "get", !.excuse = e]
    <2>1. e \in BOOLEAN
      BY DEF Readable, ReadableAs
    <2>2. lookup' = [lookup EXCEPT ![c] = l]
      BY <1>1 DEF Find
    <2>3. ~Readable => e
      OBVIOUS
    <2> HIDE DEF e
    <2>4. l \in Lookups /\ l.step = "get" /\ l.answer = "none" /\ l.excuse = e
      <3>1. Idle \in Lookups
        BY ConstantsAssumption DEF Idle, Lookups, NoEntry, Versions
      <3>2. Idle.answer = "none"
        BY DEF Idle
      <3> QED
        BY <2>1, <3>1, <3>2 DEF Lookups
    <2> HIDE DEF l
    <2> QED
      BY <1>1, <2>2, <2>3, <2>4, QuietLookup DEF Find
  <1>2. CASE GetHit(c)
    BY <1>2, QuietAnswer DEF GetHit
  <1>3. CASE GetMiss(c)
    BY <1>3, GotoQuery DEF GetMiss
  <1>4. CASE GetFails(c)
    BY <1>4, GotoQuery DEF GetFails
  <1>5. CASE QueryReads(c)
    <2> DEFINE l == [lk EXCEPT !.step = "set", !.val = Version]
    <2>1. Version \in Versions /\ outdated[Version] = 0
      BY DEF CacheInv, CurrentIsCurrent, Versions
    <2>2. /\ l \in Lookups
          /\ l.step = "set" /\ l.val = Version /\ l.held = lk.held
          /\ l.excuse = lk.excuse /\ l.answer = lk.answer
      BY <1>0, <2>1 DEF Lookups
    <2>3. 0 <= lk.held
      BY <1>0, ConstantsAssumption DEF Lookups
    <2>4. lookup' = [lookup EXCEPT ![c] = l]
      BY <1>5 DEF QueryReads
    <2>5. UNCHANGED <<kind, row, outdated, cache, ttl>> /\ Readable
      BY <1>5 DEF QueryReads
    <2> HIDE DEF l
    <2> QED
      BY <1>0, <2>1, <2>2, <2>3, <2>4, <2>5, QuietLookup
  <1>6. CASE QueryUnreadable(c)
    <2>1. lk.excuse
      BY <1>0, <1>6 DEF QueryUnreadable, At
    <2> QED
      BY <1>6, <2>1, QuietAnswer DEF QueryUnreadable
  <1>7. CASE QueryFails(c)
    <2> DEFINE l == [lk EXCEPT !.step = "idle", !.answer = "error",
                               !.excuse = TRUE]
    <2>1. l \in Lookups /\ l.step = "idle" /\ l.excuse
      BY <1>0 DEF Lookups
    <2>2. lookup' = [lookup EXCEPT ![c] = l]
      BY <1>7 DEF QueryFails
    <2> HIDE DEF l
    <2> QED
      BY <1>7, <2>1, <2>2, QuietLookup DEF QueryFails
  <1>8. CASE Set(c)
    <2> DEFINE l == Answered(c, "found")
    <2>1. /\ l \in Lookups /\ lookup' = [lookup EXCEPT ![c] = l]
          /\ l.step = "idle" /\ l.answer = "found"
      BY <1>8, AnswerIsLookup DEF Set
    <2>2. /\ lk.val \in Versions /\ outdated[lk.val] <= lk.held
          /\ lk.held \in 0 .. MaxHold
      BY <1>0, <1>8 DEF Set, At, Lookups
    <2>3. /\ lookup' \in [Callers -> Lookups]
          /\ lookup'[c] = l
          /\ \A d \in Callers \ {c} : lookup'[d] = lookup[d]
      BY <1>0, <2>1
    <2>4. cache' = lk.val /\ ttl' = TTL /\ UNCHANGED <<kind, row, outdated>>
      BY <1>8 DEF Set
    <2> HIDE DEF l
    <2>5. TypeOK' /\ CurrentIsCurrent'
      BY <2>2, <2>3, <2>4, ConstantsAssumption
      DEF CacheInv, TypeOK, CurrentIsCurrent, Version
    <2>6. FreshEnough'
      <3>1. outdated[lk.val] \in 0 .. Old
        BY <2>2 DEF CacheInv, TypeOK
      <3>2. outdated[lk.val] + TTL <= TTL + MaxHold
        BY <2>2, <3>1, ConstantsAssumption DEF Old
      <3> QED
        BY <2>4, <3>2, ConstantsAssumption DEF FreshEnough
    <2>7. HeldIsRecent'
      BY <2>1, <2>3, <2>4 DEF CacheInv, HeldIsRecent
    <2>8. UnreadableIsSeen' /\ ErrorHasCause'
      BY <2>1, <2>3, <2>4
      DEF CacheInv, UnreadableIsSeen, ErrorHasCause, Readable, ReadableAs, Version
    <2> QED
      BY <2>5, <2>6, <2>7, <2>8 DEF CacheInv
  <1>9. CASE SetFails(c)
    BY <1>9, QuietAnswer DEF SetFails
  <1> QED
    BY <1>1, <1>2, <1>3, <1>4, <1>5, <1>6, <1>7, <1>8, <1>9 DEF Lookup

\* A row that changes: lookups under way note that it is unreadable.
LEMMA UpdateCacheInv ==
    ASSUME CacheInv, NEW content \in Contents, Update(content)
    PROVE  CacheInv'
  <1>1. /\ lookup \in [Callers -> Lookups] /\ row \in Seq(Contents)
        /\ Version \in Versions
    BY DEF CacheInv, TypeOK, CurrentIsCurrent
  <1>2. /\ row' = Append(row, content) /\ UNCHANGED <<kind, outdated, cache, ttl>>
        /\ Version < MaxUpdates
    BY DEF Update
  <1>3. /\ row' \in Seq(Contents) /\ Version' = Version + 1
        /\ row'[Version'] = content
    BY <1>1, <1>2 DEF Version
  <1>4. \A c \in Callers :
           /\ lookup'[c] \in Lookups
           /\ lookup'[c].step = lookup[c].step
           /\ lookup'[c].val = lookup[c].val
           /\ lookup'[c].held = lookup[c].held
           /\ lookup'[c].answer = lookup[c].answer
           /\ lookup'[c].excuse = (lookup[c].excuse \/ ~ReadableAs(content))
    <2> TAKE c \in Callers
    <2> DEFINE e == lookup[c].excuse \/ ~ReadableAs(content)
    <2>1. e \in BOOLEAN
      BY DEF ReadableAs
    <2>2. lookup'[c] = [lookup[c] EXCEPT !.excuse = e]
      BY <1>1 DEF Update
    <2>3. lookup[c] \in Lookups
      BY <1>1
    <2> HIDE DEF e
    <2>4. /\ lookup'[c] \in Lookups
          /\ lookup'[c].step = lookup[c].step
          /\ lookup'[c].val = lookup[c].val
          /\ lookup'[c].held = lookup[c].held
          /\ lookup'[c].answer = lookup[c].answer
          /\ lookup'[c].excuse = e
      BY <2>1, <2>2, <2>3 DEF Lookups
    <2> QED
      BY <2>4 DEF e
  <1>5. lookup' \in [Callers -> Lookups]
    <2>1. lookup' = [c \in Callers |-> lookup'[c]]
      BY DEF Update
    <2> QED
      BY <1>4, <2>1
  <1>6. TypeOK'
    BY <1>2, <1>3, <1>5 DEF CacheInv, TypeOK
  <1>7. CurrentIsCurrent'
    BY <1>1, <1>2, <1>3, ConstantsAssumption DEF CacheInv, CurrentIsCurrent, Versions
  <1>8. HeldIsRecent' /\ FreshEnough'
    BY <1>2, <1>4 DEF CacheInv, HeldIsRecent, FreshEnough
  <1>9. Readable' <=> ReadableAs(content)
    BY <1>2, <1>3 DEF Readable, ReadableAs
  <1>10. UnreadableIsSeen' /\ ErrorHasCause'
    BY <1>4, <1>9 DEF CacheInv, UnreadableIsSeen, ErrorHasCause
  <1> QED
    BY <1>6, <1>7, <1>8, <1>10 DEF CacheInv

\* Time passes: an entry loses as much time to live as its value gains age.
LEMMA TickCacheInv ==
    ASSUME CacheInv, Tick
    PROVE  CacheInv'
  <1>1. /\ lookup \in [Callers -> Lookups] /\ ttl \in 0 .. TTL
        /\ cache \in Versions \cup {NoEntry}
        /\ outdated \in [Versions -> 0 .. Old]
    BY DEF CacheInv, TypeOK
  <1>2. /\ UNCHANGED <<kind, row>>
        /\ ttl' = (IF ttl > 0 THEN ttl - 1 ELSE 0)
        /\ cache' = (IF ttl = 1 THEN NoEntry ELSE cache)
    BY DEF Tick, TimeLeft
  <1>3. \A v \in Versions :
           outdated'[v] = (IF v < Version /\ outdated[v] < Old
                             THEN outdated[v] + 1 ELSE outdated[v])
    BY DEF Tick
  <1>4. \A v \in Versions :
           outdated'[v] \in 0 .. Old /\ outdated'[v] <= outdated[v] + 1
    BY <1>1, <1>3, ConstantsAssumption DEF Old
  <1>5. \A c \in Callers :
           /\ lookup'[c] \in Lookups
           /\ lookup'[c].step = lookup[c].step
           /\ lookup'[c].val = lookup[c].val
           /\ lookup'[c].answer = lookup[c].answer
           /\ lookup'[c].excuse = lookup[c].excuse
           /\ lookup[c].step = "set" => lookup'[c].held = lookup[c].held + 1
    <2> TAKE c \in Callers
    <2> DEFINE h == IF lookup[c].step = "set" THEN lookup[c].held + 1
                                              ELSE lookup[c].held
    <2>1. lookup[c] \in Lookups
      BY <1>1
    <2>2. lookup[c].step = "set" => lookup[c].held < MaxHold
      BY DEF Tick
    <2>3. h \in 0 .. MaxHold
      BY <2>1, <2>2, ConstantsAssumption DEF Lookups
    <2>4. lookup'[c] = [lookup[c] EXCEPT !.held = h]
      BY <1>1 DEF Tick
    <2>5. lookup[c].step = "set" => h = lookup[c].held + 1
      OBVIOUS
    <2> HIDE DEF h
    <2> QED
      BY <2>1, <2>3, <2>4, <2>5 DEF Lookups
  <1>6. TypeOK'
    <2>1. lookup' = [c \in Callers |-> lookup'[c]]
      BY DEF Tick
    <2>2. outdated' = [v \in Versions |-> outdated'[v]]
      BY DEF Tick
    <2>3. lookup' \in [Callers -> Lookups] /\ outdated' \in [Versions -> 0 .. Old]
      BY <1>4, <1>5, <2>1, <2>2
    <2>4. ttl' \in 0 .. TTL /\ cache' \in Versions \cup {NoEntry}
      BY <1>1, <1>2, ConstantsAssumption
    <2> QED
      BY <1>2, <2>3, <2>4 DEF CacheInv, TypeOK
  <1>7. CurrentIsCurrent'
    <2>1. Version' = Version /\ Version \in Versions
      BY <1>2 DEF CacheInv, CurrentIsCurrent, Version
    <2> QED
      BY <1>3, <2>1, ConstantsAssumption DEF CacheInv, CurrentIsCurrent, Versions
  <1>8. HeldIsRecent'
    <2> SUFFICES ASSUME NEW c \in Callers, lookup'[c].step = "set"
                 PROVE  /\ lookup'[c].val \in Versions
                        /\ outdated'[lookup'[c].val] <= lookup'[c].held
      BY DEF HeldIsRecent
    <2>1. /\ lookup[c].val \in Versions /\ outdated[lookup[c].val] <= lookup[c].held
          /\ lookup[c].held \in 0 .. MaxHold
      BY <1>1, <1>5 DEF CacheInv, HeldIsRecent, Lookups
    <2>2. outdated[lookup[c].val] \in 0 .. Old
      BY <1>1, <2>1
    <2> QED
      BY <1>4, <1>5, <2>1, <2>2, ConstantsAssumption DEF Old
  <1>9. FreshEnough'
    <2> SUFFICES ASSUME cache' # NoEntry
                 PROVE  ttl' > 0 /\ outdated'[cache'] + ttl' <= TTL + MaxHold
      BY DEF FreshEnough
    <2>1. cache' = cache /\ cache \in Versions /\ ttl # 1
      BY <1>1, <1>2
    <2>2. ttl > 0 /\ outdated[cache] + ttl <= TTL + MaxHold
      BY <2>1 DEF CacheInv, FreshEnough
    <2>3. ttl' = ttl - 1 /\ outdated'[cache] <= outdated[cache] + 1
      BY <1>2, <1>4, <2>1, <2>2
    <2>4. outdated[cache] \in 0 .. Old /\ outdated'[cache] \in 0 .. Old
      BY <1>1, <1>4, <2>1
    <2> QED
      BY <1>1, <2>1, <2>2, <2>3, <2>4, ConstantsAssumption DEF Old
  <1>10. UnreadableIsSeen' /\ ErrorHasCause'
    BY <1>2, <1>5
    DEF CacheInv, UnreadableIsSeen, ErrorHasCause, Readable, ReadableAs, Version
  <1> QED
    BY <1>6, <1>7, <1>8, <1>9, <1>10 DEF CacheInv

LEMMA NextCacheInv == CacheInv /\ [Next]_vars => CacheInv'
  <1> SUFFICES ASSUME CacheInv, [Next]_vars
               PROVE  CacheInv'
    OBVIOUS
  <1>1. ASSUME NEW content \in Contents, Update(content)
        PROVE  CacheInv'
    BY <1>1, UpdateCacheInv
  <1>2. CASE Tick
    BY <1>2, TickCacheInv
  <1>3. ASSUME NEW c \in Callers, Find(c) \/ Lookup(c)
        PROVE  CacheInv'
    BY <1>3, LookupCacheInv
  <1>4. CASE UNCHANGED vars
    BY <1>4
    DEF vars, CacheInv, TypeOK, CurrentIsCurrent, HeldIsRecent, FreshEnough,
        UnreadableIsSeen, ErrorHasCause, Readable, ReadableAs, Version
  <1> QED
    BY <1>1, <1>2, <1>3, <1>4 DEF Next

\* The invariant of the lookups, the cache and the age of its entry.
THEOREM CacheInvAlways == Spec => []CacheInv
  BY InitCacheInv, NextCacheInv, PTL DEF Spec

\* What FindByID and FindPreferences serve is out of date for less than the
\* TTL and the time a lookup may hold a value, for every interleaving of
\* lookups, updates and expiry.
THEOREM CacheIsFreshEnough == Spec => []FreshEnough
  <1>1. CacheInv => FreshEnough
    BY DEF CacheInv
  <1> QED
    BY <1>1, CacheInvAlways, PTL

\* A lookup fails only when Postgres did or the row could not be read while
\* it ran: Redis never makes one fail.
THEOREM LookupsFailOpen == Spec => []ErrorHasCause
  <1>1. CacheInv => ErrorHasCause
    BY DEF CacheInv
  <1> QED
    BY <1>1, CacheInvAlways, PTL

\* Every variable of the lookups keeps its type, and no time to live falls
\* below zero (TypeOK, the type invariant of the runs).
THEOREM CacheTypeCorrect == Spec => []TypeOK
  <1>1. CacheInv => TypeOK
    BY DEF CacheInv
  <1> QED
    BY <1>1, CacheInvAlways, PTL
=============================================================================
