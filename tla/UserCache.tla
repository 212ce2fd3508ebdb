------------------------------ MODULE UserCache ------------------------------
(***************************************************************************)
(* The cache-aside reads of one row (internal/store.UserCache): FindByID   *)
(* and FindPreferences ask Redis, fall back to Postgres and store what     *)
(* they read with an expiry.  The two share no key and no row, so either   *)
(* is checked by itself.                                                   *)
(*                                                                         *)
(* A lookup is three round trips, GET, SELECT and SET, so a row may change *)
(* between any two of them and a value may be stored after the row it was  *)
(* read from is gone.  No code of the program writes users or preferences: *)
(* Update is the environment, and nothing tells the cache of it.           *)
(*                                                                         *)
(* A value is the number of the update that wrote the row.                 *)
(***************************************************************************)
EXTENDS Integers, Sequences

CONSTANTS
    Callers,    \* concurrent requests of the API
    TTL,        \* UserCache.ttl
    MaxHold,    \* bound: time a lookup holds a value before its SET is done
    MaxUpdates  \* bound: updates of a row

ASSUME ConstantsAssumption ==
    /\ TTL \in Nat \ {0}
    /\ MaxHold \in Nat
    /\ MaxUpdates \in Nat \ {0}

\* A row may be missing, and a column that allows NULL may be NULL.
Contents == {"none", "null", "full"}
NoEntry == 0
Versions == 1 .. MaxUpdates
Old == TTL + MaxHold + 1

VARIABLES
    kind,     \* which row: user:{id} or prefs:{id}
    row,      \* what each update made of it; the last is current
    outdated, \* outdated[v]: time since version v was replaced, up to Old
    cache,    \* the version Redis holds, or NoEntry
    ttl,      \* its remaining time to live
    lookup    \* lookup[c]: the lookup caller c is in, or was in last

vars == <<kind, row, outdated, cache, ttl, lookup>>

\* held: time since the SELECT.  excuse: during the lookup Postgres failed,
\* or the row could not be read.
Lookups == [step : {"idle", "get", "query", "set"},
            val : Versions \cup {NoEntry}, held : 0 .. MaxHold,
            answer : {"none", "found", "error"}, excuse : BOOLEAN]

TypeOK ==
    /\ kind \in {"user", "prefs"}
    /\ row \in Seq(Contents)
    /\ outdated \in [Versions -> 0 .. Old]
    /\ cache \in Versions \cup {NoEntry}
    /\ ttl \in 0 .. TTL
    /\ lookup \in [Callers -> Lookups]

Version == Len(row)

\* A user must have a row, preferences have defaults; a NULL cannot be
\* scanned into either.
ReadableAs(content) ==
    content = "full" \/ (kind = "prefs" /\ content = "none")
Readable == ReadableAs(row[Version])

Idle == [step |-> "idle", val |-> NoEntry, held |-> 0,
         answer |-> "none", excuse |-> FALSE]

Init ==
    /\ kind \in {"user", "prefs"}
    /\ row \in {<<content>> : content \in Contents}
    /\ outdated = [v \in Versions |-> 0]
    /\ cache = NoEntry
    /\ ttl = 0
    /\ lookup = [c \in Callers |-> Idle]

-----------------------------------------------------------------------------
(* The environment.                                                        *)

\* Someone else inserts, changes or deletes the row.
Update(content) ==
    /\ Version < MaxUpdates
    /\ row' = Append(row, content)
    /\ lookup' = [c \in Callers |->
           [lookup[c] EXCEPT !.excuse = @ \/ ~ReadableAs(content)]]
    /\ UNCHANGED <<kind, outdated, cache, ttl>>

\* Faulty variant: the time left is not held at zero.
TimeLeftUnchecked(t) == t - 1
TimeLeft(t) == IF t > 0 THEN t - 1 ELSE 0

\* Redis deletes an entry when its time is up.  A lookup that holds a value
\* for MaxHold has its SET done before time goes on.
Tick ==
    /\ \A c \in Callers : lookup[c].step = "set" => lookup[c].held < MaxHold
    /\ lookup' = [c \in Callers |->
           [lookup[c] EXCEPT !.held =
               IF lookup[c].step = "set" THEN @ + 1 ELSE @]]
    /\ outdated' = [v \in Versions |->
           IF v < Version /\ outdated[v] < Old THEN outdated[v] + 1
                                              ELSE outdated[v]]
    /\ ttl' = TimeLeft(ttl)
    /\ cache' = IF ttl = 1 THEN NoEntry ELSE cache
    /\ UNCHANGED <<kind, row>>

-----------------------------------------------------------------------------
(* A lookup.                                                               *)

At(c, step) == lookup[c].step = step
Goto(c, step) == lookup' = [lookup EXCEPT ![c].step = step]
Answer(c, answer) ==
    lookup' = [lookup EXCEPT ![c].step = "idle", ![c].answer = answer,
                             ![c].val = NoEntry, ![c].held = 0]

Find(c) ==
    /\ At(c, "idle")
    /\ lookup' = [lookup EXCEPT ![c] =
                     [Idle EXCEPT !.step = "get", !.excuse = ~Readable]]
    /\ UNCHANGED <<kind, row, outdated, cache, ttl>>

\* Faulty variant: a hit renews the entry.
GetHitRenews(c) ==
    /\ At(c, "get")
    /\ cache # NoEntry
    /\ Answer(c, "found")
    /\ ttl' = TTL
    /\ UNCHANGED <<kind, row, outdated, cache>>

GetHit(c) ==
    /\ At(c, "get")
    /\ cache # NoEntry
    /\ Answer(c, "found")
    /\ UNCHANGED <<kind, row, outdated, cache, ttl>>

GetMiss(c) ==
    /\ At(c, "get")
    /\ cache = NoEntry
    /\ Goto(c, "query")
    /\ UNCHANGED <<kind, row, outdated, cache, ttl>>

\* Faulty variant: the lookup fails with Redis.
GetFailsClosed(c) ==
    /\ At(c, "get")
    /\ Answer(c, "error")
    /\ UNCHANGED <<kind, row, outdated, cache, ttl>>

\* Fail open: a Redis error is a miss.
GetFails(c) ==
    /\ At(c, "get")
    /\ Goto(c, "query")
    /\ UNCHANGED <<kind, row, outdated, cache, ttl>>

QueryReads(c) ==
    /\ At(c, "query")
    /\ Readable
    /\ lookup' = [lookup EXCEPT ![c].step = "set", ![c].val = Version]
    /\ UNCHANGED <<kind, row, outdated, cache, ttl>>

\* No user of that ID, or a NULL in the row: nothing is stored.
QueryUnreadable(c) ==
    /\ At(c, "query")
    /\ ~Readable
    /\ Answer(c, "error")
    /\ UNCHANGED <<kind, row, outdated, cache, ttl>>

QueryFails(c) ==
    /\ At(c, "query")
    /\ lookup' = [lookup EXCEPT ![c].step = "idle", ![c].answer = "error",
                                ![c].excuse = TRUE]
    /\ UNCHANGED <<kind, row, outdated, cache, ttl>>

\* Faulty variant: the entry has no expiry when one is being replaced.
SetKeepsTTL(c) ==
    /\ At(c, "set")
    /\ cache' = lookup[c].val
    /\ ttl' = IF cache = NoEntry THEN TTL ELSE 0
    /\ Answer(c, "found")
    /\ UNCHANGED <<kind, row, outdated>>

Set(c) ==
    /\ At(c, "set")
    /\ cache' = lookup[c].val
    /\ ttl' = TTL
    /\ Answer(c, "found")
    /\ UNCHANGED <<kind, row, outdated>>

\* The error of a SET is dropped: the caller has its value.
SetFails(c) ==
    /\ At(c, "set")
    /\ Answer(c, "found")
    /\ UNCHANGED <<kind, row, outdated, cache, ttl>>

-----------------------------------------------------------------------------

Lookup(c) ==
    \/ GetHit(c) \/ GetMiss(c) \/ GetFails(c)
    \/ QueryReads(c) \/ QueryUnreadable(c) \/ QueryFails(c)
    \/ Set(c) \/ SetFails(c)

Next ==
    \/ \E content \in Contents : Update(content)
    \/ Tick
    \/ \E c \in Callers : Find(c) \/ Lookup(c)

Spec == Init /\ [][Next]_vars

\* Time passes, and a request that is being handled goes on.
Fairness == WF_vars(Tick) /\ \A c \in Callers : WF_vars(Lookup(c))

FairSpec == Spec /\ Fairness

-----------------------------------------------------------------------------

\* How stale an answer can be: an entry is gone TTL after it was stored, hits
\* do not renew it, and it was stored at most MaxHold after it was read.  So
\* an opt-out, a new address or the deletion of a user reaches every request
\* within TTL + MaxHold, whatever late SET overwrites whatever newer value.
FreshEnough ==
    cache # NoEntry => ttl > 0 /\ outdated[cache] + ttl <= TTL + MaxHold

\* cache.go: "a Redis outage should not break notification delivery".  A
\* lookup fails only if Postgres failed or the row could not be read while it
\* ran: neither a failed Redis call nor what an earlier lookup cached, a user
\* who was not there included, makes one fail.
ErrorHasCause ==
    \A c \in Callers : lookup[c].answer = "error" => lookup[c].excuse

\* Once the rows stay as they are the cache catches up with them for good,
\* though nothing invalidates it and old values may be stored after new ones.
CacheCatchesUp == <>[](cache \in {NoEntry, Version})
=============================================================================
