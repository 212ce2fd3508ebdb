---------------------------- MODULE RateLimiter ----------------------------
(***************************************************************************)
(* The rate limiter of the API (internal/ratelimit): Allow increments a    *)
(* Redis counter per user and channel, and the call that reads 1 back sets *)
(* the key's time to live.  The two commands are separate round trips, so  *)
(* other calls, the clock, a lost connection, a cancelled request or the   *)
(* death of the server may come between them.                              *)
(*                                                                         *)
(* Redis is modelled by what INCR and EXPIRE do to one key: its value and  *)
(* the ticks left before it is deleted.                                    *)
(***************************************************************************)
EXTENDS Integers

CONSTANTS
    Keys,     \* "rate:{userID}:{channel}"
    Callers,  \* concurrent requests inside Allow
    NoKey,
    Limit,    \* Limiter.limit
    Window,   \* Limiter.window, in ticks
    MaxFaults \* bound: Redis commands and requests that fail

ASSUME LimiterAssumption ==
    /\ NoKey \notin Keys
    /\ Limit \in Nat \ {0}
    /\ Window \in Nat \ {0}
    /\ MaxFaults \in Nat

NoTTL == -1

VARIABLES
    count,    \* count[k]: the counter, 0 when the key does not exist; above
              \* Limit all values give the same verdict and stand for one
    ttl,      \* ttl[k]: ticks left, or NoTTL: no expiry set
    expiring, \* expiring[c]: the key whose EXPIRE caller c is about to send
    recent,   \* recent[k][a]: calls allowed on k's counter at most a ticks ago
    faults    \* failures so far

vars == <<count, ttl, expiring, recent, faults>>

TypeOK ==
    /\ count \in [Keys -> 0 .. Limit + 1]
    /\ ttl \in [Keys -> 1 .. Window \cup {NoTTL}]
    /\ expiring \in [Callers -> Keys \cup {NoKey}]
    /\ recent \in [Keys -> [0 .. Window - 1 -> Nat]]
    /\ faults \in 0 .. MaxFaults

Init ==
    /\ count = [k \in Keys |-> 0]
    /\ ttl = [k \in Keys |-> NoTTL]
    /\ expiring = [c \in Callers |-> NoKey]
    /\ recent = [k \in Keys |-> [a \in 0 .. Window - 1 |-> 0]]
    /\ faults = 0

\* INCR: the value it stores, and returns.
Incremented(k) == IF count[k] > Limit THEN count[k] ELSE count[k] + 1

\* Faulty variant of Verdict: one call too many.
VerdictOneOver(n) == n <= Limit + 1
Verdict(n) == n <= Limit

Admit(k) ==
    recent' = [recent EXCEPT ![k] = [a \in 0 .. Window - 1 |-> @[a] + 1]]

\* Faulty variants of Incr: the first call is never recognised; every call
\* sets the expiry again.
IncrNeverFirst(c, k) ==
    /\ expiring[c] = NoKey
    /\ count' = [count EXCEPT ![k] = Incremented(k)]
    /\ IF Verdict(Incremented(k)) THEN Admit(k) ELSE UNCHANGED recent
    /\ UNCHANGED <<ttl, expiring, faults>>
IncrAlwaysExpires(c, k) ==
    /\ expiring[c] = NoKey
    /\ count' = [count EXCEPT ![k] = Incremented(k)]
    /\ expiring' = [expiring EXCEPT ![c] = k]
    /\ UNCHANGED <<ttl, recent, faults>>

\* Allow: INCR, and the verdict unless the key is new.
Incr(c, k) ==
    /\ expiring[c] = NoKey
    /\ count' = [count EXCEPT ![k] = Incremented(k)]
    /\ IF Incremented(k) = 1
         THEN expiring' = [expiring EXCEPT ![c] = k] /\ UNCHANGED recent
         ELSE /\ UNCHANGED expiring
              /\ IF Verdict(Incremented(k)) THEN Admit(k) ELSE UNCHANGED recent
    /\ UNCHANGED <<ttl, faults>>

\* INCR took effect but its reply was lost: the request is let through on
\* the error, or the client sends the command again.  An INCR that had no
\* effect changes nothing here.
IncrReplyLost(k) ==
    /\ faults < MaxFaults
    /\ faults' = faults + 1
    /\ count' = [count EXCEPT ![k] = Incremented(k)]
    /\ UNCHANGED <<ttl, expiring, recent>>

\* The caller of a new key returns its verdict, allowed.
FirstAllowed(c) ==
    /\ Admit(expiring[c])
    /\ expiring' = [expiring EXCEPT ![c] = NoKey]
    /\ UNCHANGED count

\* EXPIRE.
SetTTL(k) == ttl' = [ttl EXCEPT ![k] = Window]

Expire(c) ==
    /\ expiring[c] # NoKey
    /\ SetTTL(expiring[c])
    /\ FirstAllowed(c)
    /\ UNCHANGED faults

\* EXPIRE fails, or the request's context is cancelled before it: Allow
\* returns the error and true.
ExpireFails(c) ==
    /\ expiring[c] # NoKey
    /\ faults < MaxFaults
    /\ faults' = faults + 1
    /\ FirstAllowed(c)
    /\ SetTTL(expiring[c]) \/ UNCHANGED ttl

\* The server dies: no caller is left.
ServerDies ==
    /\ faults < MaxFaults
    /\ faults' = faults + 1
    /\ expiring' = [c \in Callers |-> NoKey]
    /\ UNCHANGED <<count, ttl, recent>>

\* Faulty variant of Tick: a key lives one tick too long.
TickLate ==
    /\ ttl' = [k \in Keys |-> IF ttl[k] \in {0, NoTTL} THEN NoTTL ELSE ttl[k] - 1]
    /\ count' = [k \in Keys |-> IF ttl[k] = 0 THEN 0 ELSE count[k]]
    /\ recent' = [k \in Keys |-> [a \in 0 .. Window - 1 |->
                                     IF a = 0 THEN 0 ELSE recent[k][a - 1]]]
    /\ UNCHANGED <<expiring, faults>>
\* One tick of the clock; Redis deletes the keys whose time is up.
Tick ==
    /\ ttl' = [k \in Keys |-> IF ttl[k] \in {1, NoTTL} THEN NoTTL ELSE ttl[k] - 1]
    /\ count' = [k \in Keys |-> IF ttl[k] = 1 THEN 0 ELSE count[k]]
    /\ recent' = [k \in Keys |-> [a \in 0 .. Window - 1 |->
                                     IF a = 0 THEN 0 ELSE recent[k][a - 1]]]
    /\ UNCHANGED <<expiring, faults>>

Next ==
    \/ \E c \in Callers, k \in Keys : Incr(c, k)
    \/ \E k \in Keys : IncrReplyLost(k)
    \/ \E c \in Callers : Expire(c) \/ ExpireFails(c)
    \/ ServerDies
    \/ Tick

Spec == Init /\ [][Next]_vars

\* Time passes, and a request that has started goes on.  Nothing obliges a
\* client to send one.
Fairness ==
    /\ WF_vars(Tick)
    /\ \A c \in Callers : WF_vars(Expire(c))

FairSpec == Spec /\ Fairness

-----------------------------------------------------------------------------

\* The window is fixed, not sliding, so a span of Window ticks can see the
\* end of one life of the key and the start of the next: never more than
\* 2 * Limit - 1 allowed calls, in any span and under any failure.
WindowBound == \A k \in Keys : recent[k][Window - 1] <= 2 * Limit - 1

\* A key without expiry is a key whose first caller has yet to send EXPIRE,
\* or whose INCR or EXPIRE a failure cost: no interleaving of calls leaves
\* one behind.
NoKeyWithoutExpiry ==
    \A k \in Keys :
        count[k] > 0 /\ ttl[k] = NoTTL /\ faults = 0 =>
            \E c \in Callers : expiring[c] = k

\* Two callers never hold the EXPIRE of one key, and none holds that of a
\* key that has its expiry: an EXPIRE never lengthens a window under way.
ExpireOncePerLife ==
    \A c \in Callers : expiring[c] # NoKey =>
        /\ ttl[expiring[c]] = NoTTL
        /\ count[expiring[c]] > 0
        /\ \A d \in Callers \ {c} : expiring[d] # expiring[c]

\* A rejected user gets through again, unless something failed.
LimitIsLifted ==
    \A k \in Keys : count[k] > Limit ~> count[k] = 0 \/ faults > 0

\* limiter.go: "after TTL expires after 1 hr, count reset".
CountIsReset == \A k \in Keys : count[k] > Limit ~> count[k] = 0
=============================================================================
