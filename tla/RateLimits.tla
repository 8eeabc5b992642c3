----------------------------- MODULE RateLimits -----------------------------
(***************************************************************************)
(* The two limiters in front of the conversation: the fixed window of a    *)
(* tenant, kept in the rate_limit_buckets table                            *)
(* (tenant_store.check_and_increment_rate_limit), and the sliding window   *)
(* in memory for senders without a tenant record (ratelimit.RateLimiter).  *)
(* One clock stands for the wall clock of the first and the monotonic      *)
(* clock of the second; windows are counted in its ticks.                  *)
(***************************************************************************)
EXTENDS Naturals, Integers, Sequences, FiniteSets

CONSTANTS
    Owners,         \* senders; a sender with a tenant record is the tenant
    MaxMessages,    \* DBRateLimiter max_messages
    WindowHours,    \* DBRateLimiter window_hours
    MaxRequests,    \* RateLimiter max_requests
    WindowSeconds,  \* RateLimiter window_seconds
    MaxClock        \* bound

ASSUME LimitAssumption ==
    /\ {MaxMessages, WindowHours, MaxRequests, WindowSeconds} \subseteq Nat \ {0}
    /\ MaxClock \in Nat

VARIABLES
    clock,
    buckets,      \* rate_limit_buckets: a tenant's row
    windows,      \* RateLimiter._windows: key -> the times of its requests
    lastCleanup,  \* RateLimiter._last_cleanup
    tenantLog,    \* history: when messages of a tenant were let through
    ownerLog      \* history: when the limiter in memory let a key through

limiter == <<buckets, windows, lastCleanup, tenantLog, ownerLog>>

NoBucket == [kind |-> "none"]
Bucket(start, count) == [kind |-> "row", window_start |-> start, message_count |-> count]
NoWindows == [k \in {} |-> <<>>]

LimitsTypeOK ==
    /\ clock \in 0..MaxClock
    /\ \A o \in Owners :
           \/ buckets[o] = NoBucket
           \/ \E s \in 0..clock, n \in 1..MaxMessages : buckets[o] = Bucket(s, n)
    /\ DOMAIN windows \subseteq Owners
    /\ lastCleanup \in 0..clock

LimitsInit ==
    /\ clock = 0
    /\ buckets = [o \in Owners |-> NoBucket]
    /\ windows = NoWindows /\ lastCleanup = 0
    /\ tenantLog = [o \in Owners |-> <<>>]
    /\ ownerLog = [o \in Owners |-> <<>>]

-----------------------------------------------------------------------------
\* Mutant of WindowOver: both ends of the window are counted.
WindowOverEarly(b) == b.window_start <= clock - WindowHours + 1

\* The row is a window that is over: the next message opens a new one.
WindowOver(b) == b.window_start <= clock - WindowHours

\* Mutant of NextBucket: a new window takes over the old count.
NextBucketCarried(t) ==
    IF buckets[t] = NoBucket THEN Bucket(clock, 1)
    ELSE Bucket(IF WindowOver(buckets[t]) THEN clock ELSE buckets[t].window_start,
                buckets[t].message_count + 1)

\* The bucket a message of t leaves behind when it is let through.
NextBucket(t) ==
    IF buckets[t] = NoBucket \/ WindowOver(buckets[t])
    THEN Bucket(clock, 1)
    ELSE Bucket(buckets[t].window_start, buckets[t].message_count + 1)

TenantLimited(t) == NextBucket(t).message_count > MaxMessages

\* check_and_increment_rate_limit, for a message let through; over the limit
\* the row stays as it is.
CountMessage(t) ==
    /\ buckets' = [buckets EXCEPT ![t] = NextBucket(t)]
    /\ tenantLog' = [tenantLog EXCEPT ![t] = Append(@, clock)]
    /\ UNCHANGED <<windows, lastCleanup, ownerLog>>

-----------------------------------------------------------------------------
Cutoff == clock - WindowSeconds

\* Mutant of StaleKey: looks at the oldest request.
StaleKeyOldest(dq) == dq = <<>> \/ dq[1] <= Cutoff

StaleKey(dq) == dq = <<>> \/ dq[Len(dq)] <= Cutoff

\* _maybe_cleanup: at most once a window, forget the keys without live requests.
CleanupDue == clock - lastCleanup >= WindowSeconds
Kept ==
    IF CleanupDue
    THEN [k \in {k \in DOMAIN windows : ~StaleKey(windows[k])} |-> windows[k]]
    ELSE windows

\* popleft while the oldest request is outside the window: what is left begins
\* with the first that is inside.
FirstLive(dq) == CHOOSE i \in 1..(Len(dq) + 1) :
    /\ i > Len(dq) \/ dq[i] > Cutoff
    /\ \A j \in 1..(i - 1) : dq[j] <= Cutoff
LiveRequests(k) ==
    IF k \in DOMAIN Kept THEN SubSeq(Kept[k], FirstLive(Kept[k]), Len(Kept[k])) ELSE <<>>

OwnerLimited(k) == Len(LiveRequests(k)) >= MaxRequests

\* is_rate_limited: evicts, and counts the request unless the key is limited.
SlideWindow(k) ==
    LET counted == IF OwnerLimited(k) THEN LiveRequests(k)
                   ELSE Append(LiveRequests(k), clock)
    IN  /\ windows' = [j \in DOMAIN Kept \cup {k} |-> IF j = k THEN counted ELSE Kept[j]]
        /\ lastCleanup' = IF CleanupDue THEN clock ELSE lastCleanup
        /\ ownerLog' = IF OwnerLimited(k) THEN ownerLog
                       ELSE [ownerLog EXCEPT ![k] = Append(@, clock)]
        /\ UNCHANGED <<buckets, tenantLog>>

\* A restart loses what is in memory, and with it the promise of the limiter.
LoseWindows ==
    /\ windows' = NoWindows
    /\ lastCleanup' = clock
    /\ ownerLog' = [o \in Owners |-> <<>>]
    /\ UNCHANGED <<buckets, tenantLog>>

Tick ==
    /\ clock < MaxClock
    /\ clock' = clock + 1
    /\ UNCHANGED limiter

\* The limiters by themselves: messages of tenants and of others, as time passes.
LimitsNext ==
    \/ \E o \in Owners :
           \/ ~TenantLimited(o) /\ CountMessage(o) /\ UNCHANGED clock
           \/ SlideWindow(o) /\ UNCHANGED clock
    \/ LoseWindows /\ UNCHANGED clock
    \/ Tick

LimitsSpec == LimitsInit /\ [][LimitsNext]_<<clock, limiter>>

-----------------------------------------------------------------------------
\* Any n + 1 messages that were let through in a row take at least w ticks: no
\* window of length w holds more than n.
AtMostPerWindow(log, n, w) ==
    \A i \in DOMAIN log : i + n \in DOMAIN log => log[i + n] - log[i] >= w

\* The limiter in memory never lets more than max_requests requests of a key
\* through in any window of window_seconds, whenever cleanup runs in between
\* (RateLimiter.is_rate_limited, _maybe_cleanup), since the process started.
SlidingBound == \A k \in Owners : AtMostPerWindow(ownerLog[k], MaxRequests, WindowSeconds)

\* The tenant's window opens with a message, not at a full hour.  What a tenant
\* can send in a window's length is the rest of one bucket and the whole of the
\* next: less than twice the limit (check_and_increment_rate_limit).
BurstBound == \A o \in Owners : AtMostPerWindow(tenantLog[o], 2 * MaxMessages - 1, WindowHours)

\* The row counts what its window let through: a lost or doubled increment
\* would make it lie about the tenant's messages.
BucketCountsWindow ==
    \A o \in Owners : buckets[o] # NoBucket =>
        buckets[o].message_count =
            Cardinality({i \in DOMAIN tenantLog[o] : tenantLog[o][i] >= buckets[o].window_start})
=============================================================================
