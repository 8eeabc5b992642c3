-------------------------- MODULE MCServicesProofs --------------------------
(***************************************************************************)
(* The bounds of the limiters, proved in RateLimitsProofs, for the         *)
(* behaviours that MCServices checks them on: it takes the steps of        *)
(* RateLimits or leaves its variables alone.                               *)
(***************************************************************************)
EXTENDS MCServices, TLAPS

Proved == INSTANCE RateLimitsProofs WITH
    MaxMessages <- Limit, WindowHours <- Window,
    MaxRequests <- Limit, WindowSeconds <- Window, MaxClock <- Ticks,
    clock <- lclock, buckets <- lbuckets, windows <- lwindows, lastCleanup <- lcleanup,
    tenantLog <- ltenantLog, ownerLog <- lownerLog

LEMMA LimitsTaken == MCSpec => Limits!LimitsSpec
<1>1. MCInit => Limits!LimitsInit
  BY DEF MCInit
<1>2. [MCNext]_allVars => [Limits!LimitsNext]_<<lclock, Limits!limiter>>
  <2>1. UNCHANGED limitVars => UNCHANGED <<lclock, Limits!limiter>>
    BY DEF limitVars, Limits!limiter
  <2>2. MCNext => Limits!LimitsNext \/ UNCHANGED limitVars
    BY DEF MCNext, Door
  <2>3. UNCHANGED allVars => UNCHANGED limitVars
    BY DEF allVars
  <2> QED
    BY <2>1, <2>2, <2>3
<1> QED
  BY <1>1, <1>2, PTL DEF MCSpec, Limits!LimitsSpec

\* The instance checked and the instance proved about are the same module.
LEMMA SameStart == Limits!LimitsInit => Proved!LimitsInit
BY DEF Limits!LimitsInit, Limits!NoBucket, Limits!NoWindows,
       Proved!LimitsInit, Proved!NoBucket, Proved!NoWindows

LEMMA SameStep == Limits!LimitsNext => Proved!LimitsNext
<1>1. \A t : Limits!NextBucket(t) = Proved!NextBucket(t)
  BY DEF Limits!NextBucket, Limits!NoBucket, Limits!Bucket, Limits!WindowOver,
         Proved!NextBucket, Proved!NoBucket, Proved!Bucket, Proved!WindowOver
<1>2. \A t : /\ Limits!TenantLimited(t) <=> Proved!TenantLimited(t)
             /\ Limits!CountMessage(t) <=> Proved!CountMessage(t)
  BY <1>1 DEF Limits!TenantLimited, Limits!CountMessage, Proved!TenantLimited, Proved!CountMessage
<1>3. Limits!Cutoff = Proved!Cutoff /\ (Limits!CleanupDue <=> Proved!CleanupDue)
  BY DEF Limits!Cutoff, Limits!CleanupDue, Proved!Cutoff, Proved!CleanupDue
<1>4. \A dq : Limits!StaleKey(dq) <=> Proved!StaleKey(dq)
  BY <1>3 DEF Limits!StaleKey, Proved!StaleKey
<1>5. \A dq : Limits!FirstLive(dq) = Proved!FirstLive(dq)
  BY <1>3 DEF Limits!FirstLive, Proved!FirstLive
<1>6. Limits!Kept = Proved!Kept
  BY <1>3, <1>4 DEF Limits!Kept, Proved!Kept
<1>7. \A k : Limits!LiveRequests(k) = Proved!LiveRequests(k)
  BY <1>5, <1>6 DEF Limits!LiveRequests, Proved!LiveRequests
<1>8. \A k : Limits!OwnerLimited(k) <=> Proved!OwnerLimited(k)
  BY <1>7 DEF Limits!OwnerLimited, Proved!OwnerLimited
<1>9. \A k : Limits!SlideWindow(k) <=> Proved!SlideWindow(k)
  BY <1>3, <1>6, <1>7, <1>8 DEF Limits!SlideWindow, Proved!SlideWindow
<1>10. Limits!LoseWindows <=> Proved!LoseWindows
  BY DEF Limits!LoseWindows, Limits!NoWindows, Proved!LoseWindows, Proved!NoWindows
<1>11. Limits!Tick <=> Proved!Tick
  BY DEF Limits!Tick, Limits!limiter, Proved!Tick, Proved!limiter
<1> QED
  BY <1>2, <1>9, <1>10, <1>11 DEF Limits!LimitsNext, Proved!LimitsNext

LEMMA SameSpec == MCSpec => Proved!LimitsSpec
<1>1. [Limits!LimitsNext]_<<lclock, Limits!limiter>>
          => [Proved!LimitsNext]_<<lclock, Proved!limiter>>
  BY SameStep DEF Limits!limiter, Proved!limiter
<1> QED
  BY <1>1, SameStart, LimitsTaken, PTL DEF Limits!LimitsSpec, Proved!LimitsSpec

\* In every window the limiter in memory lets through at most its limit
\* (RateLimiter.is_rate_limited, _maybe_cleanup), as the run checks it.
THEOREM SlidingWindowHolds == MCSpec => []SlidingWindowBound
<1>1. Proved!SlidingBound => SlidingWindowBound
  BY DEF Proved!SlidingBound, Proved!AtMostPerWindow, SlidingWindowBound, Limits!SlidingBound,
         Limits!AtMostPerWindow
<1>2. Proved!LimitsSpec => []Proved!SlidingBound
  BY Proved!SlidingWindowKept, WideAssumption
<1> QED
  BY <1>1, <1>2, SameSpec, PTL

\* Less than twice the tenant's limit gets through in a window's length
\* (tenant_store.check_and_increment_rate_limit), as the run checks it.
THEOREM FixedWindowHolds == MCSpec => []FixedWindowBurst
<1>1. Proved!BurstBound => FixedWindowBurst
  BY DEF Proved!BurstBound, Proved!AtMostPerWindow, FixedWindowBurst, Limits!BurstBound,
         Limits!AtMostPerWindow
<1>2. Proved!LimitsSpec => []Proved!BurstBound
  BY Proved!BurstKept, WideAssumption
<1> QED
  BY <1>1, <1>2, SameSpec, PTL

\* The row's count is the number of messages its window let through
\* (tenant_store.check_and_increment_rate_limit), as the run checks it.
THEOREM BucketCountHolds == MCSpec => []BucketCounts
<1>1. Proved!BucketCountsWindow => BucketCounts
  <2>1. \A S : Proved!Cardinality(S) = Limits!Cardinality(S)
    BY DEF Proved!Cardinality, Limits!Cardinality
  <2> QED
    BY <2>1 DEF Proved!BucketCountsWindow, Proved!NoBucket, BucketCounts,
                Limits!BucketCountsWindow, Limits!NoBucket
<1>2. Proved!LimitsSpec => []Proved!BucketCountsWindow
  BY Proved!RowCountsWindow, WideAssumption
<1> QED
  BY <1>1, <1>2, SameSpec, PTL
=============================================================================
