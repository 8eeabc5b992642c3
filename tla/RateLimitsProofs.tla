-------------------------- MODULE RateLimitsProofs --------------------------
(***************************************************************************)
(* Proofs about RateLimits for any limits, windows and senders: neither    *)
(* limiter lets through more than its bound, and the tenant's row counts   *)
(* what its window let through.                                            *)
(*                                                                         *)
(* Both arguments keep positions in the history of a sender's messages:    *)
(* the tenant's row stands for its last message_count entries, the deque   *)
(* for the entries it has not evicted, and what lies before is so old that *)
(* the next message cannot be in one window with it.                       *)
(***************************************************************************)
EXTENDS RateLimits, FiniteSetTheorems, SequenceTheorems, WellFoundedInduction, TLAPS

\* The times of messages, in the order they were let through, up to time c.
Ordered(log, c) ==
    /\ log \in Seq(Nat)
    /\ \A i \in DOMAIN log : log[i] <= c
    /\ \A i, j \in DOMAIN log : i <= j => log[i] <= log[j]

\* The row b of a tenant whose messages were let through at the times log: its
\* window opened with the last but n - 1 of them, all before are older than the
\* window, and all but MaxMessages - 1 of those a whole window older.
RowFits(log, b, c) ==
    \/ b = NoBucket /\ log = <<>>
    \/ \E s \in 0..c, n \in 1..MaxMessages :
           /\ b = Bucket(s, n)
           /\ n <= Len(log) /\ log[Len(log) - n + 1] = s
           /\ \A i \in 1..(Len(log) - n) : log[i] < s
           /\ \A i \in 1..(Len(log) - n - MaxMessages + 1) : log[i] + WindowHours <= s
           /\ \A i \in DOMAIN log : log[i] < s + WindowHours

\* The deque dq of a key whose requests were let through at the times log: it is
\* the end of them, and what it has evicted is out of the window.
DequeFits(log, dq, c) ==
    /\ dq \in Seq(Nat) /\ Len(dq) <= Len(log)
    /\ \A i \in 1..Len(dq) : dq[i] = log[Len(log) - Len(dq) + i]
    /\ \A i \in 1..(Len(log) - Len(dq)) : log[i] + WindowSeconds <= c

Deque(k) == IF k \in DOMAIN windows THEN windows[k] ELSE <<>>

TenantsKept ==
    /\ DOMAIN buckets = Owners /\ tenantLog \in [Owners -> Seq(Nat)]
    /\ \A o \in Owners :
           /\ Ordered(tenantLog[o], clock)
           /\ RowFits(tenantLog[o], buckets[o], clock)
           /\ AtMostPerWindow(tenantLog[o], 2 * MaxMessages - 1, WindowHours)

OwnersKept ==
    /\ DOMAIN windows \subseteq Owners /\ ownerLog \in [Owners -> Seq(Nat)]
    /\ lastCleanup \in 0..clock
    /\ \A o \in Owners :
           /\ Ordered(ownerLog[o], clock)
           /\ DequeFits(ownerLog[o], Deque(o), clock)
           /\ AtMostPerWindow(ownerLog[o], MaxRequests, WindowSeconds)

LimitsKept == clock \in 0..MaxClock /\ TenantsKept /\ OwnersKept

-----------------------------------------------------------------------------
LEMMA LeastElement ==
    ASSUME NEW S, S \subseteq Nat, S # {}
    PROVE  \E x \in S : \A y \in S : x <= y
<1> DEFINE R == OpToRel(<, Nat)
<1>1. PICK x \in S : \A y \in S : <<y, x>> \notin R
  <2>1. IsWellFoundedOn(R, Nat)
    BY NatLessThanWellFounded
  <2> HIDE DEF R
  <2> QED
    BY <2>1, WFMin
<1>2. \A y \in S : ~(y < x)
  BY <1>1 DEF OpToRel
<1> QED
  BY <1>2

LEMMA OrderedOn ==
    ASSUME NEW c \in Nat, NEW log, Ordered(log, c)
    PROVE  Ordered(Append(log, c), c)
<1>1. log \in Seq(Nat) /\ Append(log, c) \in Seq(Nat) /\ Len(Append(log, c)) = Len(log) + 1
  BY DEF Ordered
<1>2. \A i \in 1..Len(log) : Append(log, c)[i] = log[i] /\ log[i] <= c
  BY DEF Ordered
<1>3. Append(log, c)[Len(log) + 1] = c
  BY <1>1
<1> QED
  BY <1>1, <1>2, <1>3 DEF Ordered

LEMMA OrderedLater ==
    ASSUME NEW c \in Nat, NEW d \in Nat, c <= d, NEW log, Ordered(log, c)
    PROVE  Ordered(log, d)
BY DEF Ordered

\* A message let through now keeps the bound when those n before it are old enough.
LEMMA WindowOn ==
    ASSUME NEW c \in Nat, NEW log, Ordered(log, c), NEW n \in Nat \ {0}, NEW w \in Nat,
           AtMostPerWindow(log, n, w),
           Len(log) + 1 - n >= 1 => log[Len(log) + 1 - n] + w <= c
    PROVE  AtMostPerWindow(Append(log, c), n, w)
<1>1. log \in Seq(Nat) /\ Len(Append(log, c)) = Len(log) + 1
  BY DEF Ordered
<1>2. /\ \A i \in 1..Len(log) : Append(log, c)[i] = log[i] /\ log[i] \in Nat
      /\ Append(log, c)[Len(log) + 1] = c
      /\ DOMAIN log = 1..Len(log) /\ DOMAIN Append(log, c) = 1..(Len(log) + 1)
  BY <1>1
<1> DEFINE new == Append(log, c)
<1> HIDE DEF new
<1> SUFFICES ASSUME NEW i \in 1..(Len(log) + 1), i + n \in 1..(Len(log) + 1)
             PROVE  new[i + n] - new[i] >= w
  BY <1>2 DEF AtMostPerWindow, new
<1>3. Len(log) \in Nat /\ i \in 1..Len(log)
  BY <1>1
<1>4. CASE i + n = Len(log) + 1
  <2>1. i = Len(log) + 1 - n
    BY <1>3, <1>4
  <2>2. log[i] + w <= c /\ new[i] = log[i] /\ log[i] \in Nat /\ new[i + n] = c
    BY <1>2, <1>3, <1>4, <2>1 DEF new
  <2> QED
    BY <2>2
<1>5. CASE i + n # Len(log) + 1
  <2>1. i + n \in 1..Len(log)
    BY <1>3, <1>5
  <2>2. new[i] = log[i] /\ new[i + n] = log[i + n] /\ log[i + n] - log[i] >= w
    BY <1>2, <1>3, <2>1 DEF AtMostPerWindow, new
  <2> QED
    BY <2>2
<1> QED
  BY <1>4, <1>5

-----------------------------------------------------------------------------
\* The limiter of a tenant: what a message does to a row that fits.
LEMMA RowOpened ==
    ASSUME NEW c \in Nat, NEW log, Ordered(log, c),
           \A i \in 1..Len(log) : log[i] < c,
           \A i \in 1..(Len(log) + 1 - MaxMessages) : log[i] + WindowHours <= c
    PROVE  RowFits(Append(log, c), Bucket(c, 1), c)
<1>0. MaxMessages \in Nat \ {0} /\ WindowHours \in Nat \ {0}
  BY LimitAssumption
<1>1. log \in Seq(Nat) /\ Len(log) \in Nat
  BY DEF Ordered
<1> DEFINE new == Append(log, c)
<1>2. /\ \A i \in 1..Len(log) : new[i] = log[i] /\ log[i] \in Nat
      /\ new[Len(log) + 1] = c /\ DOMAIN new = 1..(Len(log) + 1) /\ Len(new) = Len(log) + 1
  BY <1>1
<1> HIDE DEF new
<1>3. 1 <= Len(new) /\ new[Len(new) - 1 + 1] = c
  BY <1>1, <1>2
<1>4. \A i \in 1..(Len(new) - 1) : new[i] < c
  BY <1>1, <1>2
<1>5. \A i \in 1..(Len(new) - 1 - MaxMessages + 1) : new[i] + WindowHours <= c
  BY <1>0, <1>1, <1>2
<1>6. \A i \in DOMAIN new : new[i] < c + WindowHours
  BY <1>0, <1>1, <1>2
<1>7. c \in 0..c /\ 1 \in 1..MaxMessages
  BY <1>0
<1> QED
  BY <1>3, <1>4, <1>5, <1>6, <1>7 DEF RowFits, new

LEMMA RowCounted ==
    ASSUME NEW c \in Nat, NEW log, Ordered(log, c), NEW s \in 0..c, NEW n \in 1..MaxMessages,
           n + 1 <= MaxMessages, n <= Len(log), log[Len(log) - n + 1] = s, c < s + WindowHours,
           \A i \in 1..(Len(log) - n) : log[i] < s,
           \A i \in 1..(Len(log) - n - MaxMessages + 1) : log[i] + WindowHours <= s,
           \A i \in DOMAIN log : log[i] < s + WindowHours
    PROVE  RowFits(Append(log, c), Bucket(s, n + 1), c)
<1>0. MaxMessages \in Nat \ {0} /\ WindowHours \in Nat \ {0}
  BY LimitAssumption
<1>1. log \in Seq(Nat) /\ Len(log) \in Nat
  BY DEF Ordered
<1> DEFINE new == Append(log, c)
<1>2. /\ \A i \in 1..Len(log) : new[i] = log[i] /\ log[i] \in Nat
      /\ new[Len(log) + 1] = c /\ DOMAIN new = 1..(Len(log) + 1) /\ Len(new) = Len(log) + 1
  BY <1>1
<1> HIDE DEF new
<1>3. n + 1 <= Len(new) /\ new[Len(new) - (n + 1) + 1] = s
  <2>1. Len(new) - (n + 1) + 1 = Len(log) - n + 1 /\ Len(log) - n + 1 \in 1..Len(log)
    BY <1>0, <1>1, <1>2
  <2> QED
    BY <1>0, <1>1, <1>2, <2>1
<1>4. ASSUME NEW i \in 1..(Len(new) - (n + 1)) PROVE new[i] < s
  <2>1. i \in 1..(Len(log) - n) /\ i \in 1..Len(log)
    BY <1>0, <1>1, <1>2
  <2> QED
    BY <1>2, <2>1
<1>5. ASSUME NEW i \in 1..(Len(new) - (n + 1) - MaxMessages + 1)
      PROVE  new[i] + WindowHours <= s
  <2>1. i \in 1..(Len(log) - n - MaxMessages + 1) /\ i \in 1..Len(log)
    BY <1>0, <1>1, <1>2
  <2> QED
    BY <1>2, <2>1
<1>6. ASSUME NEW i \in DOMAIN new PROVE new[i] < s + WindowHours
  <2>1. DOMAIN log = 1..Len(log)
    BY <1>1
  <2>2. CASE i \in 1..Len(log)
    BY <1>2, <2>1, <2>2
  <2>3. CASE i = Len(log) + 1
    BY <1>2, <2>3
  <2> QED
    BY <1>1, <1>2, <2>2, <2>3
<1>7. n + 1 \in 1..MaxMessages
  BY <1>0
<1> QED
  BY <1>3, <1>4, <1>5, <1>6, <1>7 DEF RowFits, new

\* The row that a message leaves behind fits, and the messages a whole window
\* older than it are where they are wanted.
LEMMA RowFitsNext ==
    ASSUME NEW o \in Owners, clock \in Nat, NEW log, Ordered(log, clock),
           RowFits(log, buckets[o], clock), ~TenantLimited(o)
    PROVE  \E s \in 0..clock, n \in 1..MaxMessages :
               /\ RowFits(Append(log, clock), NextBucket(o), clock)
               /\ \A i \in 1..(Len(log) + 1 - n - MaxMessages + 1) :
                      i <= Len(log) /\ log[i] + WindowHours <= s
<1>0. MaxMessages \in Nat \ {0} /\ WindowHours \in Nat \ {0}
  BY LimitAssumption
<1>1. log \in Seq(Nat) /\ Len(log) \in Nat /\ \A i \in 1..Len(log) : log[i] \in Nat
  BY DEF Ordered
<1>2. \A s, n : /\ Bucket(s, n) # NoBucket
                /\ Bucket(s, n).window_start = s /\ Bucket(s, n).message_count = n
  BY DEF NoBucket, Bucket
<1>3. ASSUME \A i \in 1..Len(log) : log[i] < clock,
             \A i \in 1..(Len(log) + 1 - MaxMessages) : i <= Len(log) /\ log[i] + WindowHours <= clock,
             NextBucket(o) = Bucket(clock, 1)
      PROVE  \E s \in 0..clock, n \in 1..MaxMessages :
                 /\ RowFits(Append(log, clock), NextBucket(o), clock)
                 /\ \A i \in 1..(Len(log) + 1 - n - MaxMessages + 1) :
                        i <= Len(log) /\ log[i] + WindowHours <= s
  <2>1. RowFits(Append(log, clock), NextBucket(o), clock)
    BY <1>3, RowOpened
  <2>2. clock \in 0..clock /\ 1 \in 1..MaxMessages
    BY <1>0
  <2>3. Len(log) + 1 - 1 - MaxMessages + 1 = Len(log) + 1 - MaxMessages
    BY <1>0, <1>1
  <2>4. \A i \in 1..(Len(log) + 1 - 1 - MaxMessages + 1) : i <= Len(log) /\ log[i] + WindowHours <= clock
    BY <1>3, <2>3
  <2> QED
    BY <2>1, <2>2, <2>4
<1>4. CASE log = <<>> /\ buckets[o] = NoBucket
  <2>1. NextBucket(o) = Bucket(clock, 1)
    BY <1>4 DEF NextBucket
  <2>2. Len(log) = 0
    BY <1>4
  <2>3. \A i \in 1..(Len(log) + 1 - MaxMessages) : FALSE
    BY <1>0, <2>2
  <2>4. \A i \in 1..Len(log) : FALSE
    BY <2>2
  <2> QED
    BY <1>3, <2>1, <2>3, <2>4
<1>5. ASSUME NEW s \in 0..clock, NEW n \in 1..MaxMessages, buckets[o] = Bucket(s, n),
             n <= Len(log), log[Len(log) - n + 1] = s,
             \A i \in 1..(Len(log) - n) : log[i] < s,
             \A i \in 1..(Len(log) - n - MaxMessages + 1) : log[i] + WindowHours <= s,
             \A i \in DOMAIN log : log[i] < s + WindowHours
      PROVE  \E t \in 0..clock, k \in 1..MaxMessages :
                 /\ RowFits(Append(log, clock), NextBucket(o), clock)
                 /\ \A i \in 1..(Len(log) + 1 - k - MaxMessages + 1) :
                        i <= Len(log) /\ log[i] + WindowHours <= t
  <2>1. CASE WindowOver(buckets[o])
    <3>1. NextBucket(o) = Bucket(clock, 1)
      BY <2>1 DEF NextBucket
    <3>2. s + WindowHours <= clock
      BY <1>0, <1>2, <1>5, <2>1 DEF WindowOver
    <3>3. ASSUME NEW i \in 1..Len(log) PROVE log[i] < clock
      <4>1. i \in DOMAIN log
        BY <1>1
      <4>2. log[i] < s + WindowHours /\ log[i] \in Nat
        BY <1>1, <1>5, <4>1
      <4> QED
        BY <1>0, <3>2, <4>2
    <3>4. ASSUME NEW i \in 1..(Len(log) + 1 - MaxMessages)
          PROVE  i <= Len(log) /\ log[i] + WindowHours <= clock
      <4>1. /\ i \in 1..Len(log) /\ Len(log) - n + 1 \in 1..Len(log) /\ i <= Len(log) - n + 1
            /\ DOMAIN log = 1..Len(log)
        BY <1>0, <1>1, <1>5
      <4>2. log[i] <= s
        BY <1>1, <1>5, <4>1 DEF Ordered
      <4> QED
        BY <1>0, <1>1, <3>2, <4>1, <4>2
    <3> QED
      BY <1>3, <3>1, <3>3, <3>4
  <2>2. CASE ~WindowOver(buckets[o])
    <3>1. NextBucket(o) = Bucket(s, n + 1)
      BY <1>2, <1>5, <2>2 DEF NextBucket
    <3>2. n + 1 <= MaxMessages /\ clock < s + WindowHours
      BY <1>0, <1>2, <1>5, <2>2, <3>1 DEF TenantLimited, WindowOver
    <3>3. RowFits(Append(log, clock), Bucket(s, n + 1), clock)
      BY <1>5, <3>2, RowCounted
    <3>4. ASSUME NEW i \in 1..(Len(log) + 1 - (n + 1) - MaxMessages + 1)
          PROVE  i <= Len(log) /\ log[i] + WindowHours <= s
      <4>1. i \in 1..(Len(log) - n - MaxMessages + 1) /\ i <= Len(log)
        BY <1>0, <1>1
      <4> QED
        BY <1>5, <4>1
    <3>5. n + 1 \in 1..MaxMessages
      BY <1>0, <3>2
    <3> QED
      BY <3>1, <3>3, <3>4, <3>5
  <2> QED
    BY <2>1, <2>2
<1> QED
  BY <1>4, <1>5 DEF RowFits

LEMMA TenantsOn ==
    ASSUME clock \in Nat, TenantsKept, NEW o \in Owners, ~TenantLimited(o), CountMessage(o),
           UNCHANGED clock
    PROVE  TenantsKept'
<1>0. MaxMessages \in Nat \ {0} /\ WindowHours \in Nat \ {0}
  BY LimitAssumption
<1> DEFINE log == tenantLog[o]
           new == Append(log, clock)
<1>1. /\ Ordered(log, clock) /\ RowFits(log, buckets[o], clock)
      /\ AtMostPerWindow(log, 2 * MaxMessages - 1, WindowHours)
  BY DEF TenantsKept
<1>2. PICK s \in 0..clock, n \in 1..MaxMessages :
           /\ RowFits(new, NextBucket(o), clock)
           /\ \A i \in 1..(Len(log) + 1 - n - MaxMessages + 1) :
                  i <= Len(log) /\ log[i] + WindowHours <= s
  BY <1>1, RowFitsNext
<1>3. Ordered(new, clock) /\ new \in Seq(Nat)
  BY <1>1, OrderedOn DEF Ordered
<1>4. AtMostPerWindow(new, 2 * MaxMessages - 1, WindowHours)
  <2> DEFINE k == 2 * MaxMessages - 1
  <2>0. k \in Nat \ {0}
    BY <1>0
  <2>1. Len(log) + 1 - k >= 1 => log[Len(log) + 1 - k] + WindowHours <= clock
    <3> SUFFICES ASSUME Len(log) + 1 - k >= 1
                 PROVE  log[Len(log) + 1 - k] + WindowHours <= clock
      OBVIOUS
    <3>1. log \in Seq(Nat) /\ Len(log) \in Nat
      BY <1>1 DEF Ordered
    <3> HIDE DEF log
    <3>2. Len(log) + 1 - k \in 1..(Len(log) + 1 - n - MaxMessages + 1) /\ Len(log) + 1 - k \in 1..Len(log)
      BY <1>0, <3>1
    <3>3. log[Len(log) + 1 - k] \in Nat
      BY <3>1, <3>2
    <3> HIDE DEF k
    <3> QED
      BY <1>0, <1>2, <3>2, <3>3
  <2> HIDE DEF k
  <2>2. AtMostPerWindow(log, k, WindowHours)
    BY <1>1 DEF k
  <2>3. AtMostPerWindow(new, k, WindowHours)
    BY <1>0, <1>1, <2>0, <2>1, <2>2, WindowOn
  <2> QED
    BY <2>3 DEF k
<1> HIDE DEF new
<1>5. /\ buckets' = [buckets EXCEPT ![o] = NextBucket(o)]
      /\ tenantLog' = [tenantLog EXCEPT ![o] = new]
  BY DEF CountMessage, new
<1>6. DOMAIN buckets' = Owners /\ tenantLog' \in [Owners -> Seq(Nat)]
  BY <1>3, <1>5 DEF TenantsKept
<1>7. ASSUME NEW p \in Owners
      PROVE  /\ Ordered(tenantLog'[p], clock) /\ RowFits(tenantLog'[p], buckets'[p], clock)
             /\ AtMostPerWindow(tenantLog'[p], 2 * MaxMessages - 1, WindowHours)
  <2>1. CASE p = o
    <3>1. tenantLog'[p] = new /\ buckets'[p] = NextBucket(o)
      BY <1>5, <2>1 DEF TenantsKept
    <3> QED
      BY <1>2, <1>3, <1>4, <3>1
  <2>2. CASE p # o
    <3>1. tenantLog'[p] = tenantLog[p] /\ buckets'[p] = buckets[p]
      BY <1>5, <2>2
    <3> QED
      BY <3>1 DEF TenantsKept
  <2> QED
    BY <2>1, <2>2
<1> QED
  BY <1>6, <1>7 DEF TenantsKept

LEMMA TenantsLater ==
    ASSUME clock \in Nat, TenantsKept, UNCHANGED <<buckets, tenantLog>>,
           clock' \in Nat, clock <= clock'
    PROVE  TenantsKept'
<1>1. ASSUME NEW log, NEW b, RowFits(log, b, clock) PROVE RowFits(log, b, clock')
  <2>1. 0..clock \subseteq 0..clock'
    OBVIOUS
  <2> QED
    BY <1>1, <2>1 DEF RowFits
<1> QED
  BY <1>1, OrderedLater DEF TenantsKept

-----------------------------------------------------------------------------
\* The limiter in memory.  What it evicts, or forgets with the whole key, is old.
LEMMA FirstLiveIs ==
    ASSUME clock \in Nat, NEW dq \in Seq(Nat)
    PROVE  /\ FirstLive(dq) \in 1..(Len(dq) + 1)
           /\ \A j \in 1..(FirstLive(dq) - 1) : dq[j] <= Cutoff
<1>0. Len(dq) \in Nat /\ Cutoff \in Int /\ \A i \in 1..Len(dq) : dq[i] \in Nat
  BY LimitAssumption DEF Cutoff
<1> DEFINE S == {i \in 1..(Len(dq) + 1) : i > Len(dq) \/ dq[i] > Cutoff}
<1>1. PICK f \in S : \A y \in S : f <= y
  <2>1. S \subseteq Nat /\ Len(dq) + 1 \in S
    BY <1>0
  <2> HIDE DEF S
  <2> QED
    BY <2>1, LeastElement
<1>2. ASSUME NEW j \in 1..(f - 1) PROVE dq[j] <= Cutoff
  <2>1. j \in 1..Len(dq) /\ j \notin S
    BY <1>0, <1>1
  <2> QED
    BY <1>0, <2>1
<1>3. \E i \in 1..(Len(dq) + 1) : /\ i > Len(dq) \/ dq[i] > Cutoff
                                  /\ \A j \in 1..(i - 1) : dq[j] <= Cutoff
  BY <1>1, <1>2
<1> QED
  BY <1>3 DEF FirstLive

LEMMA DequeEvicted ==
    ASSUME clock \in Nat, NEW log, Ordered(log, clock), NEW dq, DequeFits(log, dq, clock)
    PROVE  DequeFits(log, SubSeq(dq, FirstLive(dq), Len(dq)), clock)
<1>0. /\ log \in Seq(Nat) /\ Len(log) \in Nat /\ dq \in Seq(Nat) /\ Len(dq) \in Nat
      /\ Len(dq) <= Len(log) /\ WindowSeconds \in Nat
      /\ \A i \in 1..Len(dq) : dq[i] \in Nat
  BY LimitAssumption DEF Ordered, DequeFits
<1>1. PICK f \in 1..(Len(dq) + 1) : f = FirstLive(dq) /\ \A j \in 1..(f - 1) : dq[j] <= Cutoff
  BY <1>0, FirstLiveIs
<1> DEFINE live == SubSeq(dq, f, Len(dq))
<1>2. /\ live \in Seq(Nat) /\ Len(live) = Len(dq) - f + 1
      /\ \A i \in 1..(Len(dq) - f + 1) : live[i] = dq[f + i - 1]
  <2>1. f \in Int /\ Len(dq) \in Int /\ \A i \in f..Len(dq) : dq[i] \in Nat
    BY <1>0
  <2>2. /\ live \in Seq(Nat) /\ Len(live) = IF f <= Len(dq) THEN Len(dq) - f + 1 ELSE 0
        /\ \A i \in 1..(Len(dq) - f + 1) : live[i] = dq[f + i - 1]
    BY <2>1, SubSeqProperties
  <2> QED
    BY <1>0, <2>2
<1> HIDE DEF live
<1>3. ASSUME NEW i \in 1..Len(live) PROVE live[i] = log[Len(log) - Len(live) + i]
  <2>1. f + i - 1 \in 1..Len(dq) /\ Len(log) - Len(dq) + (f + i - 1) = Len(log) - Len(live) + i
    BY <1>0, <1>2
  <2>2. dq[f + i - 1] = log[Len(log) - Len(dq) + (f + i - 1)]
    BY <2>1 DEF DequeFits
  <2> QED
    BY <1>2, <2>1, <2>2
<1>4. ASSUME NEW i \in 1..(Len(log) - Len(live)) PROVE log[i] + WindowSeconds <= clock
  <2>1. CASE i <= Len(log) - Len(dq)
    BY <2>1 DEF DequeFits
  <2>2. CASE i > Len(log) - Len(dq)
    <3> DEFINE j == i - (Len(log) - Len(dq))
    <3>1. j \in 1..(f - 1) /\ j \in 1..Len(dq) /\ Len(log) - Len(dq) + j = i
      BY <1>0, <1>2, <2>2
    <3> HIDE DEF j
    <3>2. dq[j] = log[i] /\ dq[j] <= Cutoff /\ dq[j] \in Nat
      BY <1>0, <1>1, <3>1 DEF DequeFits
    <3> QED
      BY <1>0, <3>2 DEF Cutoff
  <2> QED
    BY <1>0, <1>2, <2>1, <2>2
<1>5. Len(live) <= Len(log)
  BY <1>0, <1>2
<1>6. DequeFits(log, live, clock)
  BY <1>2, <1>3, <1>4, <1>5 DEF DequeFits
<1> QED
  BY <1>1, <1>6 DEF live

LEMMA DequeForgotten ==
    ASSUME clock \in Nat, NEW log, Ordered(log, clock), NEW dq, DequeFits(log, dq, clock),
           StaleKey(dq)
    PROVE  DequeFits(log, <<>>, clock)
<1>0. /\ log \in Seq(Nat) /\ Len(log) \in Nat /\ dq \in Seq(Nat) /\ Len(dq) \in Nat
      /\ Len(dq) <= Len(log) /\ WindowSeconds \in Nat
      /\ \A i \in 1..Len(log) : log[i] \in Nat
  BY LimitAssumption DEF Ordered, DequeFits
<1>1. ASSUME NEW i \in 1..Len(log) PROVE log[i] + WindowSeconds <= clock
  <2>1. CASE i <= Len(log) - Len(dq)
    BY <1>0, <2>1 DEF DequeFits
  <2>2. CASE i > Len(log) - Len(dq)
    <3>1. dq # <<>> /\ Len(dq) \in 1..Len(dq) /\ Len(log) \in 1..Len(log)
      BY <1>0, <2>2
    <3>2. dq[Len(dq)] <= Cutoff /\ dq[Len(dq)] = log[Len(log)]
      BY <1>0, <3>1 DEF StaleKey, DequeFits
    <3>3. log[i] <= log[Len(log)]
      BY <1>0, <3>1 DEF Ordered
    <3> QED
      BY <1>0, <3>1, <3>2, <3>3 DEF Cutoff
  <2> QED
    BY <1>0, <2>1, <2>2
<1> QED
  BY <1>0, <1>1 DEF DequeFits

LEMMA DequeAppended ==
    ASSUME NEW c \in Nat, NEW log, Ordered(log, c), NEW dq, DequeFits(log, dq, c)
    PROVE  DequeFits(Append(log, c), Append(dq, c), c)
<1>0. /\ log \in Seq(Nat) /\ Len(log) \in Nat /\ dq \in Seq(Nat) /\ Len(dq) \in Nat
      /\ Len(dq) <= Len(log)
  BY DEF Ordered, DequeFits
<1> DEFINE l == Append(log, c)
           d == Append(dq, c)
<1>1. /\ d \in Seq(Nat) /\ Len(d) = Len(dq) + 1 /\ Len(l) = Len(log) + 1
      /\ \A i \in 1..Len(log) : l[i] = log[i]
      /\ \A i \in 1..Len(dq) : d[i] = dq[i]
      /\ l[Len(log) + 1] = c /\ d[Len(dq) + 1] = c
  BY <1>0
<1> HIDE DEF l, d
<1>2. ASSUME NEW i \in 1..Len(d) PROVE d[i] = l[Len(l) - Len(d) + i]
  <2>1. CASE i = Len(dq) + 1
    <3>1. Len(l) - Len(d) + i = Len(log) + 1
      BY <1>0, <1>1, <2>1
    <3> QED
      BY <1>1, <2>1, <3>1
  <2>2. CASE i # Len(dq) + 1
    <3>1. i \in 1..Len(dq) /\ Len(l) - Len(d) + i = Len(log) - Len(dq) + i
          /\ Len(log) - Len(dq) + i \in 1..Len(log)
      BY <1>0, <1>1, <2>2
    <3> QED
      BY <1>1, <3>1 DEF DequeFits
  <2> QED
    BY <2>1, <2>2
<1>3. ASSUME NEW i \in 1..(Len(l) - Len(d)) PROVE l[i] + WindowSeconds <= c
  <2>1. i \in 1..(Len(log) - Len(dq)) /\ i \in 1..Len(log)
    BY <1>0, <1>1
  <2> QED
    BY <1>1, <2>1 DEF DequeFits
<1>4. DequeFits(l, d, c)
  BY <1>0, <1>1, <1>2, <1>3 DEF DequeFits
<1> QED
  BY <1>4 DEF l, d

LEMMA KeptFits ==
    ASSUME clock \in Nat, OwnersKept, NEW k \in Owners
    PROVE  DequeFits(ownerLog[k], IF k \in DOMAIN Kept THEN Kept[k] ELSE <<>>, clock)
<1>1. Ordered(ownerLog[k], clock) /\ DequeFits(ownerLog[k], Deque(k), clock)
  BY DEF OwnersKept
<1>2. CASE k \in DOMAIN Kept
  <2>1. Kept[k] = Deque(k)
    BY <1>2 DEF Kept, Deque
  <2> QED
    BY <1>1, <1>2, <2>1
<1>3. CASE k \notin DOMAIN Kept
  <2>1. Deque(k) = <<>> \/ StaleKey(Deque(k))
    BY <1>3 DEF Kept, Deque
  <2> QED
    BY <1>1, <1>3, <2>1, DequeForgotten
<1> QED
  BY <1>2, <1>3

LEMMA LiveFits ==
    ASSUME clock \in Nat, OwnersKept, NEW k \in Owners
    PROVE  DequeFits(ownerLog[k], LiveRequests(k), clock)
<1>1. Ordered(ownerLog[k], clock)
  BY DEF OwnersKept
<1>2. DequeFits(ownerLog[k], IF k \in DOMAIN Kept THEN Kept[k] ELSE <<>>, clock)
  BY KeptFits
<1> QED
  BY <1>1, <1>2, DequeEvicted DEF LiveRequests

LEMMA OwnersOn ==
    ASSUME clock \in Nat, OwnersKept, NEW k \in Owners, SlideWindow(k), UNCHANGED clock
    PROVE  OwnersKept'
<1>0. MaxRequests \in Nat \ {0} /\ WindowSeconds \in Nat
  BY LimitAssumption
<1> DEFINE log == ownerLog[k]
           live == LiveRequests(k)
           counted == IF OwnerLimited(k) THEN live ELSE Append(live, clock)
           newlog == IF OwnerLimited(k) THEN log ELSE Append(log, clock)
<1>1. /\ Ordered(log, clock) /\ log \in Seq(Nat)
      /\ AtMostPerWindow(log, MaxRequests, WindowSeconds)
      /\ DequeFits(log, live, clock)
  BY LiveFits DEF OwnersKept
<1>2. /\ Ordered(newlog, clock) /\ newlog \in Seq(Nat)
      /\ DequeFits(newlog, counted, clock)
      /\ AtMostPerWindow(newlog, MaxRequests, WindowSeconds)
  <2>1. CASE OwnerLimited(k)
    BY <1>1, <2>1
  <2>2. CASE ~OwnerLimited(k)
    <3>1. DequeFits(Append(log, clock), Append(live, clock), clock)
      BY <1>1, DequeAppended
    <3>2. Ordered(Append(log, clock), clock)
      BY <1>1, OrderedOn
    <3>3. Len(log) + 1 - MaxRequests >= 1 => log[Len(log) + 1 - MaxRequests] + WindowSeconds <= clock
      <4>1. Len(live) \in Nat /\ Len(live) < MaxRequests /\ Len(log) \in Nat
        BY <1>0, <1>1, <2>2 DEF OwnerLimited, DequeFits
      <4> HIDE DEF log, live
      <4>2. Len(log) + 1 - MaxRequests >= 1 =>
                Len(log) + 1 - MaxRequests \in 1..(Len(log) - Len(live))
        BY <1>0, <4>1
      <4> QED
        BY <1>1, <4>2 DEF DequeFits
    <3> HIDE DEF log, live
    <3>4. AtMostPerWindow(Append(log, clock), MaxRequests, WindowSeconds)
      BY <1>0, <1>1, <3>3, WindowOn
    <3>5. Append(log, clock) \in Seq(Nat)
      BY <3>2 DEF Ordered
    <3> QED
      BY <2>2, <3>1, <3>2, <3>4, <3>5
  <2> QED
    BY <2>1, <2>2
<1>3. /\ windows' = [j \in DOMAIN Kept \cup {k} |-> IF j = k THEN counted ELSE Kept[j]]
      /\ ownerLog' = [ownerLog EXCEPT ![k] = newlog]
  <2>1. CASE OwnerLimited(k)
    BY <2>1 DEF SlideWindow, OwnersKept
  <2>2. CASE ~OwnerLimited(k)
    BY <2>2 DEF SlideWindow, OwnersKept
  <2> QED
    BY <2>1, <2>2
<1> HIDE DEF counted, newlog
<1>4. DOMAIN windows' \subseteq Owners /\ ownerLog' \in [Owners -> Seq(Nat)]
  <2>1. DOMAIN Kept \subseteq Owners
    BY DEF Kept, OwnersKept
  <2> QED
    BY <1>2, <1>3, <2>1 DEF OwnersKept
<1>5. lastCleanup' \in 0..clock
  BY DEF SlideWindow, OwnersKept
<1>6. ASSUME NEW j \in Owners
      PROVE  /\ Ordered(ownerLog'[j], clock)
             /\ DequeFits(ownerLog'[j], IF j \in DOMAIN windows' THEN windows'[j] ELSE <<>>, clock)
             /\ AtMostPerWindow(ownerLog'[j], MaxRequests, WindowSeconds)
  <2>1. CASE j = k
    <3>1. ownerLog'[j] = newlog /\ j \in DOMAIN windows' /\ windows'[j] = counted
      BY <1>3, <2>1 DEF OwnersKept
    <3> QED
      BY <1>2, <3>1
  <2>2. CASE j # k
    <3>1. /\ ownerLog'[j] = ownerLog[j]
          /\ j \in DOMAIN windows' <=> j \in DOMAIN Kept
          /\ j \in DOMAIN Kept => windows'[j] = Kept[j]
      BY <1>3, <2>2 DEF OwnersKept
    <3>2. DequeFits(ownerLog[j], IF j \in DOMAIN Kept THEN Kept[j] ELSE <<>>, clock)
      BY KeptFits
    <3> QED
      BY <3>1, <3>2 DEF OwnersKept
  <2> QED
    BY <2>1, <2>2
<1> QED
  BY <1>4, <1>5, <1>6 DEF OwnersKept, Deque

LEMMA OwnersLost ==
    ASSUME clock \in Nat, OwnersKept, LoseWindows, UNCHANGED clock
    PROVE  OwnersKept'
<1>1. /\ windows' = NoWindows /\ DOMAIN windows' = {} /\ lastCleanup' = clock
      /\ ownerLog' = [o \in Owners |-> <<>>]
  BY DEF LoseWindows, NoWindows
<1>2. Ordered(<<>>, clock) /\ DequeFits(<<>>, <<>>, clock)
      /\ AtMostPerWindow(<<>>, MaxRequests, WindowSeconds)
  BY DEF Ordered, DequeFits, AtMostPerWindow
<1> QED
  BY <1>1, <1>2 DEF OwnersKept, Deque

LEMMA OwnersLater ==
    ASSUME clock \in Nat, OwnersKept, UNCHANGED <<windows, lastCleanup, ownerLog>>,
           clock' \in Nat, clock <= clock'
    PROVE  OwnersKept'
<1>1. ASSUME NEW log, NEW dq, Ordered(log, clock), DequeFits(log, dq, clock)
      PROVE  DequeFits(log, dq, clock')
  <2>1. \A i \in 1..(Len(log) - Len(dq)) : log[i] \in Nat /\ log[i] + WindowSeconds <= clock
    BY <1>1 DEF DequeFits, Ordered
  <2>2. \A i \in 1..(Len(log) - Len(dq)) : log[i] + WindowSeconds <= clock'
    BY <2>1, LimitAssumption
  <2> QED
    BY <1>1, <2>2 DEF DequeFits
<1>2. \A o : Deque(o)' = Deque(o)
  BY DEF Deque
<1> QED
  BY <1>1, <1>2, OrderedLater DEF OwnersKept, Deque

-----------------------------------------------------------------------------
LEMMA LimitsStart == LimitsInit => LimitsKept
<1> SUFFICES ASSUME LimitsInit PROVE LimitsKept
  OBVIOUS
<1>1. /\ clock = 0 /\ DOMAIN windows = {} /\ lastCleanup = 0 /\ MaxClock \in Nat
      /\ \A o \in Owners : buckets[o] = NoBucket /\ tenantLog[o] = <<>> /\ ownerLog[o] = <<>>
      /\ DOMAIN buckets = Owners
      /\ tenantLog \in [Owners -> Seq(Nat)] /\ ownerLog \in [Owners -> Seq(Nat)]
  BY LimitAssumption DEF LimitsInit, NoWindows
<1>2. /\ Ordered(<<>>, 0) /\ DequeFits(<<>>, <<>>, 0) /\ RowFits(<<>>, NoBucket, 0)
      /\ AtMostPerWindow(<<>>, MaxRequests, WindowSeconds)
      /\ AtMostPerWindow(<<>>, 2 * MaxMessages - 1, WindowHours)
  BY DEF Ordered, DequeFits, AtMostPerWindow, RowFits
<1>3. TenantsKept
  BY <1>1, <1>2 DEF TenantsKept
<1>4. OwnersKept
  BY <1>1, <1>2 DEF OwnersKept, Deque
<1> QED
  BY <1>1, <1>3, <1>4 DEF LimitsKept

LEMMA LimitsStep ==
    ASSUME LimitsKept, [LimitsNext]_<<clock, limiter>>
    PROVE  LimitsKept'
<1>0. clock \in Nat /\ TenantsKept /\ OwnersKept /\ MaxClock \in Nat /\ clock \in 0..MaxClock
  BY LimitAssumption DEF LimitsKept
<1>1. ASSUME NEW o \in Owners, ~TenantLimited(o), CountMessage(o), UNCHANGED clock
      PROVE  LimitsKept'
  <2>1. UNCHANGED <<windows, lastCleanup, ownerLog>>
    BY <1>1 DEF CountMessage
  <2> QED
    BY <1>0, <1>1, <2>1, TenantsOn, OwnersLater DEF LimitsKept
<1>2. ASSUME NEW o \in Owners, SlideWindow(o), UNCHANGED clock
      PROVE  LimitsKept'
  <2>1. UNCHANGED <<buckets, tenantLog>>
    BY <1>2 DEF SlideWindow
  <2> QED
    BY <1>0, <1>2, <2>1, OwnersOn, TenantsLater DEF LimitsKept
<1>3. ASSUME LoseWindows, UNCHANGED clock PROVE LimitsKept'
  <2>1. UNCHANGED <<buckets, tenantLog>>
    BY <1>3 DEF LoseWindows
  <2> QED
    BY <1>0, <1>3, <2>1, OwnersLost, TenantsLater DEF LimitsKept
<1>4. CASE Tick
  <2>1. /\ UNCHANGED <<buckets, tenantLog, windows, lastCleanup, ownerLog>>
        /\ clock' \in 0..MaxClock /\ clock <= clock'
    BY <1>0, <1>4 DEF Tick, limiter
  <2> QED
    BY <1>0, <2>1, OwnersLater, TenantsLater DEF LimitsKept
<1>5. CASE UNCHANGED <<clock, limiter>>
  <2>1. UNCHANGED <<buckets, tenantLog, windows, lastCleanup, ownerLog, clock>>
    BY <1>5 DEF limiter
  <2> QED
    BY <1>0, <2>1, OwnersLater, TenantsLater DEF LimitsKept
<1> QED
  BY <1>1, <1>2, <1>3, <1>4, <1>5 DEF LimitsNext

LEMMA LimitsInductive == LimitsSpec => []LimitsKept
BY LimitsStart, LimitsStep, PTL DEF LimitsSpec

LEMMA CountIsThere ==
    ASSUME clock \in Nat, TenantsKept, NEW o \in Owners, buckets[o] # NoBucket
    PROVE  buckets[o].message_count =
               Cardinality({i \in DOMAIN tenantLog[o] : tenantLog[o][i] >= buckets[o].window_start})
<1>0. PICK log : log = tenantLog[o]
  OBVIOUS
<1>1. /\ log \in Seq(Nat) /\ Len(log) \in Nat /\ \A i \in 1..Len(log) : log[i] \in Nat
      /\ DOMAIN log = 1..Len(log) /\ Ordered(log, clock) /\ RowFits(log, buckets[o], clock)
      /\ MaxMessages \in Nat
  <2>1. Ordered(log, clock) /\ RowFits(log, buckets[o], clock)
    BY <1>0 DEF TenantsKept
  <2> QED
    BY <2>1, LimitAssumption DEF Ordered
<1>2. PICK s \in 0..clock, n \in 1..MaxMessages :
           /\ buckets[o] = Bucket(s, n)
           /\ n <= Len(log) /\ log[Len(log) - n + 1] = s
           /\ \A i \in 1..(Len(log) - n) : log[i] < s
           /\ \A i \in 1..(Len(log) - n - MaxMessages + 1) : log[i] + WindowHours <= s
           /\ \A i \in DOMAIN log : log[i] < s + WindowHours
  BY <1>1, Zenon DEF RowFits
<1> DEFINE S == {i \in DOMAIN log : log[i] >= s}
           first == Len(log) - n + 1
<1>3. first \in 1..Len(log) /\ first \in Nat /\ Len(log) - first + 1 = n
  BY <1>1, <1>2
<1>4. S = first..Len(log)
  <2>1. ASSUME NEW i \in S PROVE i \in first..Len(log)
    <3>1. i \in 1..Len(log) /\ log[i] >= s
      BY <1>1
    <3>2. i \notin 1..(Len(log) - n)
      <4>1. s \in Nat /\ log[i] \in Nat
        BY <1>1, <3>1
      <4> QED
        BY <1>2, <3>1, <4>1
    <3> QED
      BY <1>1, <1>2, <1>3, <3>1, <3>2
  <2>2. ASSUME NEW i \in first..Len(log) PROVE i \in S
    <3>1. i \in DOMAIN log /\ first \in DOMAIN log /\ first <= i
      BY <1>1, <1>3
    <3>2. log[first] <= log[i] /\ log[first] = s
      BY <1>1, <1>2, <3>1 DEF Ordered
    <3> QED
      BY <1>1, <1>3, <3>1, <3>2
  <2> QED
    BY <2>1, <2>2
<1> HIDE DEF first, S
<1>5. Cardinality(S) = n
  <2>1. Cardinality(first..Len(log)) = IF first > Len(log) THEN 0 ELSE Len(log) - first + 1
    BY <1>1, <1>3, FS_Interval
  <2> QED
    BY <1>1, <1>3, <1>4, <2>1
<1>6. buckets[o].message_count = n /\ buckets[o].window_start = s
  BY <1>2 DEF Bucket
<1> QED
  BY <1>0, <1>5, <1>6 DEF S

\* The limiters' variables keep their types; a row never counts beyond the limit
\* (check_and_increment_rate_limit, RateLimiter).
THEOREM LimitsTyped == LimitsSpec => []LimitsTypeOK
<1>1. LimitsKept => LimitsTypeOK
  <2> SUFFICES ASSUME LimitsKept PROVE LimitsTypeOK
    OBVIOUS
  <2>1. ASSUME NEW o \in Owners
        PROVE  \/ buckets[o] = NoBucket
               \/ \E s \in 0..clock, n \in 1..MaxMessages : buckets[o] = Bucket(s, n)
    BY DEF LimitsKept, TenantsKept, RowFits
  <2> QED
    BY <2>1 DEF LimitsKept, OwnersKept, LimitsTypeOK
<1> QED
  BY <1>1, LimitsInductive, PTL

\* Whatever the limit, the window and the times of requests and cleanups, the
\* limiter in memory never lets more than max_requests through in a window
\* (RateLimiter.is_rate_limited, _maybe_cleanup).
THEOREM SlidingWindowKept == LimitsSpec => []SlidingBound
<1>1. LimitsKept => SlidingBound
  BY DEF LimitsKept, OwnersKept, SlidingBound
<1> QED
  BY <1>1, LimitsInductive, PTL

\* Less than twice the tenant's limit gets through in a window's length
\* (tenant_store.check_and_increment_rate_limit).
THEOREM BurstKept == LimitsSpec => []BurstBound
<1>1. LimitsKept => BurstBound
  BY DEF LimitsKept, TenantsKept, BurstBound
<1> QED
  BY <1>1, LimitsInductive, PTL

\* The row's count is the number of messages its window let through
\* (tenant_store.check_and_increment_rate_limit).
THEOREM RowCountsWindow == LimitsSpec => []BucketCountsWindow
<1>1. LimitsKept => BucketCountsWindow
  <2>1. LimitsKept => clock \in Nat /\ TenantsKept
    BY LimitAssumption DEF LimitsKept
  <2> QED
    BY <2>1, CountIsThere DEF BucketCountsWindow
<1> QED
  BY <1>1, LimitsInductive, PTL
=============================================================================
