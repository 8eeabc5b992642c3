---------------------------- MODULE RedisPending ----------------------------
(***************************************************************************)
(* RedisPendingStore (track_b/pending.py): two keys per owner, the intent  *)
(* key and the meta key, both with a TTL that Redis enforces; the meta key *)
(* lives a grace period longer so that a late answer is reported as        *)
(* expired.  stage_pending writes both keys in one pipeline (one MULTI ... *)
(* EXEC).  resolve_pending is NOT one step: it GETs, gives the event loop  *)
(* away, DELETEs, gives it away again, and only then answers; Track B      *)
(* handles requests concurrently.                                          *)
(* Each Redis command is one action; a handler is one HTTP request.        *)
(***************************************************************************)
EXTENDS Naturals, FiniteSets

CONSTANTS
    Owners,     \* owner_id values
    Changes,    \* change_id values, fresh at every staging (uuid4)
    NoChange,   \* no change
    Handlers,   \* the requests Track B may be serving at the same time
    Ttl,        \* PENDING_TTL_SECONDS, in ticks
    Grace,      \* PENDING_EXPIRY_GRACE_SECONDS, in ticks
    MaxTime,    \* bound on the clock
    OneAtATime  \* TRUE: an owner's requests reach Track B one after another.
                \* The code does not enforce it; FALSE is what it allows.

ASSUME PendingAssumption ==
    /\ NoChange \notin Changes
    /\ Ttl \in Nat \ {0}
    /\ Grace \in Nat
    /\ MaxTime \in Nat
    /\ OneAtATime \in BOOLEAN

VARIABLES
    now,         \* the Redis server's clock
    intentKey,   \* intentKey[o]: the staged change and when Redis drops the key
    metaKey,     \* metaKey[o]: the change_id alone, dropped Grace later
    request,     \* request[h]: where the resolve_pending call of h stands
    issued,      \* history: change ids handed out by stage_pending
    due,         \* history: due[c], the end of c's confirmation window
    released,    \* history: released[c], how often c went to the write pipeline
    discarded,   \* history: changes answered `discarded`
    reportedLate \* history: changes answered `expired`

keys == <<intentKey, metaKey>>
answers == <<released, discarded, reportedLate>>
vars == <<now, keys, request, issued, due, answers>>

Keys == [change : Changes \cup {NoChange}, until : Nat]
NoKey == [change |-> NoChange, until |-> 0]
Key(c, t) == [change |-> c, until |-> t]
Alive(k) == k.change # NoChange /\ now < k.until

\* A call of resolve_pending: the owner and the decision it came with, the tick
\* it came at, and the change its last GET returned.
Requests ==
    [step : {"got", "deleted", "late"}, owner : Owners, decision : {"yes", "no"}, at : Nat,
     seen : Changes]
    \cup
    [step : {"missed"}, owner : Owners, decision : {"yes", "no"}, at : Nat,
     seen : {NoChange}]
Idle == [step |-> "idle"]
Further(r, step, seen) == [step |-> step, owner |-> r.owner, decision |-> r.decision,
                           at |-> r.at, seen |-> seen]

TypeOK ==
    /\ now \in Nat
    /\ intentKey \in [Owners -> Keys]
    /\ metaKey \in [Owners -> Keys]
    /\ request \in [Handlers -> Requests \cup {Idle}]
    /\ issued \subseteq Changes
    /\ due \in [Changes -> Nat]
    /\ released \in [Changes -> Nat]
    /\ discarded \subseteq Changes
    /\ reportedLate \subseteq Changes

Init ==
    /\ now = 0
    /\ intentKey = [o \in Owners |-> NoKey]
    /\ metaKey = [o \in Owners |-> NoKey]
    /\ request = [h \in Handlers |-> Idle]
    /\ issued = {}
    /\ due = [c \in Changes |-> 0]
    /\ released = [c \in Changes |-> 0]
    /\ discarded = {}
    /\ reportedLate = {}

-----------------------------------------------------------------------------

\* The request of handler h for owner o may start now.
MayStart(h, o) ==
    /\ request[h] = Idle
    /\ OneAtATime => \A g \in Handlers : request[g] # Idle => request[g].owner # o

\* Mutants of StagePending: the two TTLs swapped; the meta key forgotten; a
\* change_id used again.
StageSwapsTtls(h, o, c) ==
    /\ MayStart(h, o)
    /\ c \notin issued
    /\ issued' = issued \cup {c}
    /\ due' = [due EXCEPT ![c] = now + Ttl]
    /\ intentKey' = [intentKey EXCEPT ![o] = Key(c, now + Ttl + Grace)]
    /\ metaKey' = [metaKey EXCEPT ![o] = Key(c, now + Ttl)]
    /\ UNCHANGED <<now, request, answers>>

StageForgetsMeta(h, o, c) ==
    /\ MayStart(h, o)
    /\ c \notin issued
    /\ issued' = issued \cup {c}
    /\ due' = [due EXCEPT ![c] = now + Ttl]
    /\ intentKey' = [intentKey EXCEPT ![o] = Key(c, now + Ttl)]
    /\ UNCHANGED <<now, metaKey, request, answers>>

StageReusesId(h, o, c) ==
    /\ MayStart(h, o)
    /\ issued' = issued \cup {c}
    /\ due' = [due EXCEPT ![c] = now + Ttl]
    /\ intentKey' = [intentKey EXCEPT ![o] = Key(c, now + Ttl)]
    /\ metaKey' = [metaKey EXCEPT ![o] = Key(c, now + Ttl + Grace)]
    /\ UNCHANGED <<now, request, answers>>

\* stage_pending: both keys in one pipeline, over whatever was staged before.
StagePending(h, o, c) ==
    /\ MayStart(h, o)
    /\ c \notin issued
    /\ issued' = issued \cup {c}
    /\ due' = [due EXCEPT ![c] = now + Ttl]
    /\ intentKey' = [intentKey EXCEPT ![o] = Key(c, now + Ttl)]
    /\ metaKey' = [metaKey EXCEPT ![o] = Key(c, now + Ttl + Grace)]
    /\ UNCHANGED <<now, request, answers>>

\* resolve_pending, first GET: it answers the staged intent or nil.
GetIntent(h, o, d) ==
    /\ MayStart(h, o)
    /\ LET k == intentKey[o] IN
       request' = [request EXCEPT ![h] =
           [step |-> IF Alive(k) THEN "got" ELSE "missed", owner |-> o,
            decision |-> d, at |-> now,
            seen |-> IF Alive(k) THEN k.change ELSE NoChange]]
    /\ UNCHANGED <<now, keys, issued, due, answers>>

\* Mutants of DeleteKeys: only a NO deletes the intent key; only a YES does.
YesKeepsIntent(h) ==
    /\ request[h].step = "got"
    /\ intentKey' = IF request[h].decision = "yes" THEN intentKey
                    ELSE [intentKey EXCEPT ![request[h].owner] = NoKey]
    /\ metaKey' = [metaKey EXCEPT ![request[h].owner] = NoKey]
    /\ request' = [request EXCEPT ![h] = Further(@, "deleted", @.seen)]
    /\ UNCHANGED <<now, issued, due, answers>>

NoKeepsIntent(h) ==
    /\ request[h].step = "got"
    /\ intentKey' = IF request[h].decision = "no" THEN intentKey
                    ELSE [intentKey EXCEPT ![request[h].owner] = NoKey]
    /\ metaKey' = [metaKey EXCEPT ![request[h].owner] = NoKey]
    /\ request' = [request EXCEPT ![h] = Further(@, "deleted", @.seen)]
    /\ UNCHANGED <<now, issued, due, answers>>

\* DELETE of both keys, by name and whatever they hold by now.
DeleteKeys(h) ==
    /\ request[h].step = "got"
    /\ intentKey' = [intentKey EXCEPT ![request[h].owner] = NoKey]
    /\ metaKey' = [metaKey EXCEPT ![request[h].owner] = NoKey]
    /\ request' = [request EXCEPT ![h] = Further(@, "deleted", @.seen)]
    /\ UNCHANGED <<now, issued, due, answers>>

\* Mutant of Answer: a NO is not answered `discarded`.
NoUnanswered(h) ==
    /\ request[h].step = "deleted"
    /\ released' = IF request[h].decision = "yes"
                   THEN [released EXCEPT ![request[h].seen] = @ + 1] ELSE released
    /\ request' = [request EXCEPT ![h] = Idle]
    /\ UNCHANGED <<now, keys, issued, due, discarded, reportedLate>>

\* The answer, about the change that was READ: released to the write pipeline
\* (YES) or discarded (NO).
Answer(h) ==
    /\ request[h].step = "deleted"
    /\ IF request[h].decision = "yes"
       THEN /\ released' = [released EXCEPT ![request[h].seen] = @ + 1]
            /\ UNCHANGED discarded
       ELSE /\ discarded' = discarded \cup {request[h].seen}
            /\ UNCHANGED released
    /\ request' = [request EXCEPT ![h] = Idle]
    /\ UNCHANGED <<now, keys, issued, due, reportedLate>>

\* Mutant of GetMeta: keeps the whole key instead of the change_id it holds.
GetMetaKeepsKey(h) ==
    /\ request[h].step = "missed"
    /\ LET k == metaKey[request[h].owner] IN
       request' = [request EXCEPT ![h] =
           IF Alive(k) THEN Further(request[h], "late", k) ELSE Idle]
    /\ UNCHANGED <<now, keys, issued, due, answers>>

\* Second GET, of the meta key: nil answers `nothing_pending` at once.
GetMeta(h) ==
    /\ request[h].step = "missed"
    /\ LET k == metaKey[request[h].owner] IN
       request' = [request EXCEPT ![h] =
           IF Alive(k) THEN Further(request[h], "late", k.change) ELSE Idle]
    /\ UNCHANGED <<now, keys, issued, due, answers>>

\* DELETE of the meta key; the answer is `expired`.  (A restart between the two
\* only keeps that answer from the owner.)
DeleteMeta(h) ==
    /\ request[h].step = "late"
    /\ metaKey' = [metaKey EXCEPT ![request[h].owner] = NoKey]
    /\ reportedLate' = reportedLate \cup {request[h].seen}
    /\ request' = [request EXCEPT ![h] = Idle]
    /\ UNCHANGED <<now, intentKey, issued, due, released, discarded>>

\* The container restarts: requests die where they stand, Redis keeps the keys.
Restart ==
    /\ request # [h \in Handlers |-> Idle]
    /\ request' = [h \in Handlers |-> Idle]
    /\ UNCHANGED <<now, keys, issued, due, answers>>

Tick ==
    /\ now < MaxTime
    /\ now' = now + 1
    /\ UNCHANGED <<keys, request, issued, due, answers>>

Next ==
    \/ \E h \in Handlers, o \in Owners, c \in Changes : StagePending(h, o, c)
    \/ \E h \in Handlers, o \in Owners, d \in {"yes", "no"} : GetIntent(h, o, d)
    \/ \E h \in Handlers : DeleteKeys(h) \/ Answer(h) \/ GetMeta(h) \/ DeleteMeta(h)
    \/ Restart
    \/ Tick

Spec == Init /\ [][Next]_vars

-----------------------------------------------------------------------------
(***************************************************************************)
(* Properties.                                                             *)
(***************************************************************************)

\* A staged change reaches the write pipeline at most once, however many YES
\* answers, restarts and re-stagings there are (session.py:8 "prevents
\* double-submit", pending.py:10 "the only release valve").
ReleasedAtMostOnce == \A c \in Changes : released[c] <= 1

\* A change the owner declined, or was told had expired, is never written:
\* the answers released, discarded and expired exclude each other
\* (pending.py:74-82).
OneOutcome ==
    \A c \in Changes :
        /\ c \in discarded => released[c] = 0 /\ c \notin reportedLate
        /\ c \in reportedLate => released[c] = 0

\* "A stale write is never executed" (pending.py:13): when a change is
\* released, the YES had reached Track B inside its confirmation window.
NoStaleRelease ==
    [][\A h \in Handlers :
          (request[h].step = "deleted" /\ request'[h] = Idle /\ released' # released)
              => request[h].at < due[request[h].seen]]_vars

\* Expiry is distinguishable from "never staged" (pending.py:18): as long as a
\* change can be decided on, the meta key names the same change and outlives it.
ExpiryDistinguishable ==
    \A o \in Owners : Alive(intentKey[o]) =>
        /\ metaKey[o].change = intentKey[o].change
        /\ metaKey[o].until >= intentKey[o].until

\* No staged change is lost: while its window is open a change leaves the store
\* only into the hands of a request that read it (or makes room for a newer
\* staging of its owner), and such a request, unless the container dies, answers
\* it as released or discarded.
NoSilentLoss ==
    [][/\ \A o \in Owners :
              (Alive(intentKey[o]) /\ intentKey'[o].change = NoChange) =>
                  \E h \in Handlers : /\ request'[h].step = "deleted"
                                     /\ request'[h].seen = intentKey[o].change
       /\ \A h \in Handlers :
              (request[h].step = "deleted" /\ request'[h] # request[h] /\ ~Restart) =>
                  LET c == request[h].seen IN
                  released'[c] > released[c] \/ c \in discarded' \ discarded]_vars

-----------------------------------------------------------------------------
(***************************************************************************)
(* Inductive strengthenings (proved in RedisPendingProofs).                *)
(***************************************************************************)

\* A staged intent dies exactly at the end of its window, and a request that
\* read one read it inside that window, whatever the concurrency.
InWindow ==
    /\ \A o \in Owners : intentKey[o].change # NoChange =>
          /\ intentKey[o].change \in issued
          /\ intentKey[o].until = due[intentKey[o].change]
    /\ \A h \in Handlers : request[h].step \in {"got", "deleted"} =>
          /\ request[h].seen \in issued
          /\ request[h].at < due[request[h].seen]

\* No two running requests belong to one owner.
Serial ==
    \A g, h \in Handlers :
        g # h /\ request[g] # Idle /\ request[h] # Idle
            => request[g].owner # request[h].owner

\* What an intent key holds has not been decided; two owners never hold the
\* same change; the meta key names the change of the intent key.
StagedUndecided ==
    \A o \in Owners : intentKey[o].change # NoChange =>
        /\ intentKey[o].change \in issued
        /\ released[intentKey[o].change] = 0
        /\ intentKey[o].change \notin discarded
        /\ Alive(intentKey[o]) => intentKey[o].change \notin reportedLate

StagedApart ==
    \A o, p \in Owners :
        o # p /\ intentKey[o].change # NoChange
            => intentKey[o].change # intentKey[p].change

MetaFollowsIntent ==
    \A o \in Owners : metaKey[o].change # NoChange =>
        metaKey[o].change = intentKey[o].change

\* What a request read is still what the owner's key holds, and what it took away
\* is gone from it.
ReadIsCurrent ==
    \A h \in Handlers : request[h] # Idle =>
        LET k == intentKey[request[h].owner] IN
        /\ request[h].step = "got" =>
              request[h].seen = k.change /\ k.change \notin reportedLate
        /\ request[h].step \in {"deleted", "missed", "late"} => ~Alive(k)
        /\ request[h].step = "late" => request[h].seen = k.change

\* What a request took out of the store is undecided, and nobody else has it.
TakenByOne ==
    \A h \in Handlers : request[h].step = "deleted" =>
        LET c == request[h].seen IN
        /\ c \in issued
        /\ released[c] = 0 /\ c \notin discarded /\ c \notin reportedLate
        /\ \A o \in Owners : intentKey[o].change # c
        /\ \A g \in Handlers : g # h /\ request[g].step = "deleted" => request[g].seen # c

\* Only issued changes have an outcome.
AnsweredWereIssued ==
    \A c \in Changes \ issued :
        released[c] = 0 /\ c \notin discarded /\ c \notin reportedLate

GateInv ==
    /\ Serial /\ StagedUndecided /\ StagedApart /\ MetaFollowsIntent
    /\ ReadIsCurrent /\ TakenByOne /\ AnsweredWereIssued
    /\ ReleasedAtMostOnce /\ OneOutcome /\ ExpiryDistinguishable

-----------------------------------------------------------------------------
(***************************************************************************)
(* Refinement: what the two keys and the running requests mean to the      *)
(* owner.  A change is open while its key lives, or while a request that   *)
(* read it in time is about to answer.                                     *)
(***************************************************************************)

Claims(o) == {r \in {request[h] : h \in Handlers} : r.step \in {"got", "deleted"} /\ r.owner = o}

OpenChange(o) ==
    IF Claims(o) # {} THEN (CHOOSE r \in Claims(o) : TRUE).seen
    ELSE IF Alive(intentKey[o]) THEN intentKey[o].change
    ELSE NoChange

FateOf(c) ==
    IF released[c] > 0 THEN "released"
    ELSE IF c \in discarded THEN "discarded"
    ELSE IF c \notin issued THEN "new"
    ELSE IF \E o \in Owners : OpenChange(o) = c THEN "open"
    ELSE "dropped"

Gate == INSTANCE ConfirmationGate WITH
            open <- [o \in Owners |-> OpenChange(o)],
            fate <- [c \in Changes |-> FateOf(c)],
            releases <- released

\* The Redis store keeps the gate's promise.
GateSpec == Gate!Spec
=============================================================================
