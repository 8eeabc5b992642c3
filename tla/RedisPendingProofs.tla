------------------------- MODULE RedisPendingProofs -------------------------
(***************************************************************************)
(* Proofs about RedisPending for every set of owners, changes and requests *)
(* and every TTL.  Type correctness and "a stale write is never executed"  *)
(* hold whatever the concurrency.  That a change is decided once is proved *)
(* under OneAtATime: run pending_race shows that it fails without it.  So  *)
(* are the two that follow from knowing which request holds a change: the  *)
(* store implements ConfirmationGate step by step, and loses no change.    *)
(***************************************************************************)
EXTENDS RedisPending, TLAPS

\* What the type invariant says of one running request.
LEMMA RequestFields ==
    ASSUME TypeOK, NEW h \in Handlers, request[h] # Idle
    PROVE  /\ request[h].owner \in Owners
           /\ request[h].decision \in {"yes", "no"}
           /\ request[h].at \in Nat
           /\ request[h].step \in {"got", "deleted", "late", "missed"}
           /\ request[h].step # "missed" => request[h].seen \in Changes
BY DEF TypeOK, Requests

\* A request that is at a named step of its call is not idle.
LEMMA AtStepNotIdle ==
    ASSUME NEW h \in Handlers, request[h].step \in {"got", "deleted", "missed", "late"}
    PROVE  request[h] # Idle
BY DEF Idle

\* Every step keeps every variable within its type.
LEMMA TypeStep == TypeOK /\ [Next]_vars => TypeOK'
<1> SUFFICES ASSUME TypeOK, [Next]_vars PROVE TypeOK'
  OBVIOUS
<1> USE PendingAssumption DEF TypeOK, Keys, NoKey, Key, Requests, Idle
<1>1. ASSUME NEW h \in Handlers, NEW o \in Owners, NEW c \in Changes,
             StagePending(h, o, c)
      PROVE  TypeOK'
  BY <1>1 DEF StagePending, answers
<1>2. ASSUME NEW h \in Handlers, NEW o \in Owners, NEW d \in {"yes", "no"},
             GetIntent(h, o, d)
      PROVE  TypeOK'
  BY <1>2 DEF GetIntent, MayStart, Alive, keys, answers
<1>3. ASSUME NEW h \in Handlers, DeleteKeys(h)
      PROVE  TypeOK'
  <2>1. /\ request[h].owner \in Owners
        /\ request[h].decision \in {"yes", "no"}
        /\ request[h].at \in Nat
        /\ request[h].seen \in Changes
    BY <1>3 DEF DeleteKeys
  <2>2. intentKey' \in [Owners -> Keys] /\ metaKey' \in [Owners -> Keys]
    BY <1>3, <2>1 DEF DeleteKeys
  <2>3. request' \in [Handlers -> Requests \cup {Idle}]
    BY <1>3, <2>1 DEF DeleteKeys, Further
  <2> QED
    BY <1>3, <2>2, <2>3 DEF DeleteKeys, answers
<1>4. ASSUME NEW h \in Handlers, Answer(h)
      PROVE  TypeOK'
  <2>1. request[h].owner \in Owners /\ request[h].seen \in Changes
    BY <1>4 DEF Answer
  <2>2. CASE request[h].decision = "yes"
    BY <1>4, <2>1, <2>2 DEF Answer, keys
  <2>3. CASE request[h].decision # "yes"
    BY <1>4, <2>1, <2>3 DEF Answer, keys
  <2> QED
    BY <2>2, <2>3
<1>5. ASSUME NEW h \in Handlers, GetMeta(h)
      PROVE  TypeOK'
  <2>1. /\ request[h].owner \in Owners
        /\ request[h].decision \in {"yes", "no"}
        /\ request[h].at \in Nat
    BY <1>5 DEF GetMeta
  <2> QED
    BY <1>5, <2>1 DEF GetMeta, Further, Alive, keys, answers
<1>6. ASSUME NEW h \in Handlers, DeleteMeta(h)
      PROVE  TypeOK'
  <2>1. request[h].owner \in Owners /\ request[h].seen \in Changes
    BY <1>6 DEF DeleteMeta
  <2> QED
    BY <1>6, <2>1 DEF DeleteMeta
<1>7. CASE Restart
  BY <1>7 DEF Restart, keys, answers
<1>8. CASE Tick
  BY <1>8 DEF Tick, keys, answers
<1>9. CASE UNCHANGED vars
  BY <1>9 DEF vars, keys, answers
<1> QED
  BY <1>1, <1>2, <1>3, <1>4, <1>5, <1>6, <1>7, <1>8, <1>9 DEF Next

LEMMA TypeInit == Init => TypeOK
BY PendingAssumption DEF Init, TypeOK, Keys, NoKey, Idle

\* The variables always hold values of their types, with any number of
\* concurrent requests.
THEOREM TypeCorrect == Spec => []TypeOK
BY TypeInit, TypeStep, PTL DEF Spec

-----------------------------------------------------------------------------

LEMMA InWindowInit == Init => InWindow
BY DEF Init, InWindow, NoKey, Idle

\* Windows are never moved: staging takes a fresh id, deleting empties a key,
\* and a GET records the tick it read a live key at.
LEMMA InWindowStep == TypeOK /\ InWindow /\ [Next]_vars => InWindow'
<1> SUFFICES ASSUME TypeOK, InWindow, [Next]_vars PROVE InWindow'
  OBVIOUS
<1> USE PendingAssumption DEF InWindow, NoKey, Key, Idle
<1>1. ASSUME NEW h \in Handlers, NEW o \in Owners, NEW c \in Changes,
             StagePending(h, o, c)
      PROVE  InWindow'
  BY <1>1 DEF StagePending, TypeOK, answers
<1>2. ASSUME NEW h \in Handlers, NEW o \in Owners, NEW d \in {"yes", "no"},
             GetIntent(h, o, d)
      PROVE  InWindow'
  BY <1>2 DEF GetIntent, MayStart, Alive, keys, answers, TypeOK
<1>3. ASSUME NEW h \in Handlers, DeleteKeys(h)
      PROVE  InWindow'
  <2>1. /\ request[h] # Idle /\ request[h].owner \in Owners
        /\ request[h].seen \in issued
        /\ request[h].at < due[request[h].seen]
    BY <1>3, AtStepNotIdle, RequestFields DEF DeleteKeys
  <2> QED
    BY <1>3, <2>1 DEF DeleteKeys, Further, TypeOK, answers
<1>4. ASSUME NEW h \in Handlers, Answer(h)
      PROVE  InWindow'
  BY <1>4 DEF Answer, keys, TypeOK
<1>5. ASSUME NEW h \in Handlers, GetMeta(h)
      PROVE  InWindow'
  BY <1>5 DEF GetMeta, Further, keys, answers, TypeOK
<1>6. ASSUME NEW h \in Handlers, DeleteMeta(h)
      PROVE  InWindow'
  BY <1>6 DEF DeleteMeta, TypeOK
<1>7. CASE Restart
  BY <1>7 DEF Restart, keys, answers
<1>8. CASE Tick
  BY <1>8 DEF Tick, keys, answers
<1>9. CASE UNCHANGED vars
  BY <1>9 DEF vars, keys, answers
<1> QED
  BY <1>1, <1>2, <1>3, <1>4, <1>5, <1>6, <1>7, <1>8, <1>9 DEF Next

\* "A stale write is never executed" (pending.py:13), with any number of
\* concurrent requests: a YES that releases a change reached Track B before
\* the end of that change's confirmation window.
THEOREM StaleNeverReleased == Spec => NoStaleRelease
<1>1. InWindow /\ [Next]_vars =>
        [\A h \in Handlers :
            (request[h].step = "deleted" /\ request'[h] = Idle /\ released' # released)
                => request[h].at < due[request[h].seen]]_vars
  BY DEF InWindow
<1>2. Spec => []InWindow
  BY TypeInit, InWindowInit, TypeStep, InWindowStep, PTL DEF Spec
<1> QED
  BY <1>1, <1>2, PTL DEF Spec, NoStaleRelease

-----------------------------------------------------------------------------
(***************************************************************************)
(* One request of an owner at a time.                                      *)
(***************************************************************************)

LEMMA GateInvInit == Init => GateInv
BY PendingAssumption
   DEF Init, GateInv, Serial, StagedUndecided, StagedApart, MetaFollowsIntent,
       ReadIsCurrent, TakenByOne, AnsweredWereIssued, ReleasedAtMostOnce, OneOutcome,
       ExpiryDistinguishable, NoKey, Idle, Alive

\* Staging takes an id nobody has seen, for an owner with no running request.
LEMMA StageKeepsGate ==
    ASSUME OneAtATime, TypeOK, GateInv,
           NEW h \in Handlers, NEW o \in Owners, NEW c \in Changes,
           StagePending(h, o, c)
    PROVE  GateInv'
<1> USE StagePending(h, o, c), PendingAssumption
    DEF StagePending, MayStart, TypeOK, Key, answers
<1>1. Serial'
  BY DEF GateInv, Serial
<1>2. StagedUndecided'
  BY DEF GateInv, StagedUndecided, AnsweredWereIssued, Alive
<1>3. StagedApart' /\ MetaFollowsIntent'
  BY DEF GateInv, StagedUndecided, StagedApart, MetaFollowsIntent
<1>4. ReadIsCurrent' /\ TakenByOne'
  BY RequestFields DEF GateInv, ReadIsCurrent, TakenByOne, Alive
<1>5. AnsweredWereIssued' /\ ReleasedAtMostOnce' /\ OneOutcome'
  BY DEF GateInv, AnsweredWereIssued, ReleasedAtMostOnce, OneOutcome
<1>6. ExpiryDistinguishable'
  BY DEF GateInv, ExpiryDistinguishable, Alive
<1> QED
  BY <1>1, <1>2, <1>3, <1>4, <1>5, <1>6 DEF GateInv

\* The first GET reads the key of an owner with no other running request.
LEMMA GetIntentKeepsGate ==
    ASSUME OneAtATime, TypeOK, GateInv,
           NEW h \in Handlers, NEW o \in Owners, NEW d \in {"yes", "no"},
           GetIntent(h, o, d)
    PROVE  GateInv'
<1> USE GetIntent(h, o, d), PendingAssumption
    DEF GetIntent, MayStart, TypeOK, keys, answers
<1>1. Serial'
  BY DEF GateInv, Serial
<1>2. ReadIsCurrent' /\ TakenByOne'
  BY DEF GateInv, ReadIsCurrent, TakenByOne, StagedUndecided, Alive
<1>3. StagedUndecided' /\ StagedApart' /\ MetaFollowsIntent'
  BY DEF GateInv, StagedUndecided, StagedApart, MetaFollowsIntent, Alive
<1>4. AnsweredWereIssued' /\ ReleasedAtMostOnce' /\ OneOutcome' /\ ExpiryDistinguishable'
  BY DEF GateInv, AnsweredWereIssued, ReleasedAtMostOnce, OneOutcome,
         ExpiryDistinguishable, Alive
<1> QED
  BY <1>1, <1>2, <1>3, <1>4 DEF GateInv

\* DELETE removes the very change the request read, and nobody else holds it.
LEMMA DeleteKeysKeepsGate ==
    ASSUME OneAtATime, TypeOK, GateInv, NEW h \in Handlers, DeleteKeys(h)
    PROVE  GateInv'
<1> DEFINE o == request[h].owner
           c == request[h].seen
<1>1. /\ request[h] # Idle /\ request[h].step = "got"
      /\ o \in Owners /\ c \in Changes
  BY AtStepNotIdle, RequestFields DEF DeleteKeys
<1>2. /\ intentKey[o].change = c /\ c # NoChange /\ c \in issued
      /\ released[c] = 0 /\ c \notin discarded /\ c \notin reportedLate
  BY <1>1, PendingAssumption DEF GateInv, ReadIsCurrent, StagedUndecided
<1>3. \A p \in Owners : p # o => intentKey[p].change # c
  BY <1>1, <1>2 DEF GateInv, StagedApart
<1>4. \A g \in Handlers : g # h /\ request[g] # Idle => request[g].owner # o
  BY <1>1 DEF GateInv, Serial
<1>5. /\ intentKey' = [intentKey EXCEPT ![o] = NoKey]
      /\ metaKey' = [metaKey EXCEPT ![o] = NoKey]
      /\ \A g \in Handlers : g # h => request'[g] = request[g]
      /\ request'[h].step = "deleted" /\ request'[h].owner = o /\ request'[h].seen = c
      /\ UNCHANGED <<now, issued, due, released, discarded, reportedLate>>
  BY DEF DeleteKeys, Further, TypeOK, answers
<1> HIDE DEF o, c
<1> USE <1>1, <1>5 DEF TypeOK, NoKey
<1>6. Serial'
  BY DEF o, GateInv, Serial
<1>7. MetaFollowsIntent' /\ StagedApart'
  BY PendingAssumption DEF GateInv, MetaFollowsIntent, StagedApart
<1>8. StagedUndecided'
  BY PendingAssumption DEF GateInv, StagedUndecided, Alive, Keys
<1>9. ReadIsCurrent'
  BY <1>4, RequestFields DEF GateInv, ReadIsCurrent, Alive
<1>10. TakenByOne'
  BY <1>2, <1>3, PendingAssumption DEF GateInv, TakenByOne
<1>11. AnsweredWereIssued' /\ ReleasedAtMostOnce' /\ OneOutcome'
  BY DEF GateInv, AnsweredWereIssued, ReleasedAtMostOnce, OneOutcome
<1>12. ExpiryDistinguishable'
  BY PendingAssumption DEF GateInv, ExpiryDistinguishable, Alive
<1> QED
  BY <1>6, <1>7, <1>8, <1>9, <1>10, <1>11, <1>12 DEF GateInv

\* The answer decides a change that is undecided and that nobody else has.
LEMMA AnswerKeepsGate ==
    ASSUME OneAtATime, TypeOK, GateInv, NEW h \in Handlers, Answer(h)
    PROVE  GateInv'
<1> DEFINE c == request[h].seen
<1>1. /\ request[h] # Idle /\ request[h].step = "deleted"
      /\ c \in Changes
  BY AtStepNotIdle, RequestFields DEF Answer
<1>2. /\ c \in issued
      /\ released[c] = 0 /\ c \notin discarded /\ c \notin reportedLate
      /\ \A p \in Owners : intentKey[p].change # c
      /\ \A g \in Handlers : g # h /\ request[g].step = "deleted" => request[g].seen # c
  BY <1>1 DEF GateInv, TakenByOne
<1>3. /\ request' = [request EXCEPT ![h] = Idle]
      /\ UNCHANGED <<now, intentKey, metaKey, issued, due, reportedLate>>
  BY DEF Answer, keys
<1>4. /\ \A e \in Changes : e # c => released'[e] = released[e]
      /\ \A e \in Changes : e # c => (e \in discarded' <=> e \in discarded)
      /\ \/ released'[c] = 1 /\ c \notin discarded'
         \/ released'[c] = 0 /\ c \in discarded'
  BY <1>1, <1>2 DEF Answer, TypeOK
<1> HIDE DEF c
<1> USE <1>1, <1>3 DEF TypeOK
<1>5. Serial' /\ MetaFollowsIntent' /\ StagedApart'
  BY DEF GateInv, Serial, MetaFollowsIntent, StagedApart
<1>6. StagedUndecided'
  BY <1>2, <1>4 DEF GateInv, StagedUndecided, Alive, Keys
<1>7. ReadIsCurrent'
  BY DEF GateInv, ReadIsCurrent, Alive
<1>8. TakenByOne'
  <2> SUFFICES ASSUME NEW g \in Handlers, request'[g].step = "deleted"
               PROVE  LET d == request'[g].seen IN
                      /\ d \in issued
                      /\ released'[d] = 0 /\ d \notin discarded' /\ d \notin reportedLate
                      /\ \A p \in Owners : intentKey[p].change # d
                      /\ \A f \in Handlers :
                            f # g /\ request'[f].step = "deleted" => request'[f].seen # d
    BY DEF TakenByOne
  <2>1. g # h /\ request[g].step = "deleted" /\ request'[g] = request[g]
    BY DEF Idle
  <2>2. request[g].seen # c /\ request[g].seen \in Changes
    BY <1>2, <2>1, AtStepNotIdle, RequestFields
  <2>3. \A f \in Handlers : request'[f].step = "deleted" =>
            f # h /\ request'[f] = request[f]
    BY DEF Idle
  <2> QED
    BY <1>4, <2>1, <2>2, <2>3 DEF GateInv, TakenByOne
<1>9. AnsweredWereIssued' /\ ReleasedAtMostOnce' /\ OneOutcome'
  BY <1>2, <1>4 DEF GateInv, AnsweredWereIssued, ReleasedAtMostOnce, OneOutcome
<1>10. ExpiryDistinguishable'
  BY DEF GateInv, ExpiryDistinguishable, Alive
<1> QED
  BY <1>5, <1>6, <1>7, <1>8, <1>9, <1>10 DEF GateInv

\* The second GET: a meta key found after the intent key died names its change.
LEMMA GetMetaKeepsGate ==
    ASSUME OneAtATime, TypeOK, GateInv, NEW h \in Handlers, GetMeta(h)
    PROVE  GateInv'
<1> DEFINE o == request[h].owner
<1>1. request[h] # Idle /\ request[h].step = "missed" /\ o \in Owners
  BY AtStepNotIdle, RequestFields DEF GetMeta
<1>2. ~Alive(intentKey[o])
  BY <1>1 DEF GateInv, ReadIsCurrent
<1>3. /\ \A g \in Handlers : g # h => request'[g] = request[g]
      /\ \/ request'[h] = Idle
         \/ /\ request'[h].step = "late" /\ request'[h].owner = o
            /\ request'[h].seen = intentKey[o].change
      /\ UNCHANGED <<now, intentKey, metaKey, issued, due, answers>>
  BY <1>1 DEF GetMeta, Further, Alive, keys, TypeOK, GateInv, MetaFollowsIntent
<1> HIDE DEF o
<1>4. Serial'
  BY <1>1, <1>3 DEF o, GateInv, Serial
<1>5. ReadIsCurrent' /\ TakenByOne'
  BY <1>2, <1>3 DEF GateInv, ReadIsCurrent, TakenByOne, Alive, answers, Idle
<1>6. StagedUndecided' /\ StagedApart' /\ MetaFollowsIntent'
  BY <1>3 DEF GateInv, StagedUndecided, StagedApart, MetaFollowsIntent, Alive, answers
<1>7. AnsweredWereIssued' /\ ReleasedAtMostOnce' /\ OneOutcome' /\ ExpiryDistinguishable'
  BY <1>3 DEF GateInv, AnsweredWereIssued, ReleasedAtMostOnce, OneOutcome,
              ExpiryDistinguishable, Alive, answers
<1> QED
  BY <1>4, <1>5, <1>6, <1>7 DEF GateInv

\* `expired` is answered for a change whose key is dead and never decided.
LEMMA DeleteMetaKeepsGate ==
    ASSUME OneAtATime, TypeOK, GateInv, NEW h \in Handlers, DeleteMeta(h)
    PROVE  GateInv'
<1> DEFINE o == request[h].owner
           c == request[h].seen
<1>1. /\ request[h] # Idle /\ request[h].step = "late"
      /\ o \in Owners /\ c \in Changes
  BY AtStepNotIdle, RequestFields DEF DeleteMeta
<1>2. ~Alive(intentKey[o]) /\ intentKey[o].change = c
  BY <1>1 DEF GateInv, ReadIsCurrent
<1>3. c \in issued /\ released[c] = 0 /\ c \notin discarded
  BY <1>1, <1>2, PendingAssumption DEF GateInv, StagedUndecided
<1>4. \A p \in Owners : p # o => intentKey[p].change # c
  BY <1>1, <1>2, PendingAssumption DEF GateInv, StagedApart
<1>5. \A g \in Handlers : g # h /\ request[g] # Idle => request[g].owner # o
  BY <1>1 DEF GateInv, Serial
<1>6. /\ metaKey' = [metaKey EXCEPT ![o] = NoKey]
      /\ reportedLate' = reportedLate \cup {c}
      /\ request' = [request EXCEPT ![h] = Idle]
      /\ UNCHANGED <<now, intentKey, issued, due, released, discarded>>
  BY DEF DeleteMeta
<1> HIDE DEF o, c
<1> USE <1>1, <1>6 DEF TypeOK, NoKey
<1>7. Serial' /\ MetaFollowsIntent' /\ StagedApart'
  BY DEF GateInv, Serial, MetaFollowsIntent, StagedApart
<1>8. StagedUndecided'
  BY <1>2, <1>4 DEF GateInv, StagedUndecided, Alive
<1>9. ReadIsCurrent'
  <2> SUFFICES ASSUME NEW g \in Handlers, request'[g] # Idle
               PROVE  LET k == intentKey[request[g].owner] IN
                      /\ request[g].step = "got" =>
                            request[g].seen = k.change /\ k.change \notin reportedLate'
                      /\ request[g].step \in {"deleted", "missed", "late"} => ~Alive(k)
                      /\ request[g].step = "late" => request[g].seen = k.change
    BY DEF ReadIsCurrent, Alive
  <2>1. g # h /\ request[g] # Idle /\ request[g].owner # o /\ request[g].owner \in Owners
    BY <1>5, RequestFields
  <2>2. intentKey[request[g].owner].change # c
    BY <2>1, <1>4
  <2> QED
    BY <2>1, <2>2 DEF GateInv, ReadIsCurrent
<1>10. AnsweredWereIssued' /\ ReleasedAtMostOnce' /\ OneOutcome'
  BY <1>3 DEF GateInv, AnsweredWereIssued, ReleasedAtMostOnce, OneOutcome
<1>11. ExpiryDistinguishable'
  BY <1>2 DEF GateInv, ExpiryDistinguishable, Alive
<1>12. TakenByOne'
  BY <1>2 DEF GateInv, TakenByOne, Idle
<1> QED
  BY <1>7, <1>8, <1>9, <1>10, <1>11, <1>12 DEF GateInv

LEMMA GateInvStep ==
    OneAtATime /\ TypeOK /\ GateInv /\ [Next]_vars => GateInv'
<1> SUFFICES ASSUME OneAtATime, TypeOK, GateInv, [Next]_vars PROVE GateInv'
  OBVIOUS
<1>1. CASE Restart
  <2>1. /\ \A h \in Handlers : request'[h] = Idle
        /\ UNCHANGED <<now, intentKey, metaKey, issued, due, released,
                       discarded, reportedLate>>
    BY <1>1 DEF Restart, keys, answers
  <2>2. Serial' /\ ReadIsCurrent' /\ TakenByOne'
    BY <2>1 DEF Serial, ReadIsCurrent, TakenByOne, Idle
  <2>3. /\ StagedUndecided' /\ StagedApart' /\ MetaFollowsIntent'
        /\ AnsweredWereIssued' /\ ReleasedAtMostOnce' /\ OneOutcome'
        /\ ExpiryDistinguishable'
    BY <2>1 DEF GateInv, StagedUndecided, StagedApart, MetaFollowsIntent,
       AnsweredWereIssued, ReleasedAtMostOnce, OneOutcome, ExpiryDistinguishable, Alive
  <2> QED
    BY <2>2, <2>3 DEF GateInv
<1>2. CASE Tick
  <2>1. /\ now \in Nat /\ now' = now + 1
        /\ UNCHANGED <<intentKey, metaKey, request, issued, due, released,
                       discarded, reportedLate>>
        /\ \A o \in Owners : intentKey[o].until \in Nat
    BY <1>2 DEF Tick, TypeOK, Keys, keys, answers
  <2>2. \A o \in Owners : Alive(intentKey[o])' => Alive(intentKey[o])
    BY <2>1 DEF Alive
  <2>3. StagedUndecided' /\ ReadIsCurrent' /\ TakenByOne' /\ ExpiryDistinguishable'
    BY <2>1, <2>2, RequestFields DEF GateInv, StagedUndecided, ReadIsCurrent, TakenByOne,
       ExpiryDistinguishable
  <2> QED
    BY <2>1, <2>3 DEF GateInv, Serial, StagedApart, MetaFollowsIntent,
       AnsweredWereIssued, ReleasedAtMostOnce, OneOutcome
<1>3. CASE UNCHANGED vars
  BY <1>3 DEF vars, keys, answers, GateInv, Serial, StagedUndecided, StagedApart,
       MetaFollowsIntent, ReadIsCurrent, TakenByOne, AnsweredWereIssued,
       ReleasedAtMostOnce, OneOutcome, ExpiryDistinguishable, Alive
<1> QED
  BY <1>1, <1>2, <1>3, StageKeepsGate, GetIntentKeepsGate, DeleteKeysKeepsGate,
     AnswerKeepsGate, GetMetaKeepsGate, DeleteMetaKeepsGate DEF Next

LEMMA GateInvariant == OneAtATime /\ Spec => []GateInv
<1>1. SUFFICES ASSUME OneAtATime PROVE Spec => []GateInv
  OBVIOUS
<1> QED
  BY <1>1, TypeInit, GateInvInit, TypeStep, GateInvStep, PTL DEF Spec

\* One request of an owner at a time: however YES, NO, re-stagings, restarts
\* and expiry follow each other, a staged change reaches the write pipeline at
\* most once (pending.py:10, "the only release valve").
THEOREM ReleasedOnce == OneAtATime /\ Spec => []ReleasedAtMostOnce
<1>1. GateInv => ReleasedAtMostOnce
  BY DEF GateInv
<1> QED
  BY <1>1, GateInvariant, PTL

\* ... and a change that was declined or reported expired is never written.
THEOREM DecidedOneWay == OneAtATime /\ Spec => []OneOutcome
<1>1. GateInv => OneOutcome
  BY DEF GateInv
<1> QED
  BY <1>1, GateInvariant, PTL

\* ... and a late answer can always be told from one to a change that was
\* never staged: the meta key outlives the intent key (pending.py:18).
THEOREM LateIsRecognised == OneAtATime /\ Spec => []ExpiryDistinguishable
<1>1. GateInv => ExpiryDistinguishable
  BY DEF GateInv
<1> QED
  BY <1>1, GateInvariant, PTL

-----------------------------------------------------------------------------
(***************************************************************************)
(* The gate: what the keys and the running requests mean to the owner.     *)
(***************************************************************************)

\* Request h has the decision on o's change; without one the key alone counts.
Claiming(h, o) == request[h].step \in {"got", "deleted"} /\ request[h].owner = o
Bare(o) == IF Alive(intentKey[o]) THEN intentKey[o].change ELSE NoChange

LEMMA OpenNow ==
    ASSUME Serial, NEW o
    PROVE  /\ \A h \in Handlers : Claiming(h, o) => OpenChange(o) = request[h].seen
           /\ (\A h \in Handlers : ~Claiming(h, o)) => OpenChange(o) = Bare(o)
<1>1. ASSUME NEW h \in Handlers, Claiming(h, o) PROVE OpenChange(o) = request[h].seen
  <2>1. \A g \in Handlers : Claiming(g, o) => g = h
    BY <1>1 DEF Claiming, Serial, Idle
  <2>2. Claims(o) = {request[h]}
    BY <1>1, <2>1 DEF Claims, Claiming
  <2>3. (CHOOSE r \in {request[h]} : TRUE) = request[h]
    OBVIOUS
  <2> QED
    BY <2>2, <2>3 DEF OpenChange
<1>2. (\A h \in Handlers : ~Claiming(h, o)) => Claims(o) = {}
  BY DEF Claims, Claiming
<1> QED
  BY <1>1, <1>2 DEF OpenChange, Bare

\* The same of the next state.
LEMMA OpenNext ==
    ASSUME Serial', NEW o
    PROVE  /\ \A h \in Handlers : Claiming(h, o)' => OpenChange(o)' = request'[h].seen
           /\ (\A h \in Handlers : ~Claiming(h, o)') => OpenChange(o)' = Bare(o)'
<1>1. ASSUME NEW h \in Handlers, Claiming(h, o)' PROVE OpenChange(o)' = request'[h].seen
  <2>1. \A g \in Handlers : Claiming(g, o)' => g = h
    BY <1>1 DEF Claiming, Serial, Idle
  <2>2. Claims(o)' = {request'[h]}
    BY <1>1, <2>1 DEF Claims, Claiming
  <2>3. (CHOOSE r \in {request'[h]} : TRUE) = request'[h]
    OBVIOUS
  <2> QED
    BY <2>2, <2>3 DEF OpenChange
<1>2. (\A h \in Handlers : ~Claiming(h, o)') => Claims(o)' = {}
  BY DEF Claims, Claiming
<1> QED
  BY <1>1, <1>2 DEF OpenChange, Bare

LEMMA SameOpen ==
    ASSUME Serial, Serial', NEW o,
           \A h \in Handlers : Claiming(h, o)' <=> Claiming(h, o),
           \A h \in Handlers : Claiming(h, o) => request'[h].seen = request[h].seen,
           (\E h \in Handlers : Claiming(h, o)) \/ Bare(o)' = Bare(o)
    PROVE  OpenChange(o)' = OpenChange(o)
BY OpenNow, OpenNext

\* An open change was issued, is undecided, and is open for one owner.
LEMMA OpenUndecided ==
    ASSUME TypeOK, GateInv, NEW o \in Owners
    PROVE  /\ OpenChange(o) \in Changes \cup {NoChange}
           /\ OpenChange(o) # NoChange =>
                  /\ OpenChange(o) \in issued /\ OpenChange(o) \notin discarded
                  /\ released[OpenChange(o)] = 0
<1>1. ASSUME NEW h \in Handlers, Claiming(h, o)
      PROVE  /\ OpenChange(o) \in Changes
             /\ OpenChange(o) \in issued /\ OpenChange(o) \notin discarded
             /\ released[OpenChange(o)] = 0
  <2>1. OpenChange(o) = request[h].seen /\ request[h].seen \in Changes
    BY <1>1, OpenNow, AtStepNotIdle, RequestFields DEF Claiming, GateInv
  <2>2. CASE request[h].step = "got"
    <3>1. intentKey[o].change = OpenChange(o) /\ OpenChange(o) # NoChange
      BY <1>1, <2>1, <2>2, AtStepNotIdle, PendingAssumption DEF Claiming, GateInv, ReadIsCurrent
    <3> QED
      BY <2>1, <3>1 DEF GateInv, StagedUndecided
  <2>3. CASE request[h].step = "deleted"
    BY <2>1, <2>3 DEF GateInv, TakenByOne
  <2> QED
    BY <1>1, <2>2, <2>3 DEF Claiming
<1>2. CASE \A h \in Handlers : ~Claiming(h, o)
  <2>1. OpenChange(o) = Bare(o)
    BY <1>2, OpenNow DEF GateInv
  <2> QED
    BY <2>1 DEF Bare, Alive, GateInv, StagedUndecided, TypeOK, Keys
<1> QED
  BY <1>1, <1>2

LEMMA OpenApart ==
    ASSUME TypeOK, GateInv, NEW o \in Owners, NEW p \in Owners, o # p, OpenChange(o) # NoChange
    PROVE  OpenChange(o) # OpenChange(p)
<1>1. ASSUME NEW q \in Owners, OpenChange(q) # NoChange
      PROVE  \/ intentKey[q].change = OpenChange(q)
             \/ \E h \in Handlers : /\ Claiming(h, q) /\ request[h].step = "deleted"
                                    /\ request[h].seen = OpenChange(q)
  <2>1. ASSUME NEW h \in Handlers, Claiming(h, q), request[h].step = "got"
        PROVE  intentKey[q].change = OpenChange(q)
    BY <2>1, OpenNow, AtStepNotIdle DEF Claiming, GateInv, ReadIsCurrent
  <2>2. CASE \A h \in Handlers : ~Claiming(h, q)
    BY <1>1, <2>2, OpenNow DEF GateInv, Bare
  <2> QED
    BY <2>1, <2>2, OpenNow DEF Claiming, GateInv
<1> SUFFICES ASSUME OpenChange(o) = OpenChange(p) PROVE FALSE
  OBVIOUS
<1>2. CASE intentKey[o].change = OpenChange(o) /\ intentKey[p].change = OpenChange(o)
  BY <1>2 DEF GateInv, StagedApart
<1>3. ASSUME NEW q \in Owners, NEW h \in Handlers, request[h].step = "deleted",
             request[h].seen = OpenChange(o), intentKey[q].change = OpenChange(o)
      PROVE  FALSE
  BY <1>3 DEF GateInv, TakenByOne
<1>4. ASSUME NEW g \in Handlers, NEW h \in Handlers, Claiming(g, o), Claiming(h, p),
             request[g].step = "deleted", request[h].step = "deleted",
             request[g].seen = request[h].seen
      PROVE  FALSE
  BY <1>4 DEF GateInv, TakenByOne, Claiming
<1> QED
  BY <1>1, <1>2, <1>3, <1>4

-----------------------------------------------------------------------------
\* Whatever only closes windows, and nothing, is a Drop of the gate.
LEMMA ClosingIsDrop ==
    ASSUME TypeOK, GateInv, UNCHANGED <<issued, released, discarded>>,
           \A o \in Owners : OpenChange(o)' = OpenChange(o) \/ OpenChange(o)' = NoChange
    PROVE  Gate!Next
<1> DEFINE owners == {o \in Owners : OpenChange(o) # NoChange /\ OpenChange(o)' = NoChange}
           open == [o \in Owners |-> OpenChange(o)]
           fate == [c \in Changes |-> FateOf(c)]
<1>1. \A o \in owners : open[o] # NoChange
  OBVIOUS
<1>2. open' = [o \in Owners |-> IF o \in owners THEN NoChange ELSE open[o]]
  OBVIOUS
<1>3. ASSUME NEW c \in Changes
      PROVE  FateOf(c)' = IF \E o \in owners : open[o] = c THEN "dropped" ELSE FateOf(c)
  <2>0. c # NoChange
    BY PendingAssumption
  <2>1. ASSUME NEW o \in owners, open[o] = c PROVE FateOf(c)' = "dropped"
    <3>1. c \in issued /\ c \notin discarded /\ released[c] = 0
      BY <2>0, <2>1, OpenUndecided
    <3>2. \A p \in Owners : OpenChange(p)' # c
      BY <2>0, <2>1, OpenApart
    <3> QED
      BY <3>1, <3>2 DEF FateOf
  <2>2. ASSUME ~\E o \in owners : open[o] = c PROVE FateOf(c)' = FateOf(c)
    <3>1. (\E o \in Owners : OpenChange(o)' = c) <=> \E o \in Owners : OpenChange(o) = c
      BY <2>0, <2>2
    <3> QED
      BY <3>1 DEF FateOf
  <2> QED
    BY <2>1, <2>2
<1>4. fate' = [c \in Changes |-> IF \E o \in owners : open[o] = c THEN "dropped" ELSE fate[c]]
  BY <1>3
<1>5. owners \in SUBSET Owners
  OBVIOUS
<1> HIDE DEF owners
<1>6. Gate!Drop(owners)
  BY <1>1, <1>2, <1>4 DEF Gate!Drop
<1> QED
  BY <1>5, <1>6 DEF Gate!Next

\* Staging offers the change, over whatever the owner had open.
LEMMA StageOffers ==
    ASSUME OneAtATime, TypeOK, GateInv, GateInv',
           NEW h \in Handlers, NEW o \in Owners, NEW c \in Changes, StagePending(h, o, c)
    PROVE  Gate!Next
<1> DEFINE open == [p \in Owners |-> OpenChange(p)]
           fate == [d \in Changes |-> FateOf(d)]
<1>0. Serial /\ Serial' /\ NoChange \notin Changes /\ Ttl \in Nat \ {0} /\ now \in Nat
  BY PendingAssumption DEF GateInv, TypeOK
<1>1. /\ \A g \in Handlers : ~Claiming(g, o) /\ ~Claiming(g, o)'
      /\ UNCHANGED <<now, request, released, discarded>>
      /\ c \notin issued /\ issued' = issued \cup {c}
  BY DEF StagePending, MayStart, Claiming, Idle, answers
<1>2. intentKey' = [intentKey EXCEPT ![o] = Key(c, now + Ttl)]
  BY DEF StagePending
<1>3. intentKey'[o] = Key(c, now + Ttl) /\ \A p \in Owners \ {o} : intentKey'[p] = intentKey[p]
  BY <1>2 DEF TypeOK
<1>4. OpenChange(o)' = c
  <2>1. Bare(o)' = c
    BY <1>0, <1>1, <1>3 DEF Bare, Alive, Key
  <2> QED
    BY <1>0, <1>1, <2>1, OpenNext
<1>5. ASSUME NEW p \in Owners \ {o} PROVE OpenChange(p)' = OpenChange(p)
  <2>1. Bare(p)' = Bare(p) /\ \A g \in Handlers : Claiming(g, p)' <=> Claiming(g, p)
    BY <1>1, <1>3 DEF Bare, Alive, Claiming
  <2> QED
    BY <1>0, <1>1, <2>1, SameOpen
<1>6. open' = [open EXCEPT ![o] = c]
  BY <1>4, <1>5
<1>7. released[c] = 0 /\ c \notin discarded /\ FateOf(c) = "new" /\ FateOf(c)' = "open"
  BY <1>1, <1>4 DEF GateInv, AnsweredWereIssued, FateOf
<1>8. ASSUME NEW d \in Changes, d # c
      PROVE  FateOf(d)' = IF d = OpenChange(o) THEN "dropped" ELSE FateOf(d)
  <2>1. CASE d = OpenChange(o)
    <3>1. d \in issued /\ d \notin discarded /\ released[d] = 0
      BY <1>0, <2>1, OpenUndecided
    <3>2. \A p \in Owners : OpenChange(p)' # d
      BY <1>0, <1>4, <1>5, <1>8, <2>1, OpenApart
    <3> QED
      BY <1>1, <2>1, <3>1, <3>2 DEF FateOf
  <2>2. CASE d # OpenChange(o)
    <3>1. (\E p \in Owners : OpenChange(p)' = d) <=> \E p \in Owners : OpenChange(p) = d
      BY <1>4, <1>5, <1>8, <2>2
    <3> QED
      BY <1>1, <1>8, <2>2, <3>1 DEF FateOf
  <2> QED
    BY <2>1, <2>2
<1>9. fate' = [d \in Changes |-> IF d = c THEN "open"
                                 ELSE IF d = open[o] THEN "dropped" ELSE fate[d]]
  BY <1>7, <1>8
<1>10. Gate!Offer(o, c)
  BY <1>1, <1>6, <1>7, <1>9 DEF Gate!Offer
<1> QED
  BY <1>10 DEF Gate!Next

\* The answer releases or discards the owner's open change.
LEMMA AnswerDecides ==
    ASSUME OneAtATime, TypeOK, GateInv, GateInv', NEW h \in Handlers, Answer(h)
    PROVE  Gate!Next
<1> DEFINE open == [p \in Owners |-> OpenChange(p)]
           fate == [d \in Changes |-> FateOf(d)]
<1>0. Serial /\ Serial' /\ NoChange \notin Changes
  BY PendingAssumption DEF GateInv
<1>1. PICK o \in Owners, c \in Changes :
          /\ Claiming(h, o) /\ request[h].step = "deleted" /\ request[h].seen = c
          /\ request[h].owner = o
  BY AtStepNotIdle, RequestFields DEF Answer, Claiming
<1>2. /\ OpenChange(o) = c /\ ~Alive(intentKey[o])
      /\ released[c] = 0 /\ c \notin discarded /\ c \in issued
  BY <1>0, <1>1, OpenNow, AtStepNotIdle DEF GateInv, ReadIsCurrent, TakenByOne
<1>3. /\ request'[h] = Idle /\ \A g \in Handlers \ {h} : request'[g] = request[g]
      /\ UNCHANGED <<now, intentKey, issued>>
  BY DEF Answer, TypeOK, keys
<1>4. OpenChange(o)' = NoChange
  <2>1. \A g \in Handlers : ~Claiming(g, o)'
    BY <1>0, <1>1, <1>3 DEF Claiming, Serial, Idle
  <2>2. Bare(o)' = NoChange
    BY <1>2, <1>3 DEF Bare, Alive
  <2> QED
    BY <1>0, <2>1, <2>2, OpenNext
<1>5. ASSUME NEW p \in Owners \ {o} PROVE OpenChange(p)' = OpenChange(p)
  <2>1. /\ Bare(p)' = Bare(p) /\ \A g \in Handlers : Claiming(g, p)' <=> Claiming(g, p)
        /\ \A g \in Handlers : Claiming(g, p) => request'[g].seen = request[g].seen
    BY <1>1, <1>3 DEF Bare, Alive, Claiming, Idle
  <2> QED
    BY <1>0, <2>1, SameOpen
<1>6. open' = [open EXCEPT ![o] = NoChange] /\ open[o] = c /\ open[o] # NoChange
  <2>1. open' = [open EXCEPT ![o] = NoChange]
    BY <1>4, <1>5
  <2>2. open[o] = c /\ c # NoChange
    BY <1>0, <1>2
  <2> QED
    BY <2>1, <2>2
<1>7. ASSUME NEW d \in Changes, d # c, released'[d] = released[d],
             d \in discarded' <=> d \in discarded
      PROVE  FateOf(d)' = FateOf(d)
  <2>1. (\E p \in Owners : OpenChange(p)' = d) <=> \E p \in Owners : OpenChange(p) = d
    BY <1>0, <1>2, <1>4, <1>5, <1>7
  <2> QED
    BY <1>3, <1>7, <2>1 DEF FateOf
<1>8. CASE request[h].decision = "yes"
  <2>1. released' = [released EXCEPT ![c] = @ + 1] /\ UNCHANGED discarded
    BY <1>1, <1>8 DEF Answer
  <2>2. FateOf(c)' = "released"
    BY <1>2, <2>1 DEF FateOf, TypeOK
  <2>3. \A d \in Changes \ {c} : FateOf(d)' = FateOf(d)
    BY <1>7, <2>1 DEF TypeOK
  <2>4. fate' = [fate EXCEPT ![c] = "released"]
    BY <2>2, <2>3
  <2>5. Gate!Release(o)
    BY <1>6, <2>1, <2>4 DEF Gate!Release
  <2> QED
    BY <2>5 DEF Gate!Next
<1>9. CASE request[h].decision # "yes"
  <2>1. discarded' = discarded \cup {c} /\ UNCHANGED released
    BY <1>1, <1>9 DEF Answer
  <2>2. FateOf(c)' = "discarded"
    BY <1>2, <2>1 DEF FateOf
  <2>3. \A d \in Changes \ {c} : FateOf(d)' = FateOf(d)
    BY <1>7, <2>1
  <2>4. fate' = [fate EXCEPT ![c] = "discarded"]
    BY <2>2, <2>3
  <2>5. Gate!Discard(o)
    BY <1>6, <2>1, <2>4 DEF Gate!Discard
  <2> QED
    BY <2>5 DEF Gate!Next
<1> QED
  BY <1>8, <1>9

\* The requests that only read, delete what they read, die or wait close windows
\* at most.
LEMMA OthersClose ==
    ASSUME OneAtATime, TypeOK, GateInv, GateInv', NEW o \in Owners,
           \/ \E h \in Handlers, p \in Owners, d \in {"yes", "no"} : GetIntent(h, p, d)
           \/ \E h \in Handlers : DeleteKeys(h) \/ GetMeta(h) \/ DeleteMeta(h)
           \/ Restart \/ Tick \/ UNCHANGED vars
    PROVE  OpenChange(o)' = OpenChange(o) \/ OpenChange(o)' = NoChange
<1>0. Serial /\ Serial' /\ NoChange \notin Changes
  BY PendingAssumption DEF GateInv
<1>1. ASSUME NEW h \in Handlers, NEW p \in Owners, NEW d \in {"yes", "no"}, GetIntent(h, p, d)
      PROVE  OpenChange(o)' = OpenChange(o)
  <2>1. /\ \A g \in Handlers \ {h} : request'[g] = request[g]
        /\ UNCHANGED <<now, intentKey>> /\ \A g \in Handlers : ~Claiming(g, p)
        /\ request[h] = Idle /\ ~Claiming(h, o)
        /\ request'[h] = [step |-> IF Alive(intentKey[p]) THEN "got" ELSE "missed", owner |-> p,
                          decision |-> d, at |-> now,
                          seen |-> IF Alive(intentKey[p]) THEN intentKey[p].change ELSE NoChange]
    BY <1>1 DEF GetIntent, MayStart, TypeOK, keys, Claiming, Idle
  <2>2. Bare(o)' = Bare(o)
    BY <2>1 DEF Bare, Alive
  <2>3. CASE o = p /\ Alive(intentKey[p])
    <3>1. Claiming(h, o)' /\ request'[h].seen = intentKey[o].change
      BY <2>1, <2>3 DEF Claiming
    <3>2. OpenChange(o) = intentKey[o].change
      BY <1>0, <2>1, <2>3, OpenNow DEF Bare
    <3> QED
      BY <1>0, <3>1, <3>2, OpenNext
  <2>4. CASE ~(o = p /\ Alive(intentKey[p]))
    <3>1. ~Claiming(h, o)'
      BY <2>1, <2>4 DEF Claiming
    <3>2. \A g \in Handlers : Claiming(g, o)' <=> Claiming(g, o)
      BY <2>1, <3>1 DEF Claiming
    <3>3. \A g \in Handlers : Claiming(g, o) => request'[g].seen = request[g].seen
      BY <2>1
    <3> QED
      BY <1>0, <2>2, <3>2, <3>3, SameOpen
  <2> QED
    BY <2>3, <2>4
<1>2. ASSUME NEW h \in Handlers, DeleteKeys(h) PROVE OpenChange(o)' = OpenChange(o)
  <2>1. /\ request[h].step = "got" /\ request[h].owner \in Owners
        /\ \A g \in Handlers \ {h} : request'[g] = request[g]
        /\ request'[h].step = "deleted" /\ request'[h].owner = request[h].owner
        /\ request'[h].seen = request[h].seen /\ UNCHANGED now
        /\ \A p \in Owners : p # request[h].owner => intentKey'[p] = intentKey[p]
    BY <1>2, AtStepNotIdle, RequestFields DEF DeleteKeys, Further, TypeOK
  <2>2. \A g \in Handlers : /\ Claiming(g, o)' <=> Claiming(g, o)
                            /\ Claiming(g, o) => request'[g].seen = request[g].seen
    BY <2>1 DEF Claiming
  <2>3. Claiming(h, o) \/ Bare(o)' = Bare(o)
    BY <2>1 DEF Claiming, Bare, Alive
  <2> QED
    BY <1>0, <2>2, <2>3, SameOpen
<1>3. ASSUME NEW h \in Handlers, GetMeta(h) \/ DeleteMeta(h) PROVE OpenChange(o)' = OpenChange(o)
  <2>1. /\ \A g \in Handlers \ {h} : request'[g] = request[g]
        /\ request[h].step \in {"missed", "late"} /\ request'[h].step \in {"late", "idle"}
        /\ UNCHANGED <<now, intentKey>>
    BY <1>3 DEF GetMeta, DeleteMeta, Further, TypeOK, keys, Idle
  <2>2. \A g \in Handlers : /\ Claiming(g, o)' <=> Claiming(g, o)
                            /\ Claiming(g, o) => request'[g].seen = request[g].seen
    BY <2>1 DEF Claiming
  <2>3. Bare(o)' = Bare(o)
    BY <2>1 DEF Bare, Alive
  <2> QED
    BY <1>0, <2>2, <2>3, SameOpen
<1>4. CASE Restart
  <2>1. UNCHANGED <<now, intentKey>> /\ \A g \in Handlers : ~Claiming(g, o)'
    BY <1>4 DEF Restart, keys, Claiming, Idle
  <2>2. OpenChange(o)' = Bare(o)
    BY <1>0, <2>1, OpenNext DEF Bare, Alive
  <2>3. ASSUME NEW h \in Handlers, Claiming(h, o) PROVE Bare(o) \in {OpenChange(o), NoChange}
    BY <1>0, <2>3, OpenNow, AtStepNotIdle DEF Claiming, Bare, GateInv, ReadIsCurrent
  <2> QED
    BY <1>0, <2>2, <2>3, OpenNow
<1>5. CASE Tick \/ UNCHANGED vars
  <2>1. /\ UNCHANGED <<request, intentKey>>
        /\ now \in Nat /\ now' \in Nat /\ now' >= now /\ intentKey[o].until \in Nat
    BY <1>5 DEF Tick, vars, keys, TypeOK, Keys
  <2>2. Bare(o)' \in {Bare(o), NoChange}
    BY <2>1 DEF Bare, Alive
  <2>3. \A g \in Handlers : Claiming(g, o)' <=> Claiming(g, o)
    BY <2>1 DEF Claiming
  <2>4. CASE Bare(o)' = Bare(o)
    BY <1>0, <2>1, <2>3, <2>4, SameOpen
  <2>5. CASE Bare(o)' = NoChange
    <3>1. CASE \E g \in Handlers : Claiming(g, o)
      BY <1>0, <2>1, <2>3, <3>1, SameOpen
    <3>2. CASE \A g \in Handlers : ~Claiming(g, o)
      BY <1>0, <2>3, <2>5, <3>2, OpenNext
    <3> QED
      BY <3>1, <3>2
  <2> QED
    BY <2>2, <2>4, <2>5
<1> QED
  BY <1>1, <1>2, <1>3, <1>4, <1>5

LEMMA GateTakesStep ==
    ASSUME OneAtATime, TypeOK, GateInv, GateInv', [Next]_vars
    PROVE  Gate!Next
<1>1. CASE \E h \in Handlers, o \in Owners, c \in Changes : StagePending(h, o, c)
  BY <1>1, StageOffers
<1>2. CASE \E h \in Handlers : Answer(h)
  BY <1>2, AnswerDecides
<1>3. CASE \/ \E h \in Handlers, o \in Owners, d \in {"yes", "no"} : GetIntent(h, o, d)
           \/ \E h \in Handlers : DeleteKeys(h) \/ GetMeta(h) \/ DeleteMeta(h)
           \/ Restart \/ Tick \/ UNCHANGED vars
  <2>1. \A o \in Owners : OpenChange(o)' = OpenChange(o) \/ OpenChange(o)' = NoChange
    BY <1>3, OthersClose
  <2>2. UNCHANGED <<issued, released, discarded>>
    BY <1>3 DEF GetIntent, DeleteKeys, GetMeta, DeleteMeta, Restart, Tick, vars, answers
  <2> QED
    BY <2>1, <2>2, ClosingIsDrop
<1> QED
  BY <1>1, <1>2, <1>3 DEF Next

LEMMA GateStarts ==
    ASSUME Init
    PROVE  Gate!Init
<1>0. Serial
  BY DEF Init, Serial
<1>1. ASSUME NEW o \in Owners PROVE OpenChange(o) = NoChange
  <2>1. \A h \in Handlers : ~Claiming(h, o)
    BY DEF Init, Claiming, Idle
  <2>2. Bare(o) = NoChange
    BY DEF Init, Bare, Alive, NoKey
  <2> QED
    BY <1>0, <2>1, <2>2, OpenNow
<1>2. \A c \in Changes : FateOf(c) = "new" /\ released[c] = 0
  BY DEF Init, FateOf
<1>3. released = [c \in Changes |-> 0]
  BY DEF Init
<1> QED
  BY <1>1, <1>2, <1>3 DEF Gate!Init

\* The Redis store keeps the gate's promise: with one request of an owner at a time,
\* every command of RedisPendingStore is a step of ConfirmationGate, or nothing to it.
THEOREM StoreImplementsGate == OneAtATime /\ Spec => GateSpec
<1>1. SUFFICES ASSUME OneAtATime PROVE Spec => GateSpec
  OBVIOUS
<1>2. TypeOK /\ GateInv /\ GateInv' /\ [Next]_vars => [Gate!Next]_(Gate!vars)
  BY <1>1, GateTakesStep
<1>3. Spec => []GateInv
  BY <1>1, GateInvariant, PTL
<1> QED
  BY <1>2, <1>3, TypeCorrect, GateStarts, PTL DEF Spec, GateSpec, Gate!Spec

-----------------------------------------------------------------------------
\* No staged change is lost: while its window is open a change leaves the store
\* only into the hands of a request that read it, and such a request answers it,
\* unless the container dies (resolve_pending).
THEOREM NothingLost == OneAtATime /\ Spec => NoSilentLoss
<1> DEFINE Handed ==
               \A o \in Owners :
                   (Alive(intentKey[o]) /\ intentKey'[o].change = NoChange) =>
                       \E h \in Handlers : /\ request'[h].step = "deleted"
                                          /\ request'[h].seen = intentKey[o].change
           Answered ==
               \A h \in Handlers :
                   (request[h].step = "deleted" /\ request'[h] # request[h] /\ ~Restart) =>
                       LET c == request[h].seen IN
                       released'[c] > released[c] \/ c \in discarded' \ discarded
<1>1. ASSUME TypeOK, GateInv, Next PROVE Handed
  <2> SUFFICES ASSUME NEW o \in Owners, Alive(intentKey[o]), intentKey'[o].change = NoChange
               PROVE  \E h \in Handlers : /\ request'[h].step = "deleted"
                                          /\ request'[h].seen = intentKey[o].change
    OBVIOUS
  <2>1. intentKey[o].change # NoChange
    BY DEF Alive
  <2>2. PICK h \in Handlers : DeleteKeys(h)
    <3>1. ASSUME NEW h \in Handlers, NEW p \in Owners, NEW c \in Changes, StagePending(h, p, c)
          PROVE  FALSE
      <4>1. intentKey' = [intentKey EXCEPT ![p] = Key(c, now + Ttl)]
        BY <3>1 DEF StagePending
      <4> QED
        BY <2>1, <4>1, PendingAssumption DEF TypeOK, Key
    <3>2. ~UNCHANGED intentKey
      BY <2>1
    <3> QED
      BY <1>1, <3>1, <3>2 DEF Next, GetIntent, Answer, GetMeta, DeleteMeta, Restart, Tick, keys
  <2>3. /\ request[h] # Idle /\ request[h].step = "got"
        /\ intentKey' = [intentKey EXCEPT ![request[h].owner] = NoKey]
        /\ request'[h].step = "deleted" /\ request'[h].seen = request[h].seen
    BY <1>1, <2>2, AtStepNotIdle DEF DeleteKeys, Further, TypeOK
  <2>4. request[h].owner = o
    BY <1>1, <2>1, <2>3 DEF TypeOK
  <2>5. request[h].seen = intentKey[o].change
    BY <1>1, <2>3, <2>4 DEF GateInv, ReadIsCurrent
  <2> QED
    BY <2>3, <2>5
<1>2. ASSUME TypeOK, GateInv, Next PROVE Answered
  <2> SUFFICES ASSUME NEW h \in Handlers, request[h].step = "deleted",
                      request'[h] # request[h], ~Restart
               PROVE  LET c == request[h].seen IN
                      released'[c] > released[c] \/ c \in discarded' \ discarded
    OBVIOUS
  <2>1. Answer(h)
    <3>1. \A g \in Handlers : g # h =>
              ~DeleteKeys(g) /\ ~Answer(g) /\ ~GetMeta(g) /\ ~DeleteMeta(g)
      BY <1>2 DEF DeleteKeys, Answer, GetMeta, DeleteMeta, TypeOK
    <3>2. \A g \in Handlers, o \in Owners, d \in {"yes", "no"} : ~GetIntent(g, o, d)
      BY <1>2 DEF GetIntent, MayStart, Idle, TypeOK
    <3>3. ~Tick /\ \A g \in Handlers, o \in Owners, c \in Changes : ~StagePending(g, o, c)
      BY DEF Tick, StagePending
    <3>4. ~DeleteKeys(h) /\ ~GetMeta(h) /\ ~DeleteMeta(h)
      BY DEF DeleteKeys, GetMeta, DeleteMeta
    <3> QED
      BY <1>2, <3>1, <3>2, <3>3, <3>4 DEF Next
  <2>2. request[h].seen \in Changes
    BY <1>2, AtStepNotIdle, RequestFields
  <2>3. released[request[h].seen] = 0 /\ request[h].seen \notin discarded
    BY <1>2 DEF GateInv, TakenByOne
  <2> QED
    BY <1>2, <2>1, <2>2, <2>3 DEF Answer, TypeOK
<1>3. TypeOK /\ GateInv /\ [Next]_vars => [Handed /\ Answered]_vars
  BY <1>1, <1>2
<1> QED
  BY <1>3, TypeCorrect, GateInvariant, PTL DEF Spec, NoSilentLoss
=============================================================================
