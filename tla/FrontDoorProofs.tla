--------------------------- MODULE FrontDoorProofs ---------------------------
(***************************************************************************)
(* Proofs about FrontDoor for every set of owners, messages, deliveries    *)
(* and concurrent requests, and any number of faults: the conversation     *)
(* sees a message at most once, a message is charged at most once, the     *)
(* front door implements MessageFate and moves the limiters as RateLimits  *)
(* says, a 200 means that every message of the delivery is accounted for,  *)
(* a tenant is degraded exactly when the last of its calls failed, and the *)
(* operator is alerted once per outage.                                    *)
(*                                                                         *)
(* The argument for the first three: a step changes what matters in one of *)
(* four ways (it claims, charges, logs or hands over one message) or not at *)
(* all, and a message is in the hands of one request between its log and   *)
(* the router, and between its mark and the limit.  For the 200: whatever  *)
(* a request has passed in its batch is accounted for, and stays so.  For  *)
(* the alerts: a call that owes one is at its alert step, and the requests *)
(* there are counted before and after each step.                           *)
(***************************************************************************)
EXTENDS FrontDoor, RateLimitsProofs

Serving == [step : Steps, batch : Seq(Items), at : Nat, tries : Nat, guarded : BOOLEAN]

\* The part of TypeOK the proofs need.
Typed ==
    /\ req \in [Requests -> Serving \cup {NoRequest}]
    /\ rows \in [Messages -> {"none", "new", "text", "ended"}]
    /\ routed \in [Items -> Nat]
    /\ charged \in [Messages -> Nat]

\* Request r has message m in hand at one of the steps S: between the log and the
\* router, or between the mark and the limit.
Stands(r, m, S) == req[r].step \in S /\ Item(r) = m
Holding == {"process", "voice", "image", "route"}
Marking == {"limit"}
NobodyNew(S) == \A p \in Requests, m \in Messages : Stands(p, m, S)' => Stands(p, m, S)

\* What the step of a request does to the requests.
Moves(r, s) ==
    /\ req' \in [Requests -> Serving \cup {NoRequest}]
    /\ \A p \in Requests \ {r} : req'[p] = req[p]
    /\ req'[r].step = s
    /\ s \in Steps => req'[r].batch = req[r].batch /\ req'[r].at = req[r].at

LEMMA CountedUp ==
    ASSUME NEW S, NEW f \in [S -> Nat], NEW x
    PROVE  [f EXCEPT ![x] = @ + 1] \in [S -> Nat]
<1>1. CASE x \in S
  <2>1. f[x] + 1 \in Nat
    BY <1>1
  <2> QED
    BY <2>1
<1>2. CASE x \notin S
  BY <1>2
<1> QED
  BY <1>1, <1>2

LEMMA Steady ==
    ASSUME Typed, NEW r \in Requests, NEW s \in Steps, req[r].step # "idle",
           GoOn(r, s) \/ Wait(r, s)
    PROVE  Moves(r, s)
<1>1. req[r] \in Serving
  BY DEF Typed, NoRequest
<1>2. req' = [req EXCEPT ![r].step = s]
  BY DEF GoOn, Wait
<1>3. [req[r] EXCEPT !.step = s] \in Serving
  BY <1>1 DEF Serving
<1> QED
  BY <1>1, <1>2, <1>3 DEF Moves, Typed, Serving

\* Going on to a step outside S, or from within S, brings nobody new to S.
LEMMA SteadyBringsNobody ==
    ASSUME NEW r \in Requests, NEW s \in Steps, NEW S,
           Moves(r, s), s \notin S \/ req[r].step \in S
    PROVE  NobodyNew(S)
BY DEF Moves, NobodyNew, Stands, Item

LEMMA Onward ==
    ASSUME Typed, NEW r \in Requests, req[r].step # "idle", NEW x, NextItem(r, x)
    PROVE  /\ req' \in [Requests -> Serving \cup {NoRequest}]
           /\ \A p \in Requests \ {r} : req'[p] = req[p]
           /\ req'[r].step \in {"idle", "resolve"}
<1>1. req[r] \in Serving
  BY DEF Typed, NoRequest
<1> DEFINE b == req[r].batch
           a == req[r].at + 1
           next == Serve(b, a, "resolve")
<1>2. b \in Seq(Items) /\ a \in Nat
  BY <1>1 DEF Serving
<1>3. next \in Serving
  BY <1>2 DEF Serving, Steps, Serve
<1>4. req' = [req EXCEPT ![r] = next] \/ req' = [req EXCEPT ![r] = NoRequest]
  BY DEF NextItem
<1>5. next.step = "resolve" /\ NoRequest.step = "idle"
  BY DEF NoRequest, Serve
<1> HIDE DEF next
<1> QED
  BY <1>3, <1>4, <1>5 DEF Typed

LEMMA OnwardBringsNobody ==
    ASSUME NEW r \in Requests, NEW S, "idle" \notin S, "resolve" \notin S,
           \A p \in Requests \ {r} : req'[p] = req[p],
           req'[r].step \in {"idle", "resolve"}
    PROVE  NobodyNew(S)
BY DEF NobodyNew, Stands, Item
-----------------------------------------------------------------------------
\* Which messages have a row is all that matters of the log here.
SameLogged == \A m \in Messages : rows'[m] = "none" <=> rows[m] = "none"

\* The kinds of steps: nothing that matters ...
Calm ==
    /\ NobodyNew(Holding) /\ NobodyNew(Marking)
    /\ SameLogged
    /\ UNCHANGED <<processed, routed, charged>>

\* ... a message is marked ...
Claims(r) ==
    /\ Item(r) \notin processed /\ processed' = processed \cup {Item(r)}
    /\ Moves(r, "limit") /\ NobodyNew(Holding)
    /\ UNCHANGED <<rows, routed, charged>>

\* ... charged ...
Charges(r) ==
    /\ req[r].step = "limit"
    /\ charged' = [charged EXCEPT ![Item(r)] = @ + 1]
    /\ Moves(r, "log") /\ NobodyNew(Holding) /\ NobodyNew(Marking)
    /\ UNCHANGED <<processed, rows, routed>>

\* ... logged ...
Logs(r) ==
    /\ rows[Item(r)] = "none" /\ rows' = [rows EXCEPT ![Item(r)] = "new"]
    /\ Moves(r, "process") /\ NobodyNew(Marking)
    /\ UNCHANGED <<processed, routed, charged>>

\* ... or handed to the router.
Hands(r) ==
    /\ req[r].step = "route"
    /\ routed' = [routed EXCEPT ![Item(r)] = @ + 1]
    /\ Moves(r, "routing") /\ NobodyNew(Holding) /\ NobodyNew(Marking)
    /\ UNCHANGED <<processed, rows, charged>>

Kinds == Calm \/ \E r \in Requests : Claims(r) \/ Charges(r) \/ Logs(r) \/ Hands(r)

LEMMA SkipIsCalm ==
    ASSUME Typed, NEW r \in Requests, req[r].step # "idle", NEW x, NextItem(r, x),
           SameLogged, UNCHANGED <<processed, routed, charged>>
    PROVE  Calm /\ req' \in [Requests -> Serving \cup {NoRequest}]
<1>1. "idle" \notin Holding \cup Marking /\ "resolve" \notin Holding \cup Marking
  BY DEF Holding, Marking
<1> QED
  BY <1>1, Onward, OnwardBringsNobody DEF Calm

LEMMA MoveIsCalm ==
    ASSUME Typed, NEW r \in Requests, NEW s \in Steps, Moves(r, s),
           s \notin Holding \/ req[r].step \in Holding, s \notin Marking,
           SameLogged, UNCHANGED <<processed, routed, charged>>
    PROVE  Calm
BY SteadyBringsNobody DEF Calm

LEMMA RecordTyped ==
    ASSUME Typed, NEW r \in Requests, NEW s \in {"text", "ended"}, Record(r, s),
           Item(r) \in Messages => rows[Item(r)] # "none"
    PROVE  SameLogged /\ rows' \in [Messages -> {"none", "new", "text", "ended"}]
BY DEF Record, Typed, SameLogged

-----------------------------------------------------------------------------
\* Between its log and the router a message is with one request, and new to the
\* router.
Once ==
    \A m \in Messages :
        /\ routed[m] <= 1
        /\ rows[m] = "none" => routed[m] = 0
        /\ \A r \in Requests : Stands(r, m, Holding) => rows[m] # "none" /\ routed[m] = 0
        /\ \A r, p \in Requests : Stands(r, m, Holding) /\ Stands(p, m, Holding) => r = p

\* A step of a request is of one of the kinds.
LEMMA StepKinds ==
    ASSUME Typed, Once, NEW r \in Requests, Step(r)
    PROVE  Typed' /\ Kinds
<1>0. /\ {"limit", "log", "process", "voice", "image", "route", "routing", "calling", "alert",
          "onboarding"} \subseteq Steps
      /\ {"limit", "log", "routing", "calling", "alert", "onboarding"} \cap Holding = {}
      /\ {"process", "voice", "image", "route"} = Holding
      /\ Marking = {"limit"}
  BY DEF Steps, Holding, Marking
<1>1. CASE CheckIdempotency(r)
  <2>1. req[r].step = "resolve"
    BY <1>1 DEF CheckIdempotency, At
  <2>2. CASE Item(r) \in processed
    <3>1. NextItem(r, r) /\ UNCHANGED <<rows, processed, routed, charged>>
      BY <1>1, <2>2 DEF CheckIdempotency, Skip
    <3> QED
      BY <2>1, <3>1, SkipIsCalm DEF Typed, SameLogged, Kinds
  <2>3. CASE Item(r) \notin processed
    <3>1. GoOn(r, "limit") /\ processed' = processed \cup {Item(r)} /\ UNCHANGED <<rows, routed, charged>>
      BY <1>1, <2>3 DEF CheckIdempotency
    <3>2. Moves(r, "limit")
      BY <1>0, <2>1, <3>1, Steady
    <3>3. NobodyNew(Holding)
      BY <1>0, <3>2, SteadyBringsNobody
    <3> QED
      BY <2>3, <3>1, <3>2, <3>3 DEF Typed, Claims, Kinds, Moves
  <2> QED
    BY <2>2, <2>3
<1>2. CASE CheckRateLimit(r)
  <2>1. req[r].step = "limit"
    BY <1>2 DEF CheckRateLimit, At
  <2>2. CASE Skip(r) /\ UNCHANGED charged
    <3>1. UNCHANGED <<rows, processed, routed, charged>>
      BY <1>2, <2>2 DEF CheckRateLimit
    <3> QED
      BY <2>1, <2>2, <3>1, SkipIsCalm DEF Typed, SameLogged, Kinds, Skip
  <2>3. CASE GoOn(r, "log") /\ charged' = [charged EXCEPT ![Item(r)] = @ + 1]
    <3>1. UNCHANGED <<rows, processed, routed>>
      BY <1>2, <2>3 DEF CheckRateLimit
    <3>2. Moves(r, "log")
      BY <1>0, <2>1, <2>3, Steady
    <3>3. NobodyNew(Holding) /\ NobodyNew(Marking)
      BY <1>0, <3>2, SteadyBringsNobody
    <3>4. charged' \in [Messages -> Nat]
      BY <2>3, CountedUp DEF Typed
    <3> QED
      BY <2>1, <2>3, <3>1, <3>2, <3>3, <3>4 DEF Typed, Charges, Kinds, Moves
  <2> QED
    BY <1>2, <2>2, <2>3 DEF CheckRateLimit
<1>3. CASE CheckLegacyLimit(r)
  <2>1. req[r].step = "resolve" /\ UNCHANGED <<rows, processed, routed, charged>>
    BY <1>3 DEF CheckLegacyLimit, At
  <2>2. CASE Skip(r)
    BY <2>1, <2>2, SkipIsCalm DEF Typed, SameLogged, Kinds, Skip
  <2>3. CASE GoOn(r, "log")
    <3>1. Moves(r, "log")
      BY <1>0, <2>1, <2>3, Steady
    <3> QED
      BY <1>0, <2>1, <3>1, MoveIsCalm DEF Typed, SameLogged, Kinds, Moves
  <2> QED
    BY <1>3, <2>2, <2>3 DEF CheckLegacyLimit
<1>4. CASE LogMessage(r)
  <2>1. req[r].step = "log" /\ UNCHANGED <<processed, routed, charged>>
    BY <1>4 DEF LogMessage, At
  <2>2. CASE rows[Item(r)] # "none"
    <3>1. Skip(r) /\ UNCHANGED rows
      BY <1>4, <2>2 DEF LogMessage
    <3> QED
      BY <2>1, <3>1, SkipIsCalm DEF Typed, SameLogged, Kinds, Skip
  <2>3. CASE rows[Item(r)] = "none"
    <3>1. GoOn(r, "process") /\ rows' = [rows EXCEPT ![Item(r)] = "new"]
      BY <1>4, <2>3 DEF LogMessage
    <3>2. Moves(r, "process")
      BY <1>0, <2>1, <3>1, Steady
    <3>3. NobodyNew(Marking)
      BY <1>0, <3>2, SteadyBringsNobody
    <3> QED
      BY <2>1, <2>3, <3>1, <3>2, <3>3 DEF Typed, Logs, Kinds, Moves
  <2> QED
    BY <2>2, <2>3
\* The steps of the pipeline: only the status of what is already logged changes.
<1>5. ASSUME req[r].step \in Holding, UNCHANGED <<processed, routed, charged>>,
             UNCHANGED rows \/ \E s \in {"text", "ended"} : Record(r, s),
             \/ NextItem(r, r) \/ NextItem(r, Nobody)
             \/ \E s \in {"voice", "image", "route"} : GoOn(r, s) \/ Wait(r, s)
      PROVE  Typed' /\ Kinds
  <2>1. req[r].step # "idle"
    BY <1>5 DEF Holding
  <2>2. Item(r) \in Messages => rows[Item(r)] # "none"
    BY <1>5 DEF Once, Stands
  <2>3. SameLogged /\ rows' \in [Messages -> {"none", "new", "text", "ended"}]
    BY <1>5, <2>2, RecordTyped DEF Typed, SameLogged
  <2>4. CASE NextItem(r, r) \/ NextItem(r, Nobody)
    BY <1>5, <2>1, <2>3, <2>4, SkipIsCalm DEF Typed, Kinds
  <2>5. ASSUME NEW s \in {"voice", "image", "route"}, GoOn(r, s) \/ Wait(r, s)
        PROVE  Typed' /\ Kinds
    <3>1. Moves(r, s)
      BY <1>0, <2>1, <2>5, Steady
    <3> QED
      BY <1>0, <1>5, <2>3, <3>1, MoveIsCalm DEF Typed, Kinds, Moves
  <2> QED
    BY <1>5, <2>4, <2>5
<1>6. CASE ProcessRow(r) \/ VoiceProcessed(r) \/ ImageProcessed(r)
  <2>1. req[r].step \in Holding /\ UNCHANGED <<processed, routed, charged>>
    BY <1>6 DEF ProcessRow, VoiceProcessed, ImageProcessed, At, Holding
  <2>2. UNCHANGED rows \/ \E s \in {"text", "ended"} : Record(r, s)
    BY <1>6 DEF ProcessRow, VoiceProcessed, ImageProcessed
  <2>3. \/ NextItem(r, r) \/ NextItem(r, Nobody)
        \/ \E s \in {"voice", "image", "route"} : GoOn(r, s) \/ Wait(r, s)
    BY <1>6 DEF ProcessRow, VoiceProcessed, ImageProcessed, Skip, Finish
  <2> QED
    BY <1>5, <2>1, <2>2, <2>3
<1>7. CASE RouteMessage(r)
  <2>1. /\ req[r].step = "route" /\ Wait(r, "routing")
        /\ routed' = [routed EXCEPT ![Item(r)] = @ + 1]
        /\ UNCHANGED <<rows, processed, charged>>
    BY <1>7 DEF RouteMessage, At
  <2>2. Moves(r, "routing")
    BY <1>0, <2>1, Steady
  <2>3. NobodyNew(Holding) /\ NobodyNew(Marking)
    BY <1>0, <2>2, SteadyBringsNobody
  <2>4. routed' \in [Items -> Nat]
    BY <2>1, CountedUp DEF Typed
  <2> QED
    BY <2>1, <2>2, <2>3, <2>4 DEF Typed, Hands, Kinds, Moves
\* What comes after the router was given the message.
<1>8. ASSUME req[r].step # "idle", UNCHANGED <<rows, processed, routed, charged>>,
             \/ NextItem(r, Nobody)
             \/ \E s \in {"alert", "onboarding"} : GoOn(r, s)
      PROVE  Typed' /\ Kinds
  <2>1. CASE NextItem(r, Nobody)
    BY <1>8, <2>1, SkipIsCalm DEF Typed, SameLogged, Kinds
  <2>2. ASSUME NEW s \in {"alert", "onboarding"}, GoOn(r, s)
        PROVE  Typed' /\ Kinds
    <3>1. Moves(r, s)
      BY <1>0, <1>8, <2>2, Steady
    <3> QED
      BY <1>0, <1>8, <3>1, MoveIsCalm DEF Typed, SameLogged, Kinds, Moves
  <2> QED
    BY <1>8, <2>1, <2>2
<1>9. CASE \/ RouterAnswers(r) \/ RouterOnboards(r) \/ TenantOnboarded(r)
           \/ CallSucceeds(r) \/ CallFails(r) \/ AlertOperator(r)
  <2>1. req[r].step # "idle" /\ UNCHANGED <<rows, processed, routed, charged>>
    BY <1>9 DEF RouterAnswers, RouterOnboards, TenantOnboarded, CallSucceeds, CallFails,
                AlertOperator, At, Keep
  <2>2. NextItem(r, Nobody) \/ \E s \in {"alert", "onboarding"} : GoOn(r, s)
    BY <1>9 DEF RouterAnswers, RouterOnboards, TenantOnboarded, CallSucceeds, CallFails,
                AlertOperator, Finish
  <2> QED
    BY <1>8, <2>1, <2>2
<1>10. CASE RouterCalls(r) \/ CallRetried(r)
  <2>1. /\ req[r].step \in {"routing", "calling"}
        /\ UNCHANGED <<rows, processed, routed, charged>>
    BY <1>10 DEF RouterCalls, CallRetried, At, Keep
  <2>2. req[r] \in Serving
    BY <2>1 DEF Typed, NoRequest
  <2>3. \E q \in Serving : /\ req' = [req EXCEPT ![r] = q]
                           /\ q.step = "calling" /\ q.batch = req[r].batch /\ q.at = req[r].at
    <3>1. CASE RouterCalls(r)
      <4> DEFINE q == [req[r] EXCEPT !.step = "calling", !.guarded = HasRecord(From(r))]
      <4>1. HasRecord(From(r)) \in BOOLEAN
        BY DEF HasRecord
      <4>2. q \in Serving /\ q.step = "calling" /\ q.batch = req[r].batch /\ q.at = req[r].at
        BY <1>0, <2>2, <4>1 DEF Serving
      <4>3. req' = [req EXCEPT ![r] = q]
        BY <3>1 DEF RouterCalls
      <4> QED
        BY <4>2, <4>3
    <3>2. CASE CallRetried(r)
      <4> DEFINE q == [req[r] EXCEPT !.tries = @ + 1]
      <4>1. q \in Serving /\ q.step = "calling" /\ q.batch = req[r].batch /\ q.at = req[r].at
        BY <2>2, <3>2 DEF Serving, CallRetried, At
      <4>2. req' = [req EXCEPT ![r] = q]
        BY <3>2 DEF CallRetried
      <4> QED
        BY <4>1, <4>2
    <3> QED
      BY <1>10, <3>1, <3>2
  <2>5. Moves(r, "calling")
    BY <2>3 DEF Moves, Typed
  <2> QED
    BY <1>0, <2>1, <2>5, MoveIsCalm DEF Typed, SameLogged, Kinds, Moves
<1> QED
  BY <1>1, <1>2, <1>3, <1>4, <1>6, <1>7, <1>9, <1>10 DEF Step

\* A new request brings nobody to S: it begins before the log, or with an update.
LEMMA ArrivalIsCalm ==
    ASSUME Typed, NEW r \in Requests, NEW b \in Seq(Items), NEW s \in {"resolve", "route"},
           req' = [req EXCEPT ![r] = Serve(b, 1, s)],
           s = "route" => b[1] \notin Messages,
           UNCHANGED <<processed, rows, routed, charged>>
    PROVE  Typed' /\ Calm
<1> DEFINE q == Serve(b, 1, s)
<1>1. q \in Serving /\ q.step = s /\ q.batch[q.at] = b[1]
  BY DEF Serve, Serving, Steps
<1>2. req' = [req EXCEPT ![r] = q]
  OBVIOUS
<1> HIDE DEF q
<1>3. req' \in [Requests -> Serving \cup {NoRequest}]
  BY <1>1, <1>2 DEF Typed
<1>4. /\ \A p \in Requests \ {r} : req'[p] = req[p]
      /\ req'[r] = q
  BY <1>2 DEF Typed
<1>5. NobodyNew(Holding) /\ NobodyNew(Marking)
  <2>1. ASSUME NEW S, s \in S => s = "route", NEW p \in Requests, NEW m \in Messages, Stands(p, m, S)'
        PROVE  Stands(p, m, S)
    BY <1>1, <1>4, <2>1 DEF Stands, Item
  <2>2. "resolve" \notin Holding /\ "resolve" \notin Marking
    BY DEF Holding, Marking
  <2> QED
    BY <2>1, <2>2 DEF NobodyNew
<1> QED
  BY <1>3, <1>5 DEF Typed, Calm, SameLogged

\* Ending requests brings nobody anywhere.
LEMMA EndingIsCalm ==
    ASSUME Typed, req' \in [Requests -> Serving \cup {NoRequest}],
           \A p \in Requests : req'[p] = req[p] \/ req'[p] = NoRequest,
           UNCHANGED <<processed, rows, routed, charged>>
    PROVE  Typed' /\ Calm
<1>1. NoRequest.step \notin Holding /\ NoRequest.step \notin Marking
  BY DEF NoRequest, Holding, Marking
<1>2. ASSUME NEW S, NoRequest.step \notin S PROVE NobodyNew(S)
  BY <1>2 DEF NobodyNew, Stands, Item
<1> QED
  BY <1>1, <1>2 DEF Typed, Calm, SameLogged

LEMMA NextKinds ==
    ASSUME Typed, Once, [Next]_vars
    PROVE  Typed' /\ Kinds
<1>1. ASSUME NEW r \in Requests, Step(r) PROVE Typed' /\ Kinds
  BY <1>1, StepKinds
<1>2. ASSUME NEW r \in Requests, NEW b \in Batches, Deliver(r, b) PROVE Typed' /\ Kinds
  <2>1. b \in Seq(Items)
    BY FrontDoorAssumption DEF Items
  <2> QED
    BY <1>2, <2>1, ArrivalIsCalm DEF Deliver, Kinds
<1>3. ASSUME NEW r \in Requests, NEW u \in Updates, TelegramUpdate(r, u) PROVE Typed' /\ Kinds
  <2>1. <<u>> \in Seq(Items) /\ <<u>>[1] \notin Messages
    BY FrontDoorAssumption DEF Items
  <2> QED
    BY <1>3, <2>1, ArrivalIsCalm DEF TelegramUpdate, Kinds
<1>4. ASSUME NEW r \in Requests, DatabaseError(r) PROVE Typed' /\ Kinds
  BY <1>4, EndingIsCalm DEF DatabaseError, Typed, Kinds
<1>5. CASE Crash
  BY <1>5, EndingIsCalm DEF Crash, Typed, Kinds
<1>6. CASE PassTime \/ UNCHANGED vars
  <2>1. UNCHANGED <<req, processed, rows, routed, charged>>
    BY <1>6 DEF PassTime, Tick, vars, doorVars
  <2> QED
    BY <2>1 DEF Typed, Kinds, Calm, SameLogged, NobodyNew, Stands, Item
<1> QED
  BY <1>1, <1>2, <1>3, <1>4, <1>5, <1>6 DEF Next

-----------------------------------------------------------------------------
\* Once is inductive.
LEMMA OnceKept ==
    ASSUME Typed, Once, Kinds
    PROVE  Once'
<1>1. CASE Calm
  BY <1>1 DEF Calm, SameLogged, Once, NobodyNew
<1>2. ASSUME NEW r \in Requests, Claims(r) \/ Charges(r) PROVE Once'
  <2>1. NobodyNew(Holding) /\ UNCHANGED <<rows, routed>>
    BY <1>2 DEF Claims, Charges
  <2> QED
    BY <2>1 DEF Once, NobodyNew
<1>3. ASSUME NEW r \in Requests, Logs(r) PROVE Once'
  <2> SUFFICES ASSUME NEW m \in Messages
               PROVE  /\ (routed[m] <= 1)'
                      /\ (rows[m] = "none" => routed[m] = 0)'
                      /\ \A p \in Requests : (Stands(p, m, Holding) => rows[m] # "none" /\ routed[m] = 0)'
                      /\ \A p, q \in Requests : (Stands(p, m, Holding) /\ Stands(q, m, Holding) => p = q)'
    BY DEF Once
  <2>1. /\ \A p \in Requests : p # r => (Stands(p, m, Holding)' => Stands(p, m, Holding))
        /\ Item(r)' = Item(r)
        /\ UNCHANGED routed
    BY <1>3 DEF Logs, Moves, Stands, Item, Steps
  <2>2. CASE m = Item(r)
    <3>1. rows[m] = "none" /\ routed[m] = 0 /\ rows'[m] = "new"
      BY <1>3, <2>2 DEF Logs, Once, Typed
    <3>2. \A p \in Requests : p # r => ~Stands(p, m, Holding)'
      BY <2>1, <3>1 DEF Once
    <3> QED
      BY <2>1, <3>1, <3>2
  <2>3. CASE m # Item(r)
    <3>1. rows'[m] = rows[m] /\ ~Stands(r, m, Holding)'
      BY <1>3, <2>1, <2>3 DEF Logs, Stands, Typed
    <3> QED
      BY <2>1, <3>1 DEF Once
  <2> QED
    BY <2>2, <2>3
<1>4. ASSUME NEW r \in Requests, Hands(r) PROVE Once'
  <2> SUFFICES ASSUME NEW m \in Messages
               PROVE  /\ (routed[m] <= 1)'
                      /\ (rows[m] = "none" => routed[m] = 0)'
                      /\ \A p \in Requests : (Stands(p, m, Holding) => rows[m] # "none" /\ routed[m] = 0)'
                      /\ \A p, q \in Requests : (Stands(p, m, Holding) /\ Stands(q, m, Holding) => p = q)'
    BY DEF Once
  <2>1. /\ \A p \in Requests : Stands(p, m, Holding)' => Stands(p, m, Holding) /\ p # r
        /\ UNCHANGED rows
    BY <1>4 DEF Hands, NobodyNew, Moves, Stands, Holding
  <2>2. m \in Items
    BY DEF Items
  <2>3. CASE m = Item(r)
    <3>1. Stands(r, m, Holding)
      BY <1>4, <2>3 DEF Hands, Stands, Holding
    <3>2. rows[m] # "none" /\ routed'[m] = 1
      BY <1>4, <2>2, <2>3, <3>1 DEF Hands, Once, Typed
    <3>3. \A p \in Requests : ~Stands(p, m, Holding)'
      BY <2>1, <3>1 DEF Once
    <3> QED
      BY <2>1, <3>2, <3>3
  <2>4. CASE m # Item(r)
    <3>1. routed'[m] = routed[m]
      BY <1>4, <2>2, <2>4 DEF Hands, Typed
    <3> QED
      BY <2>1, <3>1 DEF Once
  <2> QED
    BY <2>3, <2>4
<1> QED
  BY <1>1, <1>2, <1>3, <1>4 DEF Kinds

LEMMA Begin ==
    ASSUME Init
    PROVE  Typed /\ \A S : "idle" \notin S => \A r \in Requests, m \in Messages : ~Stands(r, m, S)
<1>1. Typed
  BY DEF Init, Typed
<1> QED
  BY <1>1 DEF Init, Stands, NoRequest

LEMMA OnceInductive == Spec => [](Typed /\ Once)
<1>1. Init => Typed /\ Once
  <2>1. "idle" \notin Holding
    BY DEF Holding
  <2> QED
    BY <2>1, Begin DEF Init, Once, Items
<1>2. Typed /\ Once /\ [Next]_vars => Typed' /\ Once'
  BY NextKinds, OnceKept
<1> QED
  BY <1>1, <1>2, PTL DEF Spec

\* Whatever is redelivered, served twice at a time or cut short: the conversation
\* sees a WhatsApp message at most once (main.webhook, _log_message, _route_message).
THEOREM MessageSeenAtMostOnce == Spec => []AtMostOnce
<1>1. Once => AtMostOnce
  BY DEF Once, AtMostOnce
<1> QED
  BY <1>1, OnceInductive, PTL

-----------------------------------------------------------------------------
\* Between its mark and the limit a message is with one request, and not charged.
Charged ==
    \A m \in Messages :
        /\ charged[m] <= 1
        /\ m \notin processed => charged[m] = 0
        /\ \A r \in Requests : Stands(r, m, Marking) => m \in processed /\ charged[m] = 0
        /\ \A r, p \in Requests : Stands(r, m, Marking) /\ Stands(p, m, Marking) => r = p

LEMMA ChargedKept ==
    ASSUME Typed, Charged, Kinds
    PROVE  Charged'
<1>1. ASSUME NobodyNew(Marking), UNCHANGED <<processed, charged>> PROVE Charged'
  BY <1>1 DEF Charged, NobodyNew
<1>2. CASE Calm
  BY <1>1, <1>2 DEF Calm
<1>3. ASSUME NEW r \in Requests, Logs(r) \/ Hands(r) PROVE Charged'
  BY <1>1, <1>3 DEF Logs, Hands
<1>4. ASSUME NEW r \in Requests, Claims(r) PROVE Charged'
  <2> SUFFICES ASSUME NEW m \in Messages
               PROVE  /\ (charged[m] <= 1)'
                      /\ (m \notin processed => charged[m] = 0)'
                      /\ \A p \in Requests : (Stands(p, m, Marking) => m \in processed /\ charged[m] = 0)'
                      /\ \A p, q \in Requests : (Stands(p, m, Marking) /\ Stands(q, m, Marking) => p = q)'
    BY DEF Charged
  <2>1. /\ \A p \in Requests : p # r => (Stands(p, m, Marking)' => Stands(p, m, Marking))
        /\ Item(r)' = Item(r)
        /\ UNCHANGED charged
        /\ Item(r) \notin processed /\ processed' = processed \cup {Item(r)}
    BY <1>4 DEF Claims, Moves, Stands, Item, Steps
  <2>2. CASE m = Item(r)
    <3>1. \A p \in Requests : p # r => ~Stands(p, m, Marking)'
      BY <2>1, <2>2 DEF Charged
    <3> QED
      BY <2>1, <2>2, <3>1 DEF Charged
  <2>3. CASE m # Item(r)
    <3>1. ~Stands(r, m, Marking)'
      BY <2>1, <2>3 DEF Stands
    <3> QED
      BY <2>1, <2>3, <3>1 DEF Charged
  <2> QED
    BY <2>2, <2>3
<1>5. ASSUME NEW r \in Requests, Charges(r) PROVE Charged'
  <2> SUFFICES ASSUME NEW m \in Messages
               PROVE  /\ (charged[m] <= 1)'
                      /\ (m \notin processed => charged[m] = 0)'
                      /\ \A p \in Requests : (Stands(p, m, Marking) => m \in processed /\ charged[m] = 0)'
                      /\ \A p, q \in Requests : (Stands(p, m, Marking) /\ Stands(q, m, Marking) => p = q)'
    BY DEF Charged
  <2>1. /\ \A p \in Requests : Stands(p, m, Marking)' => Stands(p, m, Marking) /\ p # r
        /\ UNCHANGED processed
    BY <1>5 DEF Charges, NobodyNew, Moves, Stands, Marking
  <2>2. CASE m = Item(r)
    <3>1. Stands(r, m, Marking)
      BY <1>5, <2>2 DEF Charges, Stands, Marking
    <3>2. m \in processed /\ charged'[m] = 1
      BY <1>5, <2>2, <3>1 DEF Charges, Charged, Typed
    <3>3. \A p \in Requests : ~Stands(p, m, Marking)'
      BY <2>1, <3>1 DEF Charged
    <3> QED
      BY <2>1, <3>2, <3>3
  <2>3. CASE m # Item(r)
    <3>1. charged'[m] = charged[m]
      BY <1>5, <2>3 DEF Charges, Typed
    <3> QED
      BY <2>1, <3>1 DEF Charged
  <2> QED
    BY <2>2, <2>3
<1> QED
  BY <1>2, <1>3, <1>4, <1>5 DEF Kinds

\* A redelivery never counts against the tenant's limit again
\* (check_idempotency before check_rate_limit).
THEOREM MessageChargedAtMostOnce == Spec => []ChargedOnce
<1>1. Init => Charged
  <2>1. "idle" \notin Marking
    BY DEF Marking
  <2> QED
    BY <2>1, Begin DEF Init, Charged
<1>2. Typed /\ Once /\ Charged /\ [Next]_vars => Charged'
  BY NextKinds, ChargedKept
<1>3. Charged => ChargedOnce
  BY DEF Charged, ChargedOnce
<1> QED
  BY <1>1, <1>2, <1>3, OnceInductive, PTL DEF Spec

-----------------------------------------------------------------------------
\* FrontDoor implements MessageFate: every step moves one message one stage on,
\* hands one to the conversation, or changes nobody's fate.
LEMMA FateStep ==
    ASSUME Typed, Typed', Once, Kinds
    PROVE  [Fate!Next]_(Fate!fate)
<1> DEFINE stage == [m \in Messages |-> Stage(m)]
           handled == [m \in Messages |-> routed[m]]
<1>1. ASSUME SameLogged, UNCHANGED <<processed, routed>> PROVE UNCHANGED <<stage, handled>>
  <2>1. \A m \in Messages : Stage(m)' = Stage(m)
    BY <1>1 DEF Stage, SameLogged
  <2> QED
    BY <1>1, <2>1
<1>2. CASE Calm \/ \E r \in Requests : Charges(r)
  BY <1>1, <1>2 DEF Calm, Charges, SameLogged, Fate!fate
<1>3. ASSUME NEW r \in Requests, Claims(r) PROVE [Fate!Next]_(Fate!fate)
  <2>0. PICK i : i = Item(r)
    OBVIOUS
  <2>1. UNCHANGED handled
    BY <1>3 DEF Claims
  <2>2. \A m \in Messages \ {i} : Stage(m)' = Stage(m)
    BY <1>3, <2>0 DEF Claims, Stage
  <2>3. CASE i \in Messages /\ rows[i] = "none"
    <3>1. Stage(i) = "unseen" /\ Stage(i)' = "claimed"
      BY <1>3, <2>0, <2>3 DEF Claims, Stage
    <3>2. stage' = [stage EXCEPT ![i] = "claimed"]
      BY <2>2, <3>1
    <3> QED
      BY <2>1, <2>3, <3>1, <3>2 DEF Fate!Next, Fate!Claim, Fate!Advance
  <2>4. CASE i \notin Messages \/ rows[i] # "none"
    <3>1. \A m \in Messages : Stage(m)' = Stage(m)
      BY <1>3, <2>0, <2>2, <2>4 DEF Claims, Stage
    <3> QED
      BY <2>1, <3>1 DEF Fate!fate
  <2> QED
    BY <2>3, <2>4
<1>4. ASSUME NEW r \in Requests, Logs(r) PROVE [Fate!Next]_(Fate!fate)
  <2>0. PICK i : i = Item(r)
    OBVIOUS
  <2>1. UNCHANGED handled
    BY <1>4 DEF Logs
  <2>2. \A m \in Messages \ {i} : Stage(m)' = Stage(m)
    BY <1>4, <2>0 DEF Logs, Stage, Typed
  <2>3. CASE i \in Messages
    <3>1. Stage(i) \in {"unseen", "claimed"} /\ Stage(i)' = "logged"
      BY <1>4, <2>0, <2>3 DEF Logs, Stage, Typed
    <3>2. stage' = [stage EXCEPT ![i] = "logged"]
      BY <2>2, <3>1
    <3> QED
      BY <2>1, <2>3, <3>1, <3>2 DEF Fate!Next, Fate!Log, Fate!Advance
  <2>4. CASE i \notin Messages
    BY <2>1, <2>2, <2>4 DEF Fate!fate
  <2> QED
    BY <2>3, <2>4
<1>5. ASSUME NEW r \in Requests, Hands(r) PROVE [Fate!Next]_(Fate!fate)
  <2>0. PICK i : i = Item(r)
    OBVIOUS
  <2>1. UNCHANGED stage
    BY <1>5 DEF Hands, Stage
  <2>2. CASE i \in Messages
    <3>1. Stands(r, i, Holding)
      BY <1>5, <2>0 DEF Hands, Stands, Holding
    <3>2. Stage(i) = "logged" /\ routed[i] = 0
      BY <2>2, <3>1 DEF Once, Stage
    <3>3. handled' = [handled EXCEPT ![i] = 1]
      <4>1. routed' = [routed EXCEPT ![i] = 1]
        BY <1>5, <2>0, <3>2 DEF Hands
      <4>2. \A m \in Messages : routed'[m] = IF m = i THEN 1 ELSE routed[m]
        BY <2>2, <4>1 DEF Typed, Items
      <4> QED
        BY <4>2
    <3> QED
      BY <2>1, <2>2, <3>2, <3>3 DEF Fate!Next, Fate!Handle
  <2>3. CASE i \notin Messages
    <3>1. \A m \in Messages : routed'[m] = routed[m]
      BY <1>5, <2>0, <2>3 DEF Hands, Typed, Items
    <3> QED
      BY <2>1, <3>1 DEF Fate!fate
  <2> QED
    BY <2>2, <2>3
<1> QED
  BY <1>2, <1>3, <1>4, <1>5 DEF Kinds

\* The webhook keeps the promise of MessageFate (main.webhook, store.insert_message,
\* tenant_store.mark_message_processed).
THEOREM FrontDoorImplementsFate == Spec => FateSpec
<1>1. Init => Fate!Init
  BY DEF Init, Fate!Init, Stage, Items
<1>2. Typed /\ Once /\ [Next]_vars => [Fate!Next]_(Fate!fate)
  BY NextKinds, FateStep
<1> QED
  BY <1>1, <1>2, OnceInductive, PTL DEF Spec, FateSpec, Fate!Spec

-----------------------------------------------------------------------------
\* The steps of the breaker, and who takes them.
BreakerMoves(t) ==
    Recover(t) \/ Trip(t) \/ CreateTenant(t) \/ SetTenantOnboarded(t) \/ Alert(t)

LEMMA BreakerDriven ==
    ASSUME [Next]_vars
    PROVE  UNCHANGED breaker \/ \E t : BreakerMoves(t)
<1>1. ASSUME NEW r \in Requests, Step(r) PROVE UNCHANGED breaker \/ \E t : BreakerMoves(t)
  <2>1. CASE \/ CheckIdempotency(r) \/ CheckRateLimit(r) \/ CheckLegacyLimit(r) \/ LogMessage(r)
             \/ ProcessRow(r) \/ VoiceProcessed(r) \/ ImageProcessed(r) \/ RouteMessage(r)
             \/ RouterAnswers(r) \/ RouterCalls(r) \/ CallRetried(r)
    BY <2>1 DEF CheckIdempotency, CheckRateLimit, CheckLegacyLimit, LogMessage, ProcessRow,
                VoiceProcessed, ImageProcessed, RouteMessage, RouterAnswers, RouterCalls,
                CallRetried, Keep
  <2>2. CASE RouterOnboards(r) \/ TenantOnboarded(r)
    BY <2>2 DEF RouterOnboards, TenantOnboarded, BreakerMoves
  <2>3. CASE CallSucceeds(r)
    BY <2>3 DEF CallSucceeds, BreakerMoves
  <2>4. CASE CallFails(r)
    BY <2>4 DEF CallFails, BreakerMoves
  <2>5. CASE AlertOperator(r)
    BY <2>5 DEF AlertOperator, BreakerMoves
  <2> QED
    BY <1>1, <2>1, <2>2, <2>3, <2>4, <2>5 DEF Step
<1>2. ASSUME ~\E r \in Requests : Step(r) PROVE UNCHANGED breaker
  BY <1>2 DEF Next, Deliver, TelegramUpdate, DatabaseError, Crash, PassTime, vars
<1> QED
  BY <1>1, <1>2

LEMMA BreakerTyped ==
    ASSUME BreakerTypeOK, [Next]_vars
    PROVE  BreakerTypeOK'
<1>1. ASSUME NEW t, BreakerMoves(t) PROVE BreakerTypeOK'
  <2>1. owed' \in [Tenants -> Int]
    <3>1. CASE Trip(t) \/ Alert(t)
      BY <3>1 DEF Trip, Alert, BreakerTypeOK
    <3>2. CASE UNCHANGED owed
      BY <3>2 DEF BreakerTypeOK
    <3> QED
      BY <1>1, <3>1, <3>2 DEF BreakerMoves, Recover, CreateTenant, SetTenantOnboarded
  <2>2. status' \in [Tenants -> {"none", "onboarding", "active", "degraded"}]
    BY <1>1 DEF BreakerMoves, Recover, Trip, CreateTenant, SetTenantOnboarded, Alert, BreakerTypeOK
  <2>3. lastCall' \in [Tenants -> {"none", "ok", "failed"}]
    BY <1>1 DEF BreakerMoves, Recover, Trip, CreateTenant, SetTenantOnboarded, Alert, BreakerTypeOK
  <2> QED
    BY <2>1, <2>2, <2>3 DEF BreakerTypeOK
<1>2. ASSUME UNCHANGED breaker PROVE BreakerTypeOK'
  BY <1>2 DEF breaker, BreakerTypeOK
<1> QED
  BY <1>1, <1>2, BreakerDriven

LEMMA BreakerInductive == Spec => []BreakerTypeOK
<1>1. Init => BreakerTypeOK
  BY DEF Init, BreakerInit, BreakerTypeOK
<1> QED
  BY <1>1, BreakerTyped, PTL DEF Spec

\* A tenant is degraded exactly when the last of its calls to end had failed,
\* however the calls of concurrent messages overlap (CircuitBreaker.call).
THEOREM StatusTellsTheLastCall == Spec => []DegradedMeansLastFailed
<1>1. Init => BreakerTypeOK /\ DegradedMeansLastFailed
  BY DEF Init, BreakerInit, BreakerTypeOK, DegradedMeansLastFailed
<1>2. ASSUME BreakerTypeOK, DegradedMeansLastFailed, [Next]_vars PROVE DegradedMeansLastFailed'
  <2>1. ASSUME NEW t, BreakerMoves(t) PROVE DegradedMeansLastFailed'
    BY <1>2, <2>1 DEF BreakerMoves, Recover, Trip, CreateTenant, SetTenantOnboarded, Alert,
                      HasRecord, BreakerTypeOK, DegradedMeansLastFailed
  <2>2. ASSUME UNCHANGED breaker PROVE DegradedMeansLastFailed'
    BY <1>2, <2>2 DEF breaker, DegradedMeansLastFailed
  <2> QED
    BY <1>2, <2>1, <2>2, BreakerDriven
<1> QED
  BY <1>1, <1>2, BreakerInductive, PTL DEF Spec

-----------------------------------------------------------------------------
\* What Meta's 200 means.  The steps of the webhook's loop, of which the last
\* eight work on a message that is this request's own, and those after the router.
Webhook == {"resolve", "limit", "log", "process", "voice", "image"}
Ahead == {"limit", "log"} \cup Holding
Beyond == {"routing", "calling", "alert", "onboarding"}

\* A request is within its delivery, and an update is not with the webhook's loop.
InDelivery(r) ==
    req[r].step # "idle" =>
        /\ req[r].at \in 1..Len(req[r].batch)
        /\ req[r].tries \in 0..MaxAttempts
        /\ \/ req[r].batch \in Batches
           \/ Len(req[r].batch) = 1 /\ req[r].step \notin Webhook
Placed == \A r \in Requests : InDelivery(r)

Held(m, S) == \E r \in Requests : Stands(r, m, S)

\* A message is accounted for: settled, on its way to it, or known as lost.
Fine(m) == Settled(m) \/ Held(m, Ahead) \/ m \in dropped \cup cut
Logged(m) == rows[m] # "none" => Settled(m) \/ Held(m, Holding) \/ m \in cut

\* What a request has passed is accounted for.
Behind(r) ==
    req[r].step # "idle" =>
        /\ req[r].step \in Beyond /\ Item(r) \in Messages => routed[Item(r)] > 0
        /\ \A j \in 1..(req[r].at - 1) : Fine(req[r].batch[j])
Accounted ==
    /\ \A m \in Messages : Logged(m) /\ (m \in processed => Fine(m))
    /\ \A r \in Requests : Behind(r)
    /\ answered \subseteq Batches
    /\ \A b \in answered : \A i \in DOMAIN b : Fine(b[i])

\* A request goes on with its message, or leaves it.
Goes(r, s) ==
    /\ Moves(r, s) /\ req'[r].tries \in 0..MaxAttempts
    /\ UNCHANGED answered
    /\ s \in Webhook => req[r].step \in Webhook

\* What a step of request r does, being about i.
Progress(r, i) ==
    /\ \/ \E s \in Steps : Goes(r, s) /\ (s \in Beyond /\ i \in Messages => routed'[i] > 0)
       \/ \E x \in {r, Nobody} : NextItem(r, x)
    /\ loop' \in Requests \cup {Nobody}
    /\ \A m \in Messages : m # i => rows'[m] = rows[m] /\ routed'[m] = routed[m]
    /\ \A m \in Messages : routed'[m] >= routed[m]
    /\ processed' \in {processed, processed \cup ({i} \cap Messages)}
    /\ dropped' \in {dropped, dropped \cup ({i} \cap Messages)}
    /\ UNCHANGED <<cut, extras, faults>>
    /\ i \in Messages => Fine(i)' /\ Logged(i)'

LEMMA Going ==
    ASSUME Typed, Placed, NEW r \in Requests, NEW s \in Steps, req[r].step # "idle",
           GoOn(r, s) \/ Wait(r, s), UNCHANGED answered,
           s \in Webhook => req[r].step \in Webhook
    PROVE  Goes(r, s) /\ loop' \in Requests \cup {Nobody}
<1>1. Moves(r, s)
  BY Steady
<1>2. req[r] \in Serving /\ req' = [req EXCEPT ![r].step = s]
  BY DEF Typed, NoRequest, GoOn, Wait
<1>3. req'[r].tries = req[r].tries
  BY <1>2 DEF Typed, Serving
<1>4. loop' \in Requests \cup {Nobody}
  BY DEF GoOn, Wait
<1> QED
  BY <1>1, <1>3, <1>4 DEF Goes, Placed, InDelivery

\* Whose step it is holds nothing at S: what is held at S still is.
LEMMA HeldByOthers ==
    ASSUME NEW r \in Requests, NEW S, req[r].step \notin S,
           \A p \in Requests \ {r} : req'[p] = req[p], NEW m, Held(m, S)
    PROVE  Held(m, S)'
BY DEF Held, Stands, Item

\* A message in the hands of the request that goes on with it.
LEMMA HeldOn ==
    ASSUME NEW r \in Requests, NEW s \in Steps, Goes(r, s), NEW S, s \in S, NEW i, i = Item(r)
    PROVE  Held(i, S)'
BY DEF Goes, Moves, Held, Stands, Item

LEMMA MessageAt ==
    ASSUME Typed, Placed, NEW r \in Requests, req[r].step # "idle"
    PROVE  /\ Item(r) \in Items
           /\ req[r].step \in Webhook => Item(r) \in Messages
<1>1. req[r] \in Serving /\ InDelivery(r)
  BY DEF Typed, NoRequest, Placed
<1>2. req[r].at \in 1..Len(req[r].batch) /\ req[r].batch \in Seq(Items)
  BY <1>1 DEF InDelivery, Serving
<1>3. req[r].step \in Webhook => req[r].batch \in Seq(Messages)
  BY <1>1, FrontDoorAssumption DEF InDelivery
<1> QED
  BY <1>2, <1>3 DEF Item

\* A step from outside the holding steps that logs and hands over nothing.
LEMMA LoggedKept ==
    ASSUME NEW r \in Requests, req[r].step \notin Holding,
           \A p \in Requests \ {r} : req'[p] = req[p],
           UNCHANGED <<rows, routed, cut>>, NEW m, Logged(m)
    PROVE  Logged(m)'
BY HeldByOthers DEF Logged, Settled

LEMMA FineKept ==
    ASSUME NEW r \in Requests, req[r].step \notin Ahead,
           \A p \in Requests \ {r} : req'[p] = req[p],
           UNCHANGED <<rows, routed, cut>>, dropped \subseteq dropped', NEW m, Fine(m)
    PROVE  Fine(m)'
BY HeldByOthers DEF Fine, Settled

LEMMA NextItemOthers ==
    ASSUME Typed, NEW r \in Requests, NEW x \in {r, Nobody}, NextItem(r, x)
    PROVE  /\ \A p \in Requests \ {r} : req'[p] = req[p]
           /\ loop' \in Requests \cup {Nobody}
BY DEF NextItem

LEMMA StepProgress ==
    ASSUME Typed, Placed, Accounted, NEW r \in Requests, Step(r), NEW i, i = Item(r)
    PROVE  Progress(r, i)
<1>0. /\ Steps = {"resolve", "limit", "log", "process", "voice", "image", "route", "routing",
                  "calling", "alert", "onboarding"}
      /\ Holding = {"process", "voice", "image", "route"}
      /\ Ahead = {"limit", "log", "process", "voice", "image", "route"}
      /\ Webhook = {"resolve", "limit", "log", "process", "voice", "image"}
      /\ Beyond = {"routing", "calling", "alert", "onboarding"}
  BY DEF Steps, Holding, Ahead, Webhook, Beyond
<1> DEFINE Frame == /\ \A m \in Messages : m # i => rows'[m] = rows[m] /\ routed'[m] = routed[m]
                    /\ \A m \in Messages : routed'[m] >= routed[m]
                    /\ processed' \in {processed, processed \cup ({i} \cap Messages)}
                    /\ dropped' \in {dropped, dropped \cup ({i} \cap Messages)}
                    /\ UNCHANGED <<cut, extras, faults>>
<1>01. UNCHANGED <<rows, routed>> =>
           /\ \A m \in Messages : m # i => rows'[m] = rows[m] /\ routed'[m] = routed[m]
           /\ \A m \in Messages : routed'[m] >= routed[m]
  BY DEF Typed, Items
<1>02. ASSUME NEW s \in Steps, Goes(r, s), loop' \in Requests \cup {Nobody}, Frame,
              s \in Beyond /\ i \in Messages => routed'[i] > 0,
              i \in Messages => Fine(i)' /\ Logged(i)'
       PROVE  Progress(r, i)
  BY <1>02 DEF Progress
<1>03. ASSUME NEW x \in {r, Nobody}, NextItem(r, x), Frame,
              i \in Messages => Fine(i)' /\ Logged(i)'
       PROVE  Progress(r, i)
  BY <1>03, NextItemOthers DEF Progress
<1>04. \A s \in Steps : Goes(r, s) => \A p \in Requests \ {r} : req'[p] = req[p]
  BY DEF Goes, Moves
<1>05. req[r].step # "idle" /\ req[r].step \in Webhook => i \in Messages
  BY MessageAt
<1>06. i \in Messages => Logged(i) /\ (i \in processed => Fine(i))
  BY DEF Accounted
<1> HIDE DEF Frame
<1>1. CASE CheckIdempotency(r)
  <2>1. req[r].step = "resolve" /\ i \in Messages /\ UNCHANGED <<rows, routed, dropped, cut, extras, faults>>
    BY <1>0, <1>1, <1>05 DEF CheckIdempotency, At
  <2>2. processed' \in {processed, processed \cup {i}}
    BY <1>1 DEF CheckIdempotency
  <2>3. Frame
    BY <1>01, <2>1, <2>2 DEF Frame
  <2>4. CASE i \in processed
    <3>1. NextItem(r, r)
      BY <1>1, <2>4 DEF CheckIdempotency, Skip
    <3>2. \A p \in Requests \ {r} : req'[p] = req[p]
      BY <3>1, NextItemOthers
    <3>3. Logged(i)'
      BY <1>0, <1>06, <2>1, <3>2, LoggedKept
    <3>4. Fine(i)'
      BY <1>0, <1>06, <2>1, <2>4, <3>2, FineKept
    <3> QED
      BY <1>03, <2>3, <3>1, <3>3, <3>4
  <2>5. CASE i \notin processed
    <3>1. GoOn(r, "limit") /\ UNCHANGED answered
      BY <1>1, <2>5 DEF CheckIdempotency
    <3>2. Goes(r, "limit") /\ loop' \in Requests \cup {Nobody}
      BY <1>0, <2>1, <3>1, Going
    <3>3. Logged(i)'
      BY <1>0, <1>04, <1>06, <2>1, <3>2, LoggedKept
    <3>4. Held(i, Ahead)'
      BY <1>0, <3>2, HeldOn
    <3>5. Fine(i)'
      BY <3>4 DEF Fine
    <3> QED
      BY <1>0, <1>02, <2>3, <3>2, <3>3, <3>5
  <2> QED
    BY <2>4, <2>5
<1>2. CASE CheckRateLimit(r) \/ CheckLegacyLimit(r)
  <2>1. /\ req[r].step \in {"limit", "resolve"}
        /\ UNCHANGED <<rows, routed, processed, cut, extras, faults>>
    BY <1>2 DEF CheckRateLimit, CheckLegacyLimit, At
  <2>2. i \in Messages
    BY <1>0, <1>05, <2>1
  <2>3. CASE Skip(r) /\ dropped' = dropped \cup {i}
    <3>1. NextItem(r, r)
      BY <2>3 DEF Skip
    <3>2. Frame
      BY <1>01, <2>1, <2>2, <2>3 DEF Frame
    <3>3. \A p \in Requests \ {r} : req'[p] = req[p]
      BY <3>1, NextItemOthers
    <3>4. Logged(i)'
      BY <1>0, <1>06, <2>1, <2>2, <3>3, LoggedKept
    <3>5. Fine(i)'
      BY <2>3 DEF Fine
    <3> QED
      BY <1>03, <3>1, <3>2, <3>4, <3>5
  <2>4. CASE GoOn(r, "log") /\ UNCHANGED <<dropped, answered>>
    <3>1. Goes(r, "log") /\ loop' \in Requests \cup {Nobody}
      BY <1>0, <2>1, <2>4, Going
    <3>2. Frame
      BY <1>01, <2>1, <2>4 DEF Frame
    <3>3. Logged(i)'
      BY <1>0, <1>04, <1>06, <2>1, <2>2, <3>1, LoggedKept
    <3>4. Held(i, Ahead)'
      BY <1>0, <3>1, HeldOn
    <3>5. Fine(i)'
      BY <3>4 DEF Fine
    <3> QED
      BY <1>0, <1>02, <3>1, <3>2, <3>3, <3>5
  <2> QED
    BY <1>2, <2>3, <2>4 DEF CheckRateLimit, CheckLegacyLimit
<1>3. CASE LogMessage(r)
  <2>1. /\ req[r].step = "log" /\ i \in Messages
        /\ UNCHANGED <<routed, processed, dropped, cut, extras, faults>>
    BY <1>0, <1>3, <1>05 DEF LogMessage, At
  <2>2. CASE rows[i] # "none"
    <3>1. NextItem(r, r) /\ UNCHANGED rows
      BY <1>3, <2>2 DEF LogMessage, Skip
    <3>2. Frame
      BY <1>01, <2>1, <3>1 DEF Frame
    <3>3. \A p \in Requests \ {r} : req'[p] = req[p]
      BY <3>1, NextItemOthers
    <3>4. Logged(i)'
      BY <1>0, <1>06, <2>1, <3>1, <3>3, LoggedKept
    <3>5. Held(i, Holding)' => Held(i, Ahead)'
      BY <1>0 DEF Held, Stands
    <3>6. Fine(i)'
      BY <2>2, <3>1, <3>4, <3>5 DEF Logged, Fine
    <3> QED
      BY <1>03, <3>1, <3>2, <3>4, <3>6
  <2>3. CASE rows[i] = "none"
    <3>1. GoOn(r, "process") /\ UNCHANGED answered /\ rows' = [rows EXCEPT ![i] = "new"]
      BY <1>3, <2>3 DEF LogMessage
    <3>2. Goes(r, "process") /\ loop' \in Requests \cup {Nobody}
      BY <1>0, <2>1, <3>1, Going
    <3>3. Frame
      BY <2>1, <3>1 DEF Frame, Typed, Items
    <3>4. Held(i, Ahead)' /\ Held(i, Holding)'
      BY <1>0, <3>2, HeldOn
    <3>5. Fine(i)' /\ Logged(i)'
      BY <3>4 DEF Fine, Logged
    <3> QED
      BY <1>0, <1>02, <3>2, <3>3, <3>5
  <2> QED
    BY <2>2, <2>3
<1>4. CASE ProcessRow(r) \/ VoiceProcessed(r) \/ ImageProcessed(r)
  <2>1. /\ req[r].step \in {"process", "voice", "image"} /\ i \in Messages
        /\ UNCHANGED <<routed, processed, dropped, cut, extras, faults>>
    BY <1>0, <1>4, <1>05 DEF ProcessRow, VoiceProcessed, ImageProcessed, At
  <2>2. ASSUME NEW x \in {r, Nobody}, Record(r, "ended"), NextItem(r, x)
        PROVE  Progress(r, i)
    <3>1. rows' = [rows EXCEPT ![i] = "ended"]
      BY <2>2 DEF Record
    <3>2. rows'[i] = "ended"
      BY <2>1, <3>1 DEF Typed
    <3>3. Frame
      BY <2>1, <3>1 DEF Frame, Typed, Items
    <3>4. Fine(i)' /\ Logged(i)'
      BY <3>2 DEF Fine, Logged, Settled
    <3> QED
      BY <1>03, <2>2, <3>3, <3>4
  <2>3. ASSUME NEW s \in {"voice", "image", "route"}, GoOn(r, s) \/ Wait(r, s), UNCHANGED answered,
               UNCHANGED rows \/ Record(r, "text")
        PROVE  Progress(r, i)
    <3>1. Goes(r, s) /\ loop' \in Requests \cup {Nobody}
      BY <1>0, <2>1, <2>3, Going
    <3>2. Frame
      <4>1. UNCHANGED rows \/ rows' = [rows EXCEPT ![i] = "text"]
        BY <2>3 DEF Record
      <4> QED
        BY <2>1, <4>1 DEF Frame, Typed, Items
    <3>3. Held(i, Ahead)' /\ Held(i, Holding)'
      BY <1>0, <3>1, HeldOn
    <3>4. Fine(i)' /\ Logged(i)'
      BY <3>3 DEF Fine, Logged
    <3> QED
      BY <1>0, <1>02, <3>1, <3>2, <3>4
  <2>4. CASE ProcessRow(r)
    BY <2>2, <2>3, <2>4 DEF ProcessRow, Skip
  <2>5. CASE VoiceProcessed(r)
    BY <2>2, <2>3, <2>5 DEF VoiceProcessed, Finish
  <2>6. CASE ImageProcessed(r)
    BY <2>2, <2>6 DEF ImageProcessed, Skip
  <2> QED
    BY <1>4, <2>4, <2>5, <2>6
<1>5. CASE RouteMessage(r)
  <2>1. /\ req[r].step = "route" /\ Wait(r, "routing") /\ UNCHANGED answered
        /\ routed' = [routed EXCEPT ![i] = @ + 1]
        /\ UNCHANGED <<rows, processed, dropped, cut, extras, faults>>
    BY <1>5 DEF RouteMessage, At
  <2>2. Goes(r, "routing") /\ loop' \in Requests \cup {Nobody}
    BY <1>0, <2>1, Going
  <2>3. i \in Items
    BY <2>1, MessageAt
  <2>4. routed'[i] > 0 /\ \A m \in Messages : routed'[m] >= routed[m] /\ (m # i => routed'[m] = routed[m])
    BY <2>1, <2>3 DEF Typed, Items
  <2>5. Frame
    BY <2>1, <2>4 DEF Frame
  <2>6. Fine(i)' /\ Logged(i)'
    BY <2>4 DEF Fine, Logged, Settled
  <2> QED
    BY <1>0, <1>02, <2>2, <2>4, <2>5, <2>6
\* After the router was given the message: it was, and stays so.
<1>6. ASSUME req[r].step \in Beyond,
             UNCHANGED <<rows, routed, processed, dropped, cut, extras, faults>>,
             \/ NextItem(r, Nobody)
             \/ \E s \in Beyond : Goes(r, s) /\ loop' \in Requests \cup {Nobody}
      PROVE  Progress(r, i)
  <2>1. Frame
    BY <1>01, <1>6 DEF Frame
  <2>2. i \in Messages => routed'[i] > 0
    BY <1>0, <1>6 DEF Accounted, Behind
  <2>3. i \in Messages => Fine(i)' /\ Logged(i)'
    BY <2>2 DEF Fine, Logged, Settled
  <2> QED
    BY <1>0, <1>02, <1>03, <1>6, <2>1, <2>2, <2>3
<1>7. CASE \/ RouterAnswers(r) \/ RouterOnboards(r) \/ TenantOnboarded(r)
           \/ CallSucceeds(r) \/ CallFails(r) \/ AlertOperator(r)
  <2>1. req[r].step \in Beyond /\ UNCHANGED <<rows, routed, processed, dropped, cut, extras, faults>>
    BY <1>0, <1>7 DEF RouterAnswers, RouterOnboards, TenantOnboarded, CallSucceeds, CallFails,
                AlertOperator, At, Keep
  <2>2. \/ NextItem(r, Nobody)
        \/ \E s \in {"alert", "onboarding"} : GoOn(r, s) /\ UNCHANGED answered
    BY <1>7 DEF RouterAnswers, RouterOnboards, TenantOnboarded, CallSucceeds, CallFails,
                AlertOperator, Finish
  <2>3. ASSUME NEW s \in {"alert", "onboarding"}, GoOn(r, s), UNCHANGED answered
        PROVE  Goes(r, s) /\ loop' \in Requests \cup {Nobody} /\ s \in Beyond
    BY <1>0, <2>1, <2>3, Going
  <2> QED
    BY <1>6, <2>1, <2>2, <2>3
<1>8. CASE RouterCalls(r) \/ CallRetried(r)
  <2>1. /\ req[r].step \in Beyond /\ loop' = Nobody /\ UNCHANGED answered
        /\ UNCHANGED <<rows, routed, processed, dropped, cut, extras, faults>>
    BY <1>0, <1>8 DEF RouterCalls, CallRetried, At, Keep
  <2>2. req[r] \in Serving /\ InDelivery(r) /\ req[r].step # "idle"
    BY <1>0, <2>1 DEF Typed, NoRequest, Placed
  <2>3. \E q \in Serving : /\ req' = [req EXCEPT ![r] = q] /\ q.tries \in 0..MaxAttempts
                           /\ q.step = "calling" /\ q.batch = req[r].batch /\ q.at = req[r].at
    <3>1. CASE RouterCalls(r)
      <4> DEFINE q == [req[r] EXCEPT !.step = "calling", !.guarded = HasRecord(From(r))]
      <4>1. HasRecord(From(r)) \in BOOLEAN
        BY DEF HasRecord
      <4>2. /\ q \in Serving /\ q.step = "calling" /\ q.batch = req[r].batch /\ q.at = req[r].at
            /\ q.tries \in 0..MaxAttempts
        BY <1>0, <2>2, <4>1 DEF Serving, InDelivery
      <4>3. req' = [req EXCEPT ![r] = q]
        BY <3>1 DEF RouterCalls
      <4> QED
        BY <4>2, <4>3
    <3>2. CASE CallRetried(r)
      <4> DEFINE q == [req[r] EXCEPT !.tries = @ + 1]
      <4>1. q \in Serving /\ q.step = "calling" /\ q.batch = req[r].batch /\ q.at = req[r].at
        BY <2>2, <3>2 DEF Serving, CallRetried, At
      <4>2. q.tries \in 0..MaxAttempts
        BY <2>2, <3>2, BreakerAssumption DEF Serving, CallRetried
      <4>3. req' = [req EXCEPT ![r] = q]
        BY <3>2 DEF CallRetried
      <4> QED
        BY <4>1, <4>2, <4>3
    <3> QED
      BY <1>8, <3>1, <3>2
  <2>4. Goes(r, "calling")
    BY <1>0, <2>1, <2>3 DEF Goes, Moves, Typed
  <2> QED
    BY <1>0, <1>6, <2>1, <2>4
<1> QED
  BY <1>1, <1>2, <1>3, <1>4, <1>5, <1>7, <1>8 DEF Step

LEMMA NotAlone ==
    ASSUME NEW n \in Nat, NEW a \in 1..n
    PROVE  (a < n => n # 1) /\ \A j \in 1..(a - 1) : n # 1 /\ j \in 1..n
OBVIOUS

\* Where the request of a step is afterwards: at its message, at the next one of
\* the delivery, or done.
LEMMA LeavesTo ==
    ASSUME Typed, Placed, NEW r \in Requests, req[r].step # "idle", NEW x, NextItem(r, x)
    PROVE  /\ \A p \in Requests \ {r} : req'[p] = req[p]
           /\ \/ /\ req[r].at < Len(req[r].batch) /\ UNCHANGED answered
                 /\ req'[r] = Serve(req[r].batch, req[r].at + 1, "resolve")
              \/ /\ req[r].at = Len(req[r].batch) /\ req'[r] = NoRequest
                 /\ answered' = answered \cup ({req[r].batch} \cap Batches)
<1>1. req[r] \in Serving /\ InDelivery(r)
  BY DEF Typed, NoRequest, Placed
<1>2. req[r].at \in 1..Len(req[r].batch) /\ Len(req[r].batch) \in Nat
  BY <1>1 DEF InDelivery, Serving
<1> QED
  BY <1>2 DEF NextItem, Typed

LEMMA PlacedOn ==
    ASSUME Typed, Placed, NEW r \in Requests, req[r].step # "idle", Progress(r, Item(r))
    PROVE  Placed'
<1>1. InDelivery(r) /\ req[r] \in Serving
  BY DEF Placed, Typed, NoRequest
<1>2. ASSUME NEW s \in Steps, Goes(r, s) PROVE Placed'
  <2>1. /\ \A p \in Requests \ {r} : req'[p] = req[p]
        /\ req'[r].step = s /\ req'[r].batch = req[r].batch /\ req'[r].at = req[r].at
        /\ req'[r].tries \in 0..MaxAttempts
        /\ s \in Webhook => req[r].step \in Webhook
    BY <1>2 DEF Goes, Moves
  <2> QED
    BY <1>1, <2>1 DEF Placed, InDelivery
<1>3. ASSUME NEW x, NextItem(r, x) PROVE Placed'
  <2>1. CASE req'[r] = NoRequest
    <3>1. \A p \in Requests \ {r} : req'[p] = req[p]
      BY <1>3, LeavesTo
    <3> QED
      BY <2>1, <3>1 DEF Placed, InDelivery, NoRequest
  <2>2. CASE req'[r] # NoRequest
    <3>1. /\ \A p \in Requests \ {r} : req'[p] = req[p]
          /\ req[r].at < Len(req[r].batch)
          /\ req'[r] = Serve(req[r].batch, req[r].at + 1, "resolve")
      BY <1>3, <2>2, LeavesTo
    <3>2. /\ req'[r].batch = req[r].batch /\ req'[r].at = req[r].at + 1 /\ req'[r].tries = 0
      BY <3>1 DEF Serve
    <3>3. Len(req[r].batch) \in Nat /\ req[r].at \in 1..Len(req[r].batch)
      BY <1>1 DEF InDelivery, Serving
    <3>4. req[r].batch \in Batches
      <4>1. Len(req[r].batch) # 1
        BY <3>1, <3>3, NotAlone
      <4> QED
        BY <1>1, <4>1 DEF InDelivery
    <3>5. InDelivery(r)'
      BY <3>1, <3>2, <3>3, <3>4, BreakerAssumption DEF InDelivery
    <3> QED
      BY <3>1, <3>5 DEF Placed, InDelivery
  <2> QED
    BY <2>1, <2>2
<1> QED
  BY <1>2, <1>3 DEF Progress

\* The message a step is about is accounted for after it, the others as before.
LEMMA FineOn ==
    ASSUME Typed, Placed, NEW r \in Requests, req[r].step # "idle", Progress(r, Item(r))
    PROVE  /\ \A p \in Requests \ {r} : req'[p] = req[p]
           /\ \A m \in Messages : (Fine(m) => Fine(m)') /\ (Logged(m) => Logged(m)')
<1>1. \A p \in Requests \ {r} : req'[p] = req[p]
  BY LeavesTo DEF Progress, Goes, Moves
<1>2. ASSUME NEW m \in Messages, m # Item(r), NEW S, Held(m, S) PROVE Held(m, S)'
  BY <1>1, <1>2 DEF Held, Stands, Item
<1>3. ASSUME NEW m \in Messages PROVE (Fine(m) => Fine(m)') /\ (Logged(m) => Logged(m)')
  <2>1. CASE m = Item(r)
    <3>1. PICK i : i = Item(r) /\ Progress(r, i)
      OBVIOUS
    <3>2. Fine(i)' /\ Logged(i)'
      BY <2>1, <3>1 DEF Progress
    <3> QED
      BY <2>1, <3>1, <3>2
  <2>2. CASE m # Item(r)
    <3>1. rows'[m] = rows[m] /\ routed'[m] = routed[m] /\ dropped \subseteq dropped' /\ cut' = cut
      BY <2>2 DEF Progress
    <3> QED
      BY <1>2, <2>2, <3>1 DEF Fine, Logged, Settled
  <2> QED
    BY <2>1, <2>2
<1> QED
  BY <1>1, <1>3

\* Messages that a request has passed are messages of a delivery.
LEMMA PassedAreMessages ==
    ASSUME Typed, Placed, NEW r \in Requests, req[r].step # "idle",
           NEW j \in 1..(req[r].at - 1)
    PROVE  req[r].batch[j] \in Messages
<1>1. InDelivery(r) /\ req[r] \in Serving
  BY DEF Placed, Typed, NoRequest
<1>2. req[r].at \in 1..Len(req[r].batch) /\ Len(req[r].batch) \in Nat
  BY <1>1 DEF InDelivery, Serving
<1>3. Len(req[r].batch) # 1 /\ j \in 1..Len(req[r].batch)
  BY <1>2, NotAlone
<1>4. req[r].batch \in Seq(Messages)
  BY <1>1, <1>3, FrontDoorAssumption DEF InDelivery
<1> QED
  BY <1>3, <1>4

LEMMA AccountedOn ==
    ASSUME Typed, Typed', Placed, Accounted, NEW r \in Requests, req[r].step # "idle",
           Progress(r, Item(r))
    PROVE  Accounted'
<1>0. PICK i : i = Item(r)
  OBVIOUS
<1>1. /\ Progress(r, i) /\ InDelivery(r) /\ req[r] \in Serving /\ Behind(r)
      /\ \A p \in Requests \ {r} : req'[p] = req[p]
      /\ \A m \in Messages : (Fine(m) => Fine(m)') /\ (Logged(m) => Logged(m)')
  BY <1>0, FineOn DEF Placed, Typed, NoRequest, Accounted
<1>2. ASSUME NEW m \in Messages PROVE Logged(m)' /\ (m \in processed' => Fine(m)')
  <2>1. CASE m = i
    BY <1>1, <2>1 DEF Progress
  <2>2. CASE m # i
    <3>1. m \in processed' => m \in processed
      BY <1>1, <2>2 DEF Progress
    <3> QED
      BY <1>1, <3>1 DEF Accounted
  <2> QED
    BY <2>1, <2>2
<1>3. \A m \in Messages : routed[m] > 0 => routed'[m] > 0
  <2>1. \A m \in Messages : routed'[m] >= routed[m]
    BY <1>1 DEF Progress
  <2>2. \A m \in Messages : routed'[m] \in Nat /\ routed[m] \in Nat
    BY DEF Typed, Items
  <2> QED
    BY <2>1, <2>2
<1>4. ASSUME NEW p \in Requests, req[p].step # "idle", NEW j \in 1..(req[p].at - 1), NEW m, m = req[p].batch[j]
      PROVE  m \in Messages /\ Fine(m)'
  <2>1. m \in Messages
    BY <1>4, PassedAreMessages
  <2>2. Behind(p)
    BY DEF Accounted
  <2>3. Fine(m)
    BY <1>4, <2>2 DEF Behind
  <2> QED
    BY <1>1, <2>1, <2>3
<1>5. ASSUME NEW p \in Requests, p # r PROVE Behind(p)'
  <2>1. req'[p] = req[p] /\ Behind(p)
    BY <1>1, <1>5 DEF Accounted
  <2>2. Item(p)' = Item(p)
    BY <2>1 DEF Item
  <2>3. req'[p].step # "idle" /\ req'[p].step \in Beyond /\ Item(p)' \in Messages => routed'[Item(p)'] > 0
    BY <1>3, <2>1, <2>2 DEF Behind
  <2>4. ASSUME req'[p].step # "idle", NEW j \in 1..(req'[p].at - 1)
        PROVE  Fine(req[p].batch[j])'
    BY <1>4, <2>1, <2>4
  <2> QED
    BY <2>3, <2>4 DEF Behind
<1>6. ASSUME NEW s \in Steps, Goes(r, s), s \in Beyond /\ i \in Messages => routed'[i] > 0
      PROVE  Behind(r)' /\ UNCHANGED answered
  <2>1. /\ req'[r].step = s /\ req'[r].batch = req[r].batch /\ req'[r].at = req[r].at
        /\ UNCHANGED answered
    BY <1>6 DEF Goes, Moves
  <2>2. Item(r)' = i
    BY <1>0, <2>1 DEF Item
  <2>3. ASSUME NEW j \in 1..(req'[r].at - 1)
        PROVE  Fine(req[r].batch[j])'
    BY <1>4, <2>1
  <2> QED
    BY <1>6, <2>1, <2>2, <2>3 DEF Behind
<1>7. ASSUME NEW x, NextItem(r, x)
      PROVE  /\ Behind(r)'
             /\ \A b \in answered' : b \in answered \/ \A j \in DOMAIN b : Fine(b[j])'
  <2>0. req[r].at \in 1..Len(req[r].batch) /\ Len(req[r].batch) \in Nat /\ i = req[r].batch[req[r].at]
    BY <1>0, <1>1 DEF InDelivery, Serving, Item
  <2>1. CASE req'[r] = NoRequest
    <3>0. \A b, a : Serve(b, a, "resolve") # NoRequest
      <4>1. \A b, a : Serve(b, a, "resolve").step = "resolve"
        BY DEF Serve
      <4>2. NoRequest.step = "idle"
        BY DEF NoRequest
      <4> QED
        BY <4>1, <4>2
    <3>1. /\ req[r].at = Len(req[r].batch)
          /\ answered' = answered \cup ({req[r].batch} \cap Batches)
      BY <1>7, <2>1, <3>0, LeavesTo
    <3>2. Behind(r)'
      BY <2>1 DEF Behind, NoRequest
    <3>3. ASSUME NEW b \in Batches, b = req[r].batch, NEW j \in DOMAIN b PROVE Fine(b[j])'
      <4>1. b \in Seq(Messages) /\ j \in 1..Len(b)
        BY <3>3, FrontDoorAssumption
      <4>2. CASE j = req[r].at
        BY <1>1, <2>0, <3>3, <4>1, <4>2 DEF Progress
      <4>3. CASE j # req[r].at
        <5>1. j \in 1..(req[r].at - 1)
          BY <2>0, <3>1, <3>3, <4>1, <4>3
        <5> QED
          BY <1>4, <3>3, <5>1
      <4> QED
        BY <4>2, <4>3
    <3> QED
      BY <3>1, <3>2, <3>3
  <2>2. CASE req'[r] # NoRequest
    <3>1. /\ req[r].at < Len(req[r].batch) /\ UNCHANGED answered
          /\ req'[r] = Serve(req[r].batch, req[r].at + 1, "resolve")
      BY <1>7, <2>2, LeavesTo
    <3>2. /\ req'[r].step = "resolve" /\ req'[r].batch = req[r].batch
          /\ req'[r].at = req[r].at + 1
      BY <3>1 DEF Serve
    <3>3. i \in Messages
      <4>1. Len(req[r].batch) # 1
        BY <2>0, <3>1, NotAlone
      <4>2. req[r].batch \in Seq(Messages)
        BY <1>1, <4>1, FrontDoorAssumption DEF InDelivery
      <4> QED
        BY <2>0, <4>2
    <3>4. ASSUME NEW j \in 1..(req'[r].at - 1) PROVE Fine(req[r].batch[j])'
      <4>1. CASE j = req[r].at
        <5>1. req'[r].batch[j] = i
          BY <2>0, <3>2, <4>1
        <5>2. Fine(i)'
          BY <1>1, <3>3 DEF Progress
        <5> QED
          BY <5>1, <5>2
      <4>2. CASE j # req[r].at
        <5>1. j \in 1..(req[r].at - 1)
          BY <2>0, <3>2, <4>2
        <5> QED
          BY <1>4, <3>2, <5>1
      <4> QED
        BY <4>1, <4>2
    <3> QED
      BY <3>1, <3>2, <3>4 DEF Behind, Beyond
  <2> QED
    BY <2>1, <2>2
<1>8. Behind(r)' /\ \A b \in answered' : b \in answered \/ \A j \in DOMAIN b : Fine(b[j])'
  BY <1>1, <1>6, <1>7 DEF Progress
<1>10. answered' \subseteq Batches
  BY <1>1, <1>6, <1>7, LeavesTo DEF Progress, Accounted, Goes
<1>9. ASSUME NEW b \in answered', NEW j \in DOMAIN b PROVE Fine(b[j])'
  <2>1. CASE b \in answered
    <3>1. Fine(b[j]) /\ b[j] \in Messages
      <4>1. b \in Seq(Messages)
        BY <2>1, FrontDoorAssumption DEF Accounted
      <4> QED
        BY <2>1, <4>1 DEF Accounted
    <3> QED
      BY <1>1, <3>1
  <2> QED
    BY <1>8, <2>1
<1> QED
  BY <1>2, <1>5, <1>8, <1>9, <1>10 DEF Accounted

\* A new request, an error and a crash lose nobody but those they cut short.
LEMMA HeldElsewhere ==
    ASSUME NEW R, \A p \in Requests \ R : req'[p] = req[p], NEW S, NEW m,
           \A p \in R : ~Stands(p, m, S), Held(m, S)
    PROVE  Held(m, S)'
BY DEF Held, Stands, Item

LEMMA AccountedElsewhere ==
    ASSUME Typed, Placed, Accounted, NEW R \in SUBSET Requests,
           \A p \in Requests \ R : req'[p] = req[p],
           \A p \in R : Behind(p)',
           UNCHANGED <<rows, routed, processed, answered, dropped>>, cut \subseteq cut',
           \A m \in Messages : m \in cut' \/ \A p \in R : ~Stands(p, m, Ahead)
    PROVE  Accounted'
<1>0. Holding \subseteq Ahead
  BY DEF Ahead
<1>1. ASSUME NEW m \in Messages PROVE (Fine(m) => Fine(m)') /\ (Logged(m) => Logged(m)')
  <2>1. CASE m \in cut'
    BY <2>1 DEF Fine, Logged
  <2>2. CASE \A p \in R : ~Stands(p, m, Ahead)
    <3>1. \A p \in R : ~Stands(p, m, Holding)
      BY <1>0, <2>2 DEF Stands
    <3>2. (Held(m, Ahead) => Held(m, Ahead)') /\ (Held(m, Holding) => Held(m, Holding)')
      BY <2>2, <3>1, HeldElsewhere
    <3> QED
      BY <3>2 DEF Fine, Logged, Settled
  <2> QED
    BY <2>1, <2>2
<1>2. ASSUME NEW p \in Requests \ R PROVE Behind(p)'
  <2>1. req'[p] = req[p] /\ Behind(p)
    BY DEF Accounted
  <2>2. Item(p)' = Item(p)
    BY <2>1 DEF Item
  <2>3. ASSUME req'[p].step # "idle", NEW j \in 1..(req'[p].at - 1)
        PROVE  Fine(req[p].batch[j])'
    <3>1. PICK m \in Messages : m = req[p].batch[j]
      BY <2>1, <2>3, PassedAreMessages
    <3>2. Fine(m)
      BY <2>1, <2>3, <3>1 DEF Behind
    <3>3. Fine(m)'
      BY <1>1, <3>2
    <3> QED
      BY <2>1, <3>1, <3>3
  <2> QED
    BY <2>1, <2>2, <2>3 DEF Behind
<1>3. ASSUME NEW b \in answered, NEW j \in DOMAIN b PROVE Fine(b[j])'
  <2>1. b \in Seq(Messages)
    BY FrontDoorAssumption DEF Accounted
  <2>2. Fine(b[j]) /\ b[j] \in Messages
    BY <2>1 DEF Accounted
  <2> QED
    BY <1>1, <2>2
<1> QED
  BY <1>1, <1>2, <1>3 DEF Accounted

\* The rest of TypeOK, apart from the limiters and the breaker.
Sorted ==
    /\ processed \subseteq Messages /\ dropped \subseteq Messages /\ cut \subseteq Messages
    /\ loop \in Requests \cup {Nobody}
    /\ extras \in 0..MaxExtras /\ faults \in 0..MaxFaults

LEMMA NewRequest ==
    ASSUME Typed, Placed, Accounted, NEW r \in Requests, req[r] = NoRequest,
           NEW b \in Seq(Items), NEW s \in {"resolve", "route"},
           b \in Batches \/ (Len(b) = 1 /\ s = "route"), Len(b) > 0,
           req' = [req EXCEPT ![r] = Serve(b, 1, s)],
           UNCHANGED <<rows, routed, processed, answered, dropped, cut>>
    PROVE  Placed' /\ Accounted'
<1>1. req'[r] = Serve(b, 1, s) /\ \A p \in Requests \ {r} : req'[p] = req[p]
  BY DEF Typed
<1>2. /\ req'[r].step = s /\ req'[r].batch = b /\ req'[r].at = 1 /\ req'[r].tries = 0
  BY <1>1 DEF Serve
<1>3. InDelivery(r)'
  BY <1>2, BreakerAssumption DEF InDelivery, Webhook
<1>4. Behind(r)'
  <2>1. s \notin Beyond
    BY DEF Beyond
  <2> QED
    BY <1>2, <2>1 DEF Behind
<1>5. \A m \in Messages : ~Stands(r, m, Ahead)
  BY DEF Stands, NoRequest, Ahead, Holding
<1>6. Placed'
  BY <1>1, <1>3 DEF Placed, InDelivery
<1>7. Accounted'
  <2>1. {r} \in SUBSET Requests /\ \A p \in {r} : Behind(p)'
    BY <1>4
  <2> QED
    BY <1>1, <1>5, <2>1, AccountedElsewhere
<1> QED
  BY <1>6, <1>7

LEMMA DoorKept ==
    ASSUME Typed, Typed', Placed, Accounted, Sorted, [Next]_vars
    PROVE  Placed' /\ Accounted' /\ Sorted'
<1>0. MaxExtras \in Nat /\ MaxFaults \in Nat
  BY FrontDoorAssumption
<1>1. ASSUME NEW r \in Requests, Step(r) PROVE Placed' /\ Accounted' /\ Sorted'
  <2>1. req[r].step # "idle"
    BY <1>1 DEF Step, CheckIdempotency, CheckRateLimit, CheckLegacyLimit, LogMessage, ProcessRow,
                VoiceProcessed, ImageProcessed, RouteMessage, RouterAnswers, RouterOnboards,
                TenantOnboarded, RouterCalls, CallSucceeds, CallRetried, CallFails,
                AlertOperator, At
  <2>2. Progress(r, Item(r))
    BY <1>1, StepProgress
  <2>3. Placed' /\ Accounted'
    BY <2>1, <2>2, PlacedOn, AccountedOn
  <2>4. PICK i : Progress(r, i)
    BY <2>2
  <2>5. Sorted'
    BY <2>4 DEF Progress, Sorted
  <2> QED
    BY <2>3, <2>5
<1>2. ASSUME NEW r \in Requests, NEW b \in Batches, Deliver(r, b)
      PROVE  Placed' /\ Accounted' /\ Sorted'
  <2>1. b \in Seq(Items) /\ Len(b) > 0
    <3>1. b \in Seq(Messages) /\ b # <<>>
      BY FrontDoorAssumption
    <3> QED
      BY <3>1 DEF Items
  <2>2. /\ req[r] = NoRequest /\ req' = [req EXCEPT ![r] = Serve(b, 1, "resolve")]
        /\ UNCHANGED <<rows, routed, processed, answered, dropped, cut, loop, faults>>
        /\ extras' \in 0..MaxExtras
    BY <1>0, <1>2 DEF Deliver, Vacant, Sorted
  <2>3. Placed' /\ Accounted'
    <3>1. "resolve" \in {"resolve", "route"} /\ (b \in Batches \/ (Len(b) = 1 /\ "resolve" = "route"))
      OBVIOUS
    <3> QED
      BY <2>1, <2>2, <3>1, NewRequest
  <2> QED
    BY <2>2, <2>3 DEF Sorted
<1>3. ASSUME NEW r \in Requests, NEW u \in Updates, TelegramUpdate(r, u)
      PROVE  Placed' /\ Accounted' /\ Sorted'
  <2>1. <<u>> \in Seq(Items) /\ Len(<<u>>) = 1 /\ Len(<<u>>) > 0
    BY DEF Items
  <2>2. /\ req[r] = NoRequest /\ req' = [req EXCEPT ![r] = Serve(<<u>>, 1, "route")]
        /\ UNCHANGED <<rows, routed, processed, answered, dropped, cut, loop, faults>>
        /\ extras' \in 0..MaxExtras
    BY <1>0, <1>3 DEF TelegramUpdate, Vacant, Sorted
  <2>3. Placed' /\ Accounted'
    <3>1. "route" \in {"resolve", "route"}
      OBVIOUS
    <3> QED
      BY <2>1, <2>2, <3>1, NewRequest
  <2> QED
    BY <2>2, <2>3 DEF Sorted
<1>4. ASSUME NEW r \in Requests, DatabaseError(r) PROVE Placed' /\ Accounted' /\ Sorted'
  <2>1. /\ req' = [req EXCEPT ![r] = NoRequest] /\ loop' = Nobody
        /\ cut' = cut \cup ({Item(r)} \cap Messages)
        /\ UNCHANGED <<rows, routed, processed, answered, dropped, extras>>
        /\ faults' \in 0..MaxFaults
    BY <1>0, <1>4 DEF DatabaseError, Fault, Sorted
  <2>2. req'[r] = NoRequest /\ \A p \in Requests \ {r} : req'[p] = req[p]
    BY <2>1 DEF Typed
  <2>3. Behind(r)' /\ InDelivery(r)'
    BY <2>2 DEF Behind, InDelivery, NoRequest
  <2>4. \A m \in Messages : m \in cut' \/ ~Stands(r, m, Ahead)
    BY <2>1 DEF Stands
  <2>5. Accounted'
    <3>1. {r} \in SUBSET Requests /\ \A p \in {r} : Behind(p)'
      BY <2>3
    <3> QED
      BY <2>1, <2>2, <2>4, <3>1, AccountedElsewhere
  <2>6. Placed'
    BY <2>2, <2>3 DEF Placed, InDelivery
  <2>7. Sorted'
    BY <2>1 DEF Sorted
  <2> QED
    BY <2>5, <2>6, <2>7
<1>5. ASSUME Crash PROVE Placed' /\ Accounted' /\ Sorted'
  <2>1. /\ req' = [r \in Requests |-> NoRequest] /\ loop' = Nobody
        /\ cut' = cut \cup {m \in Messages : Underway(m)}
        /\ UNCHANGED <<rows, routed, processed, answered, dropped, extras>>
        /\ faults' \in 0..MaxFaults
    BY <1>0, <1>5 DEF Crash, Fault, Sorted
  <2>2. \A p \in Requests : Behind(p)' /\ InDelivery(p)'
    BY <2>1 DEF Behind, InDelivery, NoRequest
  <2>3. ASSUME NEW m \in Messages, NEW p \in Requests, Stands(p, m, Ahead) PROVE m \in cut'
    BY <2>1, <2>3 DEF Stands, Underway, NoRequest, Ahead, Holding
  <2>4. Accounted'
    BY <2>1, <2>2, <2>3, AccountedElsewhere
  <2>5. Placed'
    BY <2>2 DEF Placed
  <2>6. Sorted'
    BY <2>1 DEF Sorted
  <2> QED
    BY <2>4, <2>5, <2>6
<1>6. CASE PassTime \/ UNCHANGED vars
  <2>1. UNCHANGED <<req, rows, routed, processed, answered, dropped, cut, loop, extras, faults>>
    BY <1>6 DEF PassTime, Tick, vars, doorVars
  <2>2. Placed' /\ Sorted'
    BY <2>1 DEF Placed, InDelivery, Sorted
  <2>3. Accounted'
    <3>1. {} \in SUBSET Requests /\ \A p \in {} : Behind(p)'
      OBVIOUS
    <3>2. /\ \A p \in Requests \ {} : req'[p] = req[p]
          /\ \A m \in Messages : \A p \in {} : ~Stands(p, m, Ahead)
      BY <2>1
    <3> QED
      BY <2>1, <3>1, <3>2, AccountedElsewhere
  <2> QED
    BY <2>2, <2>3
<1> QED
  BY <1>1, <1>2, <1>3, <1>4, <1>5, <1>6 DEF Next

LEMMA DoorInductive == Spec => [](Typed /\ Placed /\ Accounted /\ Sorted)
<1>1. Init => Placed /\ Accounted /\ Sorted
  <2> SUFFICES ASSUME Init PROVE Placed /\ Accounted /\ Sorted
    OBVIOUS
  <2>1. \A r \in Requests : req[r].step = "idle"
    BY DEF Init, NoRequest
  <2>2. 0 \in 0..MaxExtras /\ 0 \in 0..MaxFaults
    BY FrontDoorAssumption
  <2> QED
    BY <2>1, <2>2 DEF Init, Placed, InDelivery, Accounted, Logged, Behind, Sorted
<1>2. Typed /\ Once /\ Placed /\ Accounted /\ Sorted /\ [Next]_vars
          => Placed' /\ Accounted' /\ Sorted'
  BY NextKinds, DoorKept
<1> QED
  BY <1>1, <1>2, OnceInductive, PTL DEF Spec

\* Meta's 200 means that every message of the delivery reached the conversation or
\* the end of the pipeline, or is another request's, unless a limiter dropped it or
\* an error cut it short (main.webhook).
THEOREM AnsweredIsSettled == Spec => []AnsweredMeansSettled
<1>1. ASSUME NEW m, Held(m, Ahead) PROVE Underway(m)
  BY <1>1 DEF Held, Stands, Underway, NoRequest, Ahead, Holding
<1>2. Accounted => AnsweredMeansSettled
  BY <1>1 DEF Accounted, AnsweredMeansSettled, Fine
<1> QED
  BY <1>2, DoorInductive, PTL

-----------------------------------------------------------------------------
\* The limiters at the door are RateLimits, driven by the messages: what is proved
\* of them by themselves holds here.
LEMMA SenderIsOwner ==
    ASSUME Typed, Placed, NEW r \in Requests, req[r].step # "idle"
    PROVE  From(r) \in Owners
<1>1. Item(r) \in Messages \cup Updates
  BY MessageAt DEF Items
<1> QED
  BY <1>1, FrontDoorAssumption DEF From

LEMMA LimitsDriven ==
    ASSUME Typed, Placed, [Next]_vars
    PROVE  [LimitsNext]_<<clock, limiter>>
<1>1. ASSUME NEW r \in Requests, CheckRateLimit(r) PROVE [LimitsNext]_<<clock, limiter>>
  <2>1. req[r].step # "idle" /\ UNCHANGED clock
    BY <1>1 DEF CheckRateLimit, At
  <2>2. From(r) \in Owners
    BY <2>1, SenderIsOwner
  <2>3. UNCHANGED limiter \/ (~TenantLimited(From(r)) /\ CountMessage(From(r)))
    BY <1>1 DEF CheckRateLimit
  <2> QED
    BY <2>1, <2>2, <2>3 DEF LimitsNext
<1>2. ASSUME NEW r \in Requests, CheckLegacyLimit(r) PROVE [LimitsNext]_<<clock, limiter>>
  <2>1. req[r].step # "idle" /\ UNCHANGED clock /\ SlideWindow(From(r))
    BY <1>2 DEF CheckLegacyLimit, At
  <2>2. From(r) \in Owners
    BY <2>1, SenderIsOwner
  <2> QED
    BY <2>1, <2>2 DEF LimitsNext
<1>3. ASSUME NEW r \in Requests, Step(r), ~CheckRateLimit(r), ~CheckLegacyLimit(r)
      PROVE  UNCHANGED <<clock, limiter>>
  <2>1. CASE \/ CheckIdempotency(r) \/ LogMessage(r) \/ ProcessRow(r) \/ VoiceProcessed(r)
             \/ ImageProcessed(r) \/ RouteMessage(r) \/ RouterAnswers(r) \/ RouterCalls(r)
    BY <2>1 DEF CheckIdempotency, LogMessage, ProcessRow, VoiceProcessed, ImageProcessed,
                RouteMessage, RouterAnswers, RouterCalls, Keep
  <2>2. CASE \/ RouterOnboards(r) \/ TenantOnboarded(r) \/ CallSucceeds(r) \/ CallRetried(r)
             \/ CallFails(r) \/ AlertOperator(r)
    BY <2>2 DEF RouterOnboards, TenantOnboarded, CallSucceeds, CallRetried, CallFails,
                AlertOperator, Keep
  <2> QED
    BY <1>3, <2>1, <2>2 DEF Step
<1>4. ASSUME NEW r \in Requests,
             \/ DatabaseError(r) \/ \E b \in Batches : Deliver(r, b)
             \/ \E u \in Updates : TelegramUpdate(r, u)
      PROVE  UNCHANGED <<clock, limiter>>
  BY <1>4 DEF DatabaseError, Deliver, TelegramUpdate
<1>5. Crash => LimitsNext
  BY DEF Crash, LimitsNext
<1>6. PassTime => LimitsNext
  BY DEF PassTime, LimitsNext
<1>7. UNCHANGED vars => UNCHANGED <<clock, limiter>>
  BY DEF vars
<1> QED
  BY <1>1, <1>2, <1>3, <1>4, <1>5, <1>6, <1>7 DEF Next

\* The webhook uses the two limiters as they are meant to be used: it counts a
\* message of a tenant only when it lets it through, slides the window of everybody
\* else, and loses what is in memory only when the process dies (main.webhook).
THEOREM DoorImplementsLimits == Spec => LimitsSpec
<1>1. Init => LimitsInit
  BY DEF Init
<1> QED
  BY <1>1, LimitsDriven, DoorInductive, PTL DEF Spec, LimitsSpec

-----------------------------------------------------------------------------
\* Every variable of the door, of the limiters and of the breaker keeps its type,
\* and a request at work is at a message of its delivery.
THEOREM DoorTyped == Spec => []TypeOK
<1>1. ASSUME Typed, Placed, NEW r \in Requests, req[r] # NoRequest
      PROVE  /\ req[r].step \in Steps
             /\ req[r].at \in DOMAIN req[r].batch
             /\ Item(r) \in Items
             /\ req[r].tries \in 0..MaxAttempts /\ req[r].guarded \in BOOLEAN
  <2>1. req[r] \in Serving
    BY <1>1 DEF Typed
  <2>2. req[r].step \in Steps /\ req[r].step # "idle"
    BY <2>1 DEF Serving, Steps
  <2>3. Item(r) \in Items
    BY <1>1, <2>2, MessageAt
  <2>4. InDelivery(r)
    BY <1>1 DEF Placed
  <2> QED
    BY <2>1, <2>2, <2>3, <2>4 DEF Serving, InDelivery
<1>2. Typed /\ Placed /\ Accounted /\ Sorted /\ LimitsTypeOK /\ BreakerTypeOK => TypeOK
  BY <1>1 DEF Typed, Accounted, Sorted, TypeOK
<1> QED
  BY <1>2, DoorInductive, DoorImplementsLimits, LimitsTyped, BreakerInductive, PTL

-----------------------------------------------------------------------------
\* The alerts of a tenant that are still to come.
Alerting(t) == {p \in Requests : req[p].step = "alert" /\ From(p) = t}

LEMMA UnsentIs ==
    ASSUME NEW t
    PROVE  /\ Unsent(t) = Cardinality(Alerting(t)) /\ Unsent(t) \in Nat
           /\ IsFiniteSet(Alerting(t))
<1>1. IsFiniteSet(Alerting(t))
  BY FrontDoorAssumption, FS_Subset DEF Alerting
<1> QED
  BY <1>1, FS_CardinalityType DEF Unsent, Alerting

LEMMA SameAlerting ==
    ASSUME NEW r \in Requests, \A p \in Requests \ {r} : req'[p] = req[p],
           req[r].step # "alert", req'[r].step # "alert", NEW t
    PROVE  Unsent(t)' = Unsent(t)
<1>1. \A p \in Requests \ {r} : From(p)' = From(p)
  BY DEF From, Item
<1>2. Alerting(t)' = Alerting(t)
  BY <1>1 DEF Alerting
<1> QED
  BY <1>2 DEF Unsent, Alerting

\* The steps that raise no alert and send none.
LEMMA NoAlert ==
    ASSUME Typed, NEW r \in Requests, Step(r), ~AlertOperator(r),
           CallFails(r) => ~req[r].guarded \/ ~AlertDue(From(r))
    PROVE  /\ \A p \in Requests \ {r} : req'[p] = req[p]
           /\ req[r].step # "alert" /\ req'[r].step # "alert"
           /\ UNCHANGED faults
           /\ CallFails(r) \/ UNCHANGED owed
<1>1. /\ req[r].step \notin {"alert", "idle"} /\ UNCHANGED faults
      /\ CallFails(r) \/ UNCHANGED owed
  <2>1. CASE \/ CheckIdempotency(r) \/ CheckRateLimit(r) \/ CheckLegacyLimit(r) \/ LogMessage(r)
             \/ ProcessRow(r) \/ VoiceProcessed(r) \/ ImageProcessed(r) \/ RouteMessage(r)
    BY <2>1 DEF CheckIdempotency, CheckRateLimit, CheckLegacyLimit, LogMessage, ProcessRow,
                VoiceProcessed, ImageProcessed, RouteMessage, At, breaker
  <2>2. CASE RouterAnswers(r) \/ RouterCalls(r) \/ CallRetried(r)
    BY <2>2 DEF RouterAnswers, RouterCalls, CallRetried, At, Keep, breaker
  <2>3. CASE RouterOnboards(r) \/ TenantOnboarded(r) \/ CallSucceeds(r) \/ CallFails(r)
    BY <2>3 DEF RouterOnboards, TenantOnboarded, CallSucceeds, CallFails, CreateTenant,
                SetTenantOnboarded, Recover, At, breaker
  <2> QED
    BY <2>1, <2>2, <2>3 DEF Step
<1>2. \/ NextItem(r, r) \/ NextItem(r, Nobody)
      \/ \E s \in Steps \ {"alert"} : GoOn(r, s) \/ Wait(r, s)
      \/ RouterCalls(r) \/ CallRetried(r)
  <2>1. CASE CheckIdempotency(r) \/ CheckRateLimit(r) \/ CheckLegacyLimit(r) \/ LogMessage(r)
    BY <2>1 DEF CheckIdempotency, CheckRateLimit, CheckLegacyLimit, LogMessage, Skip, Steps
  <2>2. CASE ProcessRow(r) \/ VoiceProcessed(r) \/ ImageProcessed(r) \/ RouteMessage(r)
    BY <2>2 DEF ProcessRow, VoiceProcessed, ImageProcessed, RouteMessage, Skip, Finish, Steps
  <2>3. CASE \/ RouterAnswers(r) \/ RouterOnboards(r) \/ TenantOnboarded(r)
             \/ CallSucceeds(r) \/ CallFails(r)
    BY <2>3 DEF RouterAnswers, RouterOnboards, TenantOnboarded, CallSucceeds, CallFails,
                Finish, Steps
  <2> QED
    BY <2>1, <2>2, <2>3 DEF Step
<1>3. CASE NextItem(r, r) \/ NextItem(r, Nobody)
  BY <1>1, <1>3, Onward
<1>4. ASSUME NEW s \in Steps \ {"alert"}, GoOn(r, s) \/ Wait(r, s)
      PROVE  (\A p \in Requests \ {r} : req'[p] = req[p]) /\ req'[r].step # "alert"
  <2>1. Moves(r, s)
    BY <1>1, <1>4, Steady
  <2> QED
    BY <2>1 DEF Moves
<1>5. CASE RouterCalls(r) \/ CallRetried(r)
  <2>1. req[r] \in Serving
    BY <1>1 DEF Typed, NoRequest
  <2>2. CASE RouterCalls(r)
    <3>1. req' = [req EXCEPT ![r].step = "calling", ![r].guarded = HasRecord(From(r))]
      BY <2>2 DEF RouterCalls
    <3> QED
      BY <1>1, <2>1, <3>1 DEF Typed, Serving
  <2>3. CASE CallRetried(r)
    <3>1. req' = [req EXCEPT ![r].tries = @ + 1]
      BY <2>3 DEF CallRetried
    <3> QED
      BY <1>1, <2>1, <3>1 DEF Typed, Serving
  <2> QED
    BY <1>1, <1>5, <2>2, <2>3
<1> QED
  BY <1>1, <1>2, <1>3, <1>4, <1>5

\* An outage that begins owes an alert, and one that goes on owes none.
LEMMA TripOwes ==
    ASSUME BreakerTypeOK, DegradedMeansLastFailed, NEW t \in Tenants, Trip(t)
    PROVE  /\ \A u \in Tenants \ {t} : owed'[u] = owed[u]
           /\ owed'[t] = IF AlertDue(t) THEN owed[t] + 1 ELSE owed[t]
BY DEF BreakerTypeOK, DegradedMeansLastFailed, Trip, AlertDue

LEMMA AlertsKept ==
    ASSUME Typed, Placed, Sorted, Sorted', BreakerTypeOK, BreakerTypeOK', DegradedMeansLastFailed,
           AlertPerOutage, [Next]_vars
    PROVE  AlertPerOutage'
<1>0. /\ faults \in Nat /\ faults' \in Nat
      /\ \A t \in Tenants : owed[t] \in Int /\ owed'[t] \in Int
      /\ \A t : Unsent(t) \in Nat
  BY UnsentIs DEF Sorted, BreakerTypeOK
<1>1. ASSUME NEW r \in Requests, \A p \in Requests \ {r} : req'[p] = req[p],
             req[r].step # "alert", req'[r].step # "alert", faults' >= faults,
             \A t \in Tenants : owed'[t] = owed[t]
      PROVE  AlertPerOutage'
  <2>1. \A t \in Tenants : Unsent(t)' = Unsent(t)
    BY <1>1, SameAlerting
  <2>2. faults' = 0 => faults = 0
    BY <1>0, <1>1
  <2> QED
    BY <1>1, <2>1, <2>2 DEF AlertPerOutage
<1>2. ASSUME NEW r \in Requests, AlertOperator(r) PROVE AlertPerOutage'
  <2>1. /\ req[r].step = "alert" /\ UNCHANGED faults
        /\ owed' = [owed EXCEPT ![From(r)] = @ - 1] /\ NextItem(r, Nobody)
    BY <1>2 DEF AlertOperator, At, Alert, Finish
  <2>2. /\ \A p \in Requests \ {r} : req'[p] = req[p]
        /\ req'[r].step # "alert"
    BY <2>1, Onward
  <2>3. PICK o \in Tenants : o = From(r)
    BY <2>1, SenderIsOwner, FrontDoorAssumption
  <2>4. \A p \in Requests \ {r} : From(p)' = From(p)
    BY <2>2 DEF From, Item
  <2>5. Alerting(o)' = Alerting(o) \ {r} /\ r \in Alerting(o)
    BY <2>1, <2>2, <2>3, <2>4 DEF Alerting
  <2>6. Unsent(o)' = Unsent(o) - 1
    <3>1. Cardinality(Alerting(o) \ {r}) = Cardinality(Alerting(o)) - 1
      BY <2>5, UnsentIs, FS_RemoveElement
    <3>2. Unsent(o)' = Cardinality(Alerting(o)') /\ Unsent(o) = Cardinality(Alerting(o))
      BY DEF Unsent, Alerting
    <3> QED
      BY <2>5, <3>1, <3>2
  <2>7. ASSUME NEW t \in Tenants, t # o PROVE Unsent(t)' = Unsent(t) /\ owed'[t] = owed[t]
    <3>1. Alerting(t)' = Alerting(t)
      BY <2>1, <2>2, <2>3, <2>4, <2>7 DEF Alerting
    <3> QED
      BY <2>1, <2>3, <2>7, <3>1 DEF Unsent, Alerting, BreakerTypeOK
  <2>8. owed'[o] = owed[o] - 1
    BY <2>1, <2>3 DEF BreakerTypeOK
  <2>9. ASSUME NEW t \in Tenants
        PROVE  owed'[t] >= Unsent(t)' /\ (faults' = 0 => owed'[t] = Unsent(t)')
    <3>1. owed[t] >= Unsent(t) /\ (faults = 0 => owed[t] = Unsent(t))
      BY DEF AlertPerOutage
    <3>2. CASE t = o
      BY <1>0, <2>1, <2>6, <2>8, <3>1, <3>2
    <3>3. CASE t # o
      BY <2>1, <2>7, <3>1, <3>3
    <3> QED
      BY <3>2, <3>3
  <2> QED
    BY <2>9 DEF AlertPerOutage
<1>3. ASSUME NEW r \in Requests, CallFails(r), req[r].guarded, AlertDue(From(r))
      PROVE  AlertPerOutage'
  <2>1. /\ req[r].step = "calling" /\ UNCHANGED faults
        /\ Trip(From(r)) /\ GoOn(r, "alert")
    BY <1>3 DEF CallFails, At
  <2>2. Moves(r, "alert")
    BY <2>1, Steady DEF Steps
  <2>3. /\ \A p \in Requests \ {r} : req'[p] = req[p]
        /\ req'[r].step = "alert" /\ From(r)' = From(r)
    BY <2>2 DEF Moves, From, Item, Steps
  <2>4. PICK o \in Tenants : o = From(r)
    BY <2>1, SenderIsOwner, FrontDoorAssumption
  <2>5. \A p \in Requests \ {r} : From(p)' = From(p)
    BY <2>3 DEF From, Item
  <2>6. Alerting(o)' = Alerting(o) \cup {r} /\ r \notin Alerting(o)
    BY <2>1, <2>3, <2>4, <2>5 DEF Alerting
  <2>7. Unsent(o)' = Unsent(o) + 1
    <3>1. Cardinality(Alerting(o) \cup {r}) = Cardinality(Alerting(o)) + 1
      BY <2>6, UnsentIs, FS_AddElement
    <3>2. Unsent(o)' = Cardinality(Alerting(o)') /\ Unsent(o) = Cardinality(Alerting(o))
      BY DEF Unsent, Alerting
    <3> QED
      BY <2>6, <3>1, <3>2
  <2>8. owed'[o] = owed[o] + 1 /\ \A t \in Tenants \ {o} : owed'[t] = owed[t]
    BY <1>3, <2>1, <2>4, TripOwes
  <2>9. ASSUME NEW t \in Tenants
        PROVE  owed'[t] >= Unsent(t)' /\ (faults' = 0 => owed'[t] = Unsent(t)')
    <3>1. owed[t] >= Unsent(t) /\ (faults = 0 => owed[t] = Unsent(t))
      BY DEF AlertPerOutage
    <3>2. CASE t = o
      BY <1>0, <2>1, <2>7, <2>8, <3>1, <3>2
    <3>3. CASE t # o
      <4>1. Alerting(t)' = Alerting(t)
        BY <2>1, <2>3, <2>4, <2>5, <3>3 DEF Alerting
      <4>2. Unsent(t)' = Unsent(t)
        BY <4>1 DEF Unsent, Alerting
      <4> QED
        BY <2>1, <2>8, <3>1, <3>3, <4>2
    <3> QED
      BY <3>2, <3>3
  <2> QED
    BY <2>9 DEF AlertPerOutage
<1>4. ASSUME NEW r \in Requests, Step(r), ~AlertOperator(r),
             CallFails(r) => ~req[r].guarded \/ ~AlertDue(From(r))
      PROVE  AlertPerOutage'
  <2>1. /\ \A p \in Requests \ {r} : req'[p] = req[p]
        /\ req[r].step # "alert" /\ req'[r].step # "alert" /\ UNCHANGED faults
        /\ CallFails(r) \/ UNCHANGED owed
    BY <1>4, NoAlert
  <2>2. \A t \in Tenants : owed'[t] = owed[t]
    <3>1. CASE CallFails(r)
      <4>1. req[r].step # "idle" /\ (UNCHANGED breaker \/ (Trip(From(r)) /\ req[r].guarded))
        BY <3>1 DEF CallFails, At
      <4>2. PICK o \in Tenants : o = From(r)
        BY <4>1, SenderIsOwner, FrontDoorAssumption
      <4>3. CASE UNCHANGED breaker
        BY <4>3 DEF breaker
      <4>4. CASE Trip(o) /\ ~AlertDue(o)
        BY <4>4, TripOwes
      <4> QED
        BY <1>4, <3>1, <4>1, <4>2, <4>3, <4>4
    <3> QED
      BY <2>1, <3>1
  <2>3. faults' >= faults
    BY <1>0, <2>1
  <2> QED
    BY <1>1, <2>1, <2>2, <2>3
<1>5. ASSUME NEW r \in Requests,
             \/ DatabaseError(r) \/ \E b \in Batches : Deliver(r, b)
             \/ \E u \in Updates : TelegramUpdate(r, u)
      PROVE  AlertPerOutage'
  <2>1. req[r].step # "alert" /\ UNCHANGED breaker /\ faults' >= faults
    <3>1. CASE DatabaseError(r)
      BY <1>0, <3>1 DEF DatabaseError, At, Fault
    <3>2. CASE (\E b \in Batches : Deliver(r, b)) \/ \E u \in Updates : TelegramUpdate(r, u)
      <4>1. req[r] = NoRequest /\ UNCHANGED <<breaker, faults>>
        BY <3>2 DEF Deliver, TelegramUpdate, Vacant
      <4>2. NoRequest.step # "alert"
        BY DEF NoRequest
      <4> QED
        BY <1>0, <4>1, <4>2
    <3> QED
      BY <1>5, <3>1, <3>2
  <2>2. (\A p \in Requests \ {r} : req'[p] = req[p]) /\ req'[r].step # "alert"
    BY <1>5 DEF DatabaseError, Deliver, TelegramUpdate, NoRequest, Serve, Typed
  <2> QED
    BY <1>1, <2>1, <2>2 DEF breaker
<1>6. CASE Crash
  <2>1. faults' = faults + 1 /\ UNCHANGED owed /\ req' = [r \in Requests |-> NoRequest]
    BY <1>6 DEF Crash, Fault, breaker
  <2>2. ASSUME NEW t PROVE Unsent(t)' = 0
    <3>1. Alerting(t)' = {}
      BY <2>1 DEF Alerting, NoRequest
    <3> QED
      BY <3>1, FS_EmptySet DEF Unsent, Alerting
  <2>3. ASSUME NEW t \in Tenants PROVE owed[t] >= 0
    <3>1. owed[t] >= Unsent(t)
      BY DEF AlertPerOutage
    <3> QED
      BY <1>0, <3>1
  <2> QED
    BY <1>0, <2>1, <2>2, <2>3 DEF AlertPerOutage
<1>7. CASE PassTime \/ UNCHANGED vars
  <2>1. UNCHANGED <<req, faults, owed>>
    BY <1>7 DEF PassTime, vars, doorVars, breaker
  <2>2. \A t : Unsent(t)' = Unsent(t)
    BY <2>1 DEF Unsent, From, Item
  <2> QED
    BY <2>1, <2>2 DEF AlertPerOutage
<1> QED
  BY <1>2, <1>3, <1>4, <1>5, <1>6, <1>7 DEF Next

\* The operator is owed an alert for each outage that began and was not told of it,
\* no more than are under way as long as nothing crashed, and never fewer: no outage
\* is told of twice (CircuitBreaker.call, _alert).
THEOREM AlertOncePerOutage == Spec => []AlertPerOutage
<1>1. Init => AlertPerOutage
  <2> SUFFICES ASSUME Init, NEW t \in Tenants PROVE owed[t] = 0 /\ Unsent(t) = 0
    BY DEF AlertPerOutage
  <2>1. Alerting(t) = {} /\ owed[t] = 0
    BY DEF Init, BreakerInit, Alerting, NoRequest
  <2> QED
    BY <2>1, FS_EmptySet DEF Unsent, Alerting
<1>2. Typed /\ Placed /\ Sorted /\ Sorted' /\ BreakerTypeOK /\ BreakerTypeOK'
          /\ DegradedMeansLastFailed /\ AlertPerOutage /\ [Next]_vars => AlertPerOutage'
  BY AlertsKept
<1> QED
  BY <1>1, <1>2, DoorInductive, BreakerInductive, StatusTellsTheLastCall, PTL DEF Spec
=============================================================================
