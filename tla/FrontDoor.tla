------------------------------ MODULE FrontDoor ------------------------------
(***************************************************************************)
(* The way in: deliveries of Meta's webhook (main.py) through tenant        *)
(* lookup, idempotency, the limiters and the message log to the pipeline   *)
(* (pipeline.py) and the router's calls of Track B behind the circuit      *)
(* breaker; and the Telegram adapter, which goes to the router directly.   *)
(* One process serves several requests on one event loop: loop is the      *)
(* request that runs, "none" while all of them wait.  What lies between    *)
(* two awaits cannot be interleaved with another request, but the process  *)
(* can die between any two commits in it.                                  *)
(***************************************************************************)
EXTENDS RateLimits, CircuitBreaker

CONSTANTS
    Messages,     \* WhatsApp message ids
    Sender,       \* the owner who sent each message and update
    Batches,      \* sequences of messages: the deliveries Meta makes
    Updates,      \* Telegram updates
    Requests,     \* requests served at the same time
    Nobody,       \* loop: no request runs
    MaxExtras, MaxFaults  \* bounds: deliveries beyond the first answer; crashes and errors

ASSUME FrontDoorAssumption ==
    /\ Tenants = Owners
    /\ Sender \in [Messages \cup Updates -> Owners]
    /\ Batches \subseteq Seq(Messages) /\ <<>> \notin Batches
    /\ Updates \cap Messages = {}
    /\ Nobody \notin Requests /\ IsFiniteSet(Requests)
    /\ {MaxExtras, MaxFaults} \subseteq Nat

VARIABLES
    processed,  \* processed_messages: the ids marked
    rows,       \* inbound_messages.processing_status by wam_id; "none" without a row;
                \* "text" is text and transcribed, "ended" is low_confidence, failed,
                \* the image statuses and unsupported
    req,        \* the requests being served
    loop,       \* who runs on the event loop
    answered,   \* batches Meta got its 200 for
    extras,     \* redeliveries of an answered batch and Telegram updates so far
    faults,     \* crashes and database errors so far
    routed,     \* history: how often the router was given a message or update
    charged,    \* history: how often a message counted against its tenant's limit
    dropped,    \* history: messages a limiter dropped
    cut         \* history: messages whose handling an error or a crash cut short

doorVars == <<processed, rows, req, loop, answered, extras, faults,
              routed, charged, dropped, cut>>
vars == <<clock, limiter, breaker, doorVars>>

Items == Messages \cup Updates
NoRequest == [step |-> "idle"]
Serve(batch, at, step) ==
    [step |-> step, batch |-> batch, at |-> at, tries |-> 0, guarded |-> FALSE]
Item(r) == req[r].batch[req[r].at]
From(r) == Sender[Item(r)]

Steps == {"resolve", "limit", "log", "process", "voice", "image", "route", "routing",
          "calling", "alert", "onboarding"}

TypeOK ==
    /\ LimitsTypeOK /\ BreakerTypeOK
    /\ processed \subseteq Messages
    /\ rows \in [Messages -> {"none", "new", "text", "ended"}]
    /\ \A r \in Requests : req[r] # NoRequest =>
           /\ req[r].step \in Steps
           /\ req[r].at \in DOMAIN req[r].batch
           /\ Item(r) \in Items
           /\ req[r].tries \in 0..MaxAttempts /\ req[r].guarded \in BOOLEAN
    /\ loop \in Requests \cup {Nobody}
    /\ answered \subseteq Batches
    /\ extras \in 0..MaxExtras /\ faults \in 0..MaxFaults
    /\ routed \in [Items -> Nat] /\ charged \in [Messages -> Nat]
    /\ dropped \subseteq Messages /\ cut \subseteq Messages

Init ==
    /\ LimitsInit /\ BreakerInit
    /\ processed = {} /\ rows = [m \in Messages |-> "none"]
    /\ req = [r \in Requests |-> NoRequest] /\ loop = Nobody
    /\ answered = {} /\ extras = 0 /\ faults = 0
    /\ routed = [i \in Items |-> 0] /\ charged = [m \in Messages |-> 0]
    /\ dropped = {} /\ cut = {}

-----------------------------------------------------------------------------
\* Request r is at a step and may run: it holds the event loop, or nobody does.
At(r, step) == req[r].step = step /\ loop \in {r, Nobody}

\* It goes on without an await in between, or waits and lets others run.
GoOn(r, step) == req' = [req EXCEPT ![r].step = step] /\ loop' = r
Wait(r, step) == req' = [req EXCEPT ![r].step = step] /\ loop' = Nobody

\* The item of r is done with: the loop of the webhook takes the next message,
\* or the request answers 200.  Telegram's 200 is not followed up.
NextItem(r, runs) ==
    LET more == req[r].at < Len(req[r].batch)
    IN  /\ req' = [req EXCEPT ![r] =
                      IF more THEN Serve(@.batch, @.at + 1, "resolve")
                      ELSE NoRequest]
        /\ loop' = IF more THEN runs ELSE Nobody
        /\ answered' = IF more THEN answered ELSE answered \cup ({req[r].batch} \cap Batches)

Skip(r) == NextItem(r, r)        \* `continue`: no await
Finish(r) == NextItem(r, Nobody) \* after an awaited reply or call

Keep == UNCHANGED <<clock, limiter, breaker, processed, rows, extras, faults,
                    routed, charged, dropped, cut>>

-----------------------------------------------------------------------------
\* Requests are alike: a new one takes the first free place.
Vacant(r) == req[r] = NoRequest /\ r = CHOOSE p \in Requests : req[p] = NoRequest

\* Meta posts a batch until it gets a 200, and sometimes once more.
Deliver(r, b) ==
    /\ Vacant(r)
    /\ b \in answered => extras < MaxExtras
    /\ extras' = IF b \in answered THEN extras + 1 ELSE extras
    /\ req' = [req EXCEPT ![r] = Serve(b, 1, "resolve")]
    /\ UNCHANGED <<clock, limiter, breaker, processed, rows, loop, answered, faults,
                   routed, charged, dropped, cut>>

\* A Telegram update, pushed to the webhook or polled: nothing looks whether it
\* was there before, and /telegram/poll asks for the same last update each time.
TelegramUpdate(r, u) ==
    /\ Vacant(r)
    /\ extras < MaxExtras /\ extras' = extras + 1
    /\ req' = [req EXCEPT ![r] = Serve(<<u>>, 1, "route")]
    /\ UNCHANGED <<clock, limiter, breaker, processed, rows, loop, answered, faults,
                   routed, charged, dropped, cut>>

\* Mutant of CheckIdempotency: the answer of mark_message_processed is ignored.
CheckIdempotencyUnread(r) ==
    /\ At(r, "resolve") /\ HasRecord(From(r))
    /\ processed' = processed \cup {Item(r)}
    /\ GoOn(r, "limit")
    /\ UNCHANGED <<clock, limiter, breaker, rows, answered, extras, faults,
                   routed, charged, dropped, cut>>

\* A sender with a tenant record: idempotency first (mark_message_processed).
\* The mark is committed before anything else happens.
CheckIdempotency(r) ==
    /\ At(r, "resolve") /\ HasRecord(From(r))
    /\ IF Item(r) \in processed
       THEN Skip(r) /\ UNCHANGED processed
       ELSE /\ processed' = processed \cup {Item(r)}
            /\ GoOn(r, "limit") /\ UNCHANGED answered
    /\ UNCHANGED <<clock, limiter, breaker, rows, extras, faults,
                   routed, charged, dropped, cut>>

\* Then the tenant's limit.  A limited message is dropped without a word, and
\* stays marked: its redelivery is a duplicate.
CheckRateLimit(r) ==
    /\ At(r, "limit")
    /\ \/ /\ TenantLimited(From(r))
          /\ dropped' = dropped \cup {Item(r)}
          /\ Skip(r)
          /\ UNCHANGED <<limiter, charged>>
       \/ /\ ~TenantLimited(From(r))
          /\ CountMessage(From(r))
          /\ charged' = [charged EXCEPT ![Item(r)] = @ + 1]
          /\ GoOn(r, "log")
          /\ UNCHANGED <<dropped, answered>>
    /\ UNCHANGED <<clock, breaker, processed, rows, extras, faults, routed, cut>>

\* Mutant of CheckLegacyLimit: a limited message is refused with an error status.
CheckLegacyLimitRefuses(r) ==
    /\ At(r, "resolve") /\ ~HasRecord(From(r))
    /\ SlideWindow(From(r))
    /\ IF OwnerLimited(From(r))
       THEN req' = [req EXCEPT ![r] = NoRequest] /\ loop' = Nobody
       ELSE GoOn(r, "log")
    /\ UNCHANGED <<clock, breaker, processed, rows, answered, extras, faults,
                   routed, charged, dropped, cut>>

\* A sender without a record: the limiter in memory, and no mark.
CheckLegacyLimit(r) ==
    /\ At(r, "resolve") /\ ~HasRecord(From(r))
    /\ SlideWindow(From(r))
    /\ IF OwnerLimited(From(r))
       THEN Skip(r) /\ dropped' = dropped \cup {Item(r)}
       ELSE GoOn(r, "log") /\ UNCHANGED <<dropped, answered>>
    /\ UNCHANGED <<clock, breaker, processed, rows, extras, faults, routed, charged, cut>>

\* Mutant of LogMessage: INSERT OR REPLACE.
LogMessageAgain(r) ==
    /\ At(r, "log")
    /\ rows' = [rows EXCEPT ![Item(r)] = "new"]
    /\ GoOn(r, "process")
    /\ UNCHANGED <<clock, limiter, breaker, processed, answered, extras, faults,
                   routed, charged, dropped, cut>>

\* _log_message: wam_id is UNIQUE, a second insert is a duplicate.
LogMessage(r) ==
    /\ At(r, "log")
    /\ IF rows[Item(r)] # "none"
       THEN Skip(r) /\ UNCHANGED rows
       ELSE /\ rows' = [rows EXCEPT ![Item(r)] = "new"]
            /\ GoOn(r, "process") /\ UNCHANGED answered
    /\ UNCHANGED <<clock, limiter, breaker, processed, extras, faults,
                   routed, charged, dropped, cut>>

-----------------------------------------------------------------------------
Record(r, s) == rows' = [rows EXCEPT ![Item(r)] = s]

\* process_row and, for what has a message_text, _route_message.  Nothing before
\* looks at the type of a message, so here it is of any.  No text is blank: the
\* channel has none, and a blank one would end here.
ProcessRow(r) ==
    /\ At(r, "process")
    /\ \/ Record(r, "text") /\ GoOn(r, "route") /\ UNCHANGED answered
       \/ Wait(r, "voice") /\ UNCHANGED <<rows, answered>>
       \/ Wait(r, "image") /\ UNCHANGED <<rows, answered>>
       \/ Record(r, "ended") /\ Skip(r)
    /\ UNCHANGED <<clock, limiter, breaker, processed, extras, faults,
                   routed, charged, dropped, cut>>

\* Mutant of VoiceProcessed: a failure ends it without a status.
VoiceProcessedUnrecorded(r) ==
    /\ At(r, "voice")
    /\ \/ Record(r, "text") /\ GoOn(r, "route") /\ UNCHANGED answered
       \/ UNCHANGED rows /\ Finish(r)
    /\ UNCHANGED <<clock, limiter, breaker, processed, extras, faults,
                   routed, charged, dropped, cut>>

\* _process_voice has downloaded and transcribed.  Only a transcript it trusts
\* goes to the router; otherwise the owner gets the fallback reply.
VoiceProcessed(r) ==
    /\ At(r, "voice")
    /\ \/ Record(r, "text") /\ GoOn(r, "route") /\ UNCHANGED answered
       \/ Record(r, "ended") /\ Finish(r)
    /\ UNCHANGED <<clock, limiter, breaker, processed, extras, faults,
                   routed, charged, dropped, cut>>

\* _process_image has downloaded, or failed to.  The picture goes no further, and the owner
\* hears nothing.
ImageProcessed(r) ==
    /\ At(r, "image")
    /\ Record(r, "ended")
    /\ Skip(r)
    /\ UNCHANGED <<clock, limiter, breaker, processed, extras, faults,
                   routed, charged, dropped, cut>>

\* The router is given the text and waits: for the parser, or for a reply.
RouteMessage(r) ==
    /\ At(r, "route")
    /\ routed' = [routed EXCEPT ![Item(r)] = @ + 1]
    /\ Wait(r, "routing")
    /\ UNCHANGED <<clock, limiter, breaker, processed, rows, answered, extras, faults,
                   charged, dropped, cut>>

\* It answers without Track B, or raises: the exception is swallowed.
RouterAnswers(r) == At(r, "routing") /\ Finish(r) /\ Keep

\* It ends an onboarding: the owner gets a tenant record, if there is none yet.
RouterOnboards(r) ==
    /\ At(r, "routing")
    /\ CreateTenant(From(r))
    /\ GoOn(r, "onboarding")
    /\ UNCHANGED <<clock, limiter, processed, rows, answered, extras, faults,
                   routed, charged, dropped, cut>>

TenantOnboarded(r) ==
    /\ At(r, "onboarding")
    /\ SetTenantOnboarded(From(r))
    /\ Finish(r)
    /\ UNCHANGED <<clock, limiter, processed, rows, extras, faults,
                   routed, charged, dropped, cut>>

-----------------------------------------------------------------------------
\* _trackb_call: behind the tenant's breaker, or directly without a record.
RouterCalls(r) ==
    /\ At(r, "routing")
    /\ req' = [req EXCEPT ![r].step = "calling", ![r].guarded = HasRecord(From(r))]
    /\ loop' = Nobody
    /\ UNCHANGED answered /\ Keep

CallSucceeds(r) ==
    /\ At(r, "calling")
    /\ IF req[r].guarded THEN Recover(From(r)) ELSE UNCHANGED breaker
    /\ Finish(r)
    /\ UNCHANGED <<clock, limiter, processed, rows, extras, faults,
                   routed, charged, dropped, cut>>

\* Mutant of CallRetried: one attempt too many.
CallRetriedOnceMore(r) ==
    /\ At(r, "calling") /\ req[r].guarded
    /\ req[r].tries < MaxAttempts + 1
    /\ req' = [req EXCEPT ![r].tries = @ + 1]
    /\ loop' = Nobody
    /\ UNCHANGED answered /\ Keep

\* An attempt of a guarded call fails and another follows after the backoff.
CallRetried(r) ==
    /\ At(r, "calling") /\ req[r].guarded
    /\ req[r].tries + 1 < MaxAttempts
    /\ req' = [req EXCEPT ![r].tries = @ + 1]
    /\ loop' = Nobody
    /\ UNCHANGED answered /\ Keep

\* The last attempt fails; without a breaker there is only one.
CallFails(r) ==
    /\ At(r, "calling")
    /\ \/ /\ ~req[r].guarded
          /\ Finish(r) /\ UNCHANGED breaker
       \/ /\ req[r].guarded /\ req[r].tries + 1 = MaxAttempts
          /\ Trip(From(r))
          /\ IF AlertDue(From(r))
             THEN GoOn(r, "alert") /\ UNCHANGED answered
             ELSE Finish(r)
    /\ UNCHANGED <<clock, limiter, processed, rows, extras, faults,
                   routed, charged, dropped, cut>>

AlertOperator(r) ==
    /\ At(r, "alert")
    /\ Alert(From(r))
    /\ Finish(r)
    /\ UNCHANGED <<clock, limiter, processed, rows, extras, faults,
                   routed, charged, dropped, cut>>

-----------------------------------------------------------------------------
Fault == faults < MaxFaults /\ faults' = faults + 1

Underway(m) == \E r \in Requests : req[r] # NoRequest /\ Item(r) = m

\* SQLite fails (locked, disk full) outside the router: nothing catches it, Meta
\* gets a 500 and posts the batch again.
DatabaseError(r) ==
    /\ \E step \in {"resolve", "limit", "log", "process", "voice", "image", "route"} : At(r, step)
    /\ Fault
    /\ req' = [req EXCEPT ![r] = NoRequest] /\ loop' = Nobody
    /\ cut' = cut \cup ({Item(r)} \cap Messages)
    /\ UNCHANGED <<clock, limiter, breaker, processed, rows, answered, extras,
                   routed, charged, dropped>>

\* The process dies and comes back.  SQLite keeps what was committed.
Crash ==
    /\ Fault
    /\ \E r \in Requests : req[r] # NoRequest
    /\ cut' = cut \cup {m \in Messages : Underway(m)}
    /\ req' = [r \in Requests |-> NoRequest] /\ loop' = Nobody
    /\ LoseWindows
    /\ UNCHANGED <<clock, breaker, processed, rows, answered, extras,
                   routed, charged, dropped>>

PassTime == Tick /\ UNCHANGED <<breaker, doorVars>>

Step(r) ==
    \/ CheckIdempotency(r) \/ CheckRateLimit(r) \/ CheckLegacyLimit(r) \/ LogMessage(r)
    \/ ProcessRow(r) \/ VoiceProcessed(r) \/ ImageProcessed(r) \/ RouteMessage(r)
    \/ RouterAnswers(r) \/ RouterOnboards(r) \/ TenantOnboarded(r) \/ RouterCalls(r)
    \/ CallSucceeds(r) \/ CallRetried(r) \/ CallFails(r) \/ AlertOperator(r)

Next ==
    \/ \E r \in Requests :
           \/ Step(r) \/ DatabaseError(r)
           \/ \E b \in Batches : Deliver(r, b)
           \/ \E u \in Updates : TelegramUpdate(r, u)
    \/ Crash \/ PassTime

\* asyncio resumes every task whose await has ended, every await ends (timeouts),
\* and Meta goes on posting what it got no 200 for.
Fairness ==
    /\ \A r \in Requests : WF_vars(Step(r))
    /\ \A b \in Batches : WF_vars(b \notin answered /\ \E r \in Requests : Deliver(r, b))

Spec == Init /\ [][Next]_vars /\ Fairness

-----------------------------------------------------------------------------
\* Whatever is redelivered, served twice at a time, cut short, or split between
\* the two ways of telling duplicates apart (the tenant's marks and wam_id) by an
\* onboarding in between, the conversation sees a WhatsApp message at most once.
AtMostOnce == \A m \in Messages : routed[m] <= 1

\* A redelivery never counts against the tenant's limit again (check_idempotency
\* comes before check_rate_limit).
ChargedOnce == \A m \in Messages : charged[m] <= 1

Settled(m) == routed[m] > 0 \/ rows[m] = "ended"

\* Meta's 200 means: every message of the batch reached the conversation or the
\* end of the pipeline, or another request is still on it - unless a limiter
\* dropped it, or an error or a crash cut it short (the webhook's loop).
AnsweredMeansSettled ==
    \A b \in answered : \A i \in DOMAIN b :
        Settled(b[i]) \/ Underway(b[i]) \/ b[i] \in dropped \cup cut

\* The operator hears of each outage once: never again while it lasts, and only
\* a crash between the status and the alert swallows one (CircuitBreaker._alert).
Unsent(t) == Cardinality({r \in Requests : req[r].step = "alert" /\ From(r) = t})
AlertPerOutage ==
    \A t \in Tenants :
        /\ owed[t] >= Unsent(t)
        /\ faults = 0 => owed[t] = Unsent(t)

\* Every delivery is answered in the end, whatever fails on the way.
EveryBatchAnswered == \A b \in Batches : <>(b \in answered)

\* The fate of each message, as MessageFate promises it.
Stage(m) == IF rows[m] # "none" THEN "logged" ELSE IF m \in processed THEN "claimed" ELSE "unseen"
Fate == INSTANCE MessageFate WITH
    stage <- [m \in Messages |-> Stage(m)],
    handled <- [m \in Messages |-> routed[m]]
FateSpec == Fate!Spec
=============================================================================
