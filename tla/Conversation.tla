---------------------------- MODULE Conversation ----------------------------
(***************************************************************************)
(* One owner talking to the bot: Track A's router (track_a/routing.py) with *)
(* its session (track_a/session.py), the retrying HTTP calls it makes       *)
(* (track_a/reliability.py, retry.py, trackb.py), and Track B's /intent     *)
(* endpoint (track_b/main.py) in front of the pending store and of          *)
(* apply_intent (track_b/allowlist.py).  The two programs share no state:   *)
(* "the owner is being asked about r" lives in the session, "r is what a    *)
(* YES releases" in the pending store, and messages that can be lost keep   *)
(* them together.  The pending store is the one-step gate of                *)
(* ConfirmationGate; its own races are RedisPending's subject.              *)
(***************************************************************************)
EXTENDS Naturals, FiniteSets

CONSTANTS
    Handlers,     \* webhook requests Track A may be serving at the same time
    Requests,     \* the changes an owner may ask for, each a parsed intent
    Destructive,  \* those _is_destructive sends through a YES/NO prompt
    Nothing,      \* no change
    SessionTtl,   \* SESSION_TTL_SECONDS, in ticks
    PendingTtl,   \* PENDING_TTL_SECONDS, in ticks
    MaxTurns,     \* CLARIFICATION_MAX_TURNS
    MaxAttempts,  \* CircuitBreaker max_attempts; 1 without a breaker
    Punctual,     \* TRUE: Track B answers within the client's 30 s timeout, so
                  \* a timeout means that the request or the reply was lost
    MaxTime, MaxMsgs, MaxFaults, MaxCrashes  \* bounds

ASSUME ConversationAssumption ==
    /\ Destructive \subseteq Requests
    /\ Nothing \notin Requests
    /\ SessionTtl \in Nat \ {0} /\ PendingTtl \in Nat \ {0}
    /\ MaxTurns \in Nat /\ MaxAttempts \in Nat \ {0}
    /\ Punctual \in BOOLEAN
    /\ {MaxTime, MaxMsgs, MaxFaults, MaxCrashes} \subseteq Nat

VARIABLES
    now,       \* the clock
    session,   \* the owner's conversation_sessions row
    staged,    \* Track B: what a decision resolves
    handler,   \* handler[h]: where the message h serves stands
    requests,  \* POST /intent requests on their way to Track B
    work,      \* released intents Track B is writing to WordPress
    replies,   \* Track B's answers on their way back
    msgs,      \* history: owner messages so far
    faults,    \* history: losses and failures so far
    crashes,   \* history: container restarts so far
    torn,      \* history: a restart hit a router waiting for its staging
    known,     \* history: requests the parser has produced
    prompted,  \* history: the change the last YES/NO prompt sent named
    consent,   \* history: the change the owner's standing YES is about
    writes,    \* history: writes[r], WordPress writes of r
    logged,    \* history: logged[r], change-log rows of r
    told       \* history: told[r], the last outcome the owner was told

trackA == <<session, handler>>
trackB == <<staged, work>>
owner == <<prompted, consent>>
site == <<writes, logged>>
counters == <<now, msgs, faults, crashes, torn, known>>
vars == <<trackA, trackB, requests, replies, owner, site, told, counters>>

NoSession == [mode |-> "none"]
Free == [pc |-> "free"]
Staged(r, t) == [intent |-> r, until |-> t]
NoStaged == Staged(Nothing, 0)

Changing == Requests \cup {Nothing}
Outcomes == {"none", "published", "failed", "cancelled"}
Sessions ==
    [mode : {"clarify"}, turns : 1..MaxTurns, until : Nat]
    \cup [mode : {"confirm"}, intent : Requests, reasks : 0..1, until : Nat]
    \cup [mode : {"echo"}, until : Nat]
    \cup {NoSession}
HandlerStates ==
    [pc : {"parsing"}, msg : 1..MaxMsgs, turns : 0..MaxTurns]
    \cup [pc : {"waiting"}, msg : 1..MaxMsgs, op : {"stage", "yes", "no"},
          intent : Requests, attempt : 1..MaxAttempts]
    \cup {Free}
Calls == [msg : 1..MaxMsgs, attempt : 1..MaxAttempts,
          op : {"stage", "yes", "no"}, intent : Requests]
Replies == [msg : 1..MaxMsgs, attempt : 1..MaxAttempts,
            result : {"staged", "done", "failed"}]

TypeOK ==
    /\ now \in 0..MaxTime
    /\ session \in Sessions
    /\ staged \in [intent : Changing, until : Nat]
    /\ handler \in [Handlers -> HandlerStates]
    /\ requests \subseteq Calls
    /\ work \subseteq [msg : 1..MaxMsgs, attempt : 1..MaxAttempts, intent : Requests]
    /\ replies \subseteq Replies
    /\ msgs \in 0..MaxMsgs /\ faults \in 0..MaxFaults /\ crashes \in 0..MaxCrashes
    /\ torn \in BOOLEAN
    /\ known \subseteq Requests
    /\ prompted \in Changing /\ consent \in Changing
    /\ writes \in [Requests -> Nat] /\ logged \in [Requests -> Nat]
    /\ told \in [Requests -> Outcomes]

Init ==
    /\ now = 0 /\ msgs = 0 /\ faults = 0 /\ crashes = 0 /\ torn = FALSE
    /\ session = NoSession
    /\ staged = NoStaged
    /\ handler = [h \in Handlers |-> Free]
    /\ requests = {} /\ work = {} /\ replies = {}
    /\ known = {}
    /\ prompted = Nothing /\ consent = Nothing
    /\ writes = [r \in Requests |-> 0] /\ logged = [r \in Requests |-> 0]
    /\ told = [r \in Requests |-> "none"]

\* sessions.get: an expired session reads as none.
Current == IF session # NoSession /\ now < session.until THEN session ELSE NoSession
StagedLive == staged.intent # Nothing /\ now < staged.until

\* sessions.set: every write of the session restarts its TTL.
Clarify(turns) == [mode |-> "clarify", turns |-> turns, until |-> now + SessionTtl]
Confirm(r, reasks) == [mode |-> "confirm", intent |-> r, reasks |-> reasks,
                       until |-> now + SessionTtl]
EchoBack == [mode |-> "echo", until |-> now + SessionTtl]

-----------------------------------------------------------------------------
(***************************************************************************)
(* Track A: a message arrives.                                             *)
(***************************************************************************)

Arrives(h) == handler[h] = Free /\ msgs < MaxMsgs /\ msgs' = msgs + 1

Waiting(h, op) == handler[h].pc = "waiting" /\ handler[h].op = op

Call(m, n, op, r) == [msg |-> m, attempt |-> n, op |-> op, intent |-> r]

\* The router calls Track B and waits for the result.
Submit(h, m, op, r) ==
    /\ handler' = [handler EXCEPT ![h] = [pc |-> "waiting", msg |-> m, op |-> op,
                                          intent |-> r, attempt |-> 1]]
    /\ requests' = requests \cup {Call(m, 1, op, r)}

\* A voice note outside a conversation is echoed back first.
HearVoiceNote(h) ==
    /\ Arrives(h)
    /\ Current = NoSession
    /\ session' = EchoBack
    /\ UNCHANGED <<handler, trackB, requests, replies, owner, site, told, now,
                   faults, crashes, torn, known>>

\* The parser is called with the session as it is now.  A reply to the echo
\* clears the session first: YES parses the transcript, anything else itself.
HearRequest(h) ==
    /\ Arrives(h)
    /\ Current.mode \in {"none", "clarify", "echo"}
    /\ session' = IF Current.mode = "clarify" THEN Current ELSE NoSession
    /\ handler' = [handler EXCEPT ![h] =
           [pc |-> "parsing", msg |-> msgs',
            turns |-> IF Current.mode = "clarify" THEN Current.turns ELSE 0]]
    /\ UNCHANGED <<trackB, requests, replies, owner, site, told, now, faults,
                   crashes, torn, known>>

\* YES to the prompt: resolve what is staged.
AnswerYes(h) ==
    /\ Arrives(h)
    /\ Current.mode = "confirm"
    /\ Submit(h, msgs', "yes", session.intent)
    /\ consent' = prompted
    /\ UNCHANGED <<session, trackB, replies, prompted, site, told, now,
                   faults, crashes, torn, known>>

\* Mutant of Decline: a second unclear reply is taken for a YES.
DeclineSubmits(h) ==
    /\ Arrives(h)
    /\ Current.mode = "confirm"
    /\ Submit(h, msgs', IF session.reasks = 1 THEN "yes" ELSE "no", session.intent)
    /\ consent' = Nothing
    /\ UNCHANGED <<session, trackB, replies, prompted, site, told, now, faults,
                   crashes, torn, known>>

\* NO, or a second reply that is neither: relay the discard.
Decline(h) ==
    /\ Arrives(h)
    /\ Current.mode = "confirm"
    /\ Submit(h, msgs', "no", session.intent)
    /\ consent' = Nothing
    /\ UNCHANGED <<session, trackB, replies, prompted, site, told, now, faults,
                   crashes, torn, known>>

\* Mutant of AskAgain: asks again as often as it takes.
AskAgainAlways(h) ==
    /\ Arrives(h)
    /\ Current.mode = "confirm"
    /\ session' = Confirm(session.intent, session.reasks + 1)
    /\ UNCHANGED <<handler, trackB, requests, replies, owner, site, told, now,
                   faults, crashes, torn, known>>

\* The first reply that is neither YES nor NO: ask again, once.
AskAgain(h) ==
    /\ Arrives(h)
    /\ Current.mode = "confirm" /\ Current.reasks = 0
    /\ session' = Confirm(session.intent, 1)
    /\ UNCHANGED <<handler, trackB, requests, replies, owner, site, told, now,
                   faults, crashes, torn, known>>

-----------------------------------------------------------------------------
(***************************************************************************)
(* Track A: the parser has answered.                                       *)
(***************************************************************************)

Parsing(h) == handler[h].pc = "parsing"

\* Not understood: one more clarification turn, or give up and start over.
RouteVague(h) ==
    /\ Parsing(h)
    /\ session' = IF handler[h].turns + 1 > MaxTurns THEN NoSession
                  ELSE Clarify(handler[h].turns + 1)
    /\ handler' = [handler EXCEPT ![h] = Free]
    /\ UNCHANGED <<trackB, requests, replies, owner, site, told, counters>>

\* A destructive change: the session says "awaiting confirmation" BEFORE the
\* change is staged; the prompt goes out after.
RouteDestructive(h, r) ==
    /\ Parsing(h)
    /\ r \in Destructive \ known
    /\ known' = known \cup {r}
    /\ session' = Confirm(r, 0)
    /\ Submit(h, handler[h].msg, "stage", r)
    /\ UNCHANGED <<trackB, replies, owner, site, told, now, msgs, faults, crashes, torn>>

\* Any other change: no prompt, no session, no staging; the very call that
\* resolves a staged change is meant to execute it.
RouteRoutine(h, r) ==
    /\ Parsing(h)
    /\ r \in Requests \ (Destructive \cup known)
    /\ known' = known \cup {r}
    /\ Submit(h, handler[h].msg, "yes", r)
    /\ UNCHANGED <<session, trackB, replies, owner, site, told, now, msgs, faults,
                   crashes, torn>>

-----------------------------------------------------------------------------
(***************************************************************************)
(* Track B: POST /intent.                                                  *)
(***************************************************************************)

Reply(c, result) == [msg |-> c.msg, attempt |-> c.attempt, result |-> result]

Stage(c) ==
    /\ c.op = "stage"
    /\ requests' = requests \ {c}
    /\ staged' = Staged(c.intent, now + PendingTtl)
    /\ replies' = replies \cup {Reply(c, "staged")}
    /\ UNCHANGED <<trackA, work, owner, site, told, counters>>

\* Mutant of ResolveYes: "nothing pending" counts as already done.
ResolveYesLenient(c) ==
    /\ c.op = "yes"
    /\ requests' = requests \ {c}
    /\ IF StagedLive
       THEN /\ work' = work \cup {[msg |-> c.msg, attempt |-> c.attempt,
                                   intent |-> staged.intent]}
            /\ UNCHANGED replies
       ELSE /\ replies' = replies \cup {Reply(c, "done")}
            /\ UNCHANGED work
    /\ staged' = NoStaged
    /\ UNCHANGED <<trackA, owner, site, told, counters>>

\* decision=yes releases whatever is staged; the intent in the body of the
\* request is only validated.
ResolveYes(c) ==
    /\ c.op = "yes"
    /\ requests' = requests \ {c}
    /\ IF StagedLive
       THEN /\ work' = work \cup {[msg |-> c.msg, attempt |-> c.attempt,
                                   intent |-> staged.intent]}
            /\ UNCHANGED replies
       ELSE /\ replies' = replies \cup {Reply(c, "failed")}
            /\ UNCHANGED work
    /\ staged' = NoStaged
    /\ UNCHANGED <<trackA, owner, site, told, counters>>

ResolveNo(c) ==
    /\ c.op = "no"
    /\ requests' = requests \ {c}
    /\ staged' = NoStaged
    /\ replies' = replies \cup {Reply(c, IF StagedLive THEN "done" ELSE "failed")}
    /\ UNCHANGED <<trackA, work, owner, site, told, counters>>

Finish(w, result) ==
    /\ work' = work \ {w}
    /\ replies' = replies \cup {Reply(w, result)}

\* Mutant of FinishPublished: stages the intent again whatever the result.
FinishRestages(w) ==
    /\ Finish(w, "done")
    /\ writes' = [writes EXCEPT ![w.intent] = @ + 1]
    /\ logged' = [logged EXCEPT ![w.intent] = @ + 1]
    /\ staged' = Staged(w.intent, now + PendingTtl)
    /\ UNCHANGED <<trackA, requests, owner, told, counters>>

\* The write went through and was logged: nothing is staged again.
FinishPublished(w) ==
    /\ Finish(w, "done")
    /\ writes' = [writes EXCEPT ![w.intent] = @ + 1]
    /\ logged' = [logged EXCEPT ![w.intent] = @ + 1]
    /\ UNCHANGED <<trackA, staged, requests, owner, told, counters>>

\* A failed result stages the intent again, with a fresh window, best effort.
Restage(w, ok) == staged' = IF ok THEN Staged(w.intent, now + PendingTtl) ELSE staged

Fault(n) == faults + n <= MaxFaults /\ faults' = faults + n

\* The gate or WordPress refused the write.
FinishRefused(w, restaged) ==
    /\ Fault(IF restaged THEN 1 ELSE 2)
    /\ Finish(w, "failed")
    /\ Restage(w, restaged)
    /\ UNCHANGED <<trackA, requests, owner, site, told, now, msgs, crashes, torn, known>>

\* The write went through, its change-log row did not: reported as failed.
FinishUnlogged(w, restaged) ==
    /\ Fault(IF restaged THEN 1 ELSE 2)
    /\ Finish(w, "failed")
    /\ Restage(w, restaged)
    /\ writes' = [writes EXCEPT ![w.intent] = @ + 1]
    /\ UNCHANGED <<trackA, requests, owner, logged, told, now, msgs, crashes, torn, known>>

-----------------------------------------------------------------------------
(***************************************************************************)
(* The network and the clock.                                              *)
(***************************************************************************)

LoseRequest(c) ==
    /\ Fault(1)
    /\ requests' = requests \ {c}
    /\ UNCHANGED <<trackA, trackB, replies, owner, site, told, now, msgs, crashes,
                   torn, known>>

LoseReply(p) ==
    /\ Fault(1)
    /\ replies' = replies \ {p}
    /\ UNCHANGED <<trackA, trackB, requests, owner, site, told, now, msgs, crashes,
                   torn, known>>

Tick ==
    /\ now < MaxTime
    /\ now' = now + 1
    /\ UNCHANGED <<trackA, trackB, requests, replies, owner, site, told, msgs,
                   faults, crashes, torn, known>>

\* start.sh runs both services in one container: everything in memory is gone,
\* the session row (SQLite) and the staged change (Redis) stay, and a write
\* under way has reached WordPress or not.
Restart ==
    /\ crashes < MaxCrashes
    /\ \E h \in Handlers : handler[h] # Free
    /\ crashes' = crashes + 1
    /\ torn' = (torn \/ \E h \in Handlers : Waiting(h, "stage"))
    /\ handler' = [h \in Handlers |-> Free]
    /\ requests' = {} /\ work' = {} /\ replies' = {}
    /\ \E done \in SUBSET work :
           writes' = [r \in Requests |->
               writes[r] + Cardinality({w \in done : w.intent = r})]
    /\ UNCHANGED <<session, staged, owner, logged, told, now, msgs, faults, known>>

-----------------------------------------------------------------------------
(***************************************************************************)
(* Track A: Track B has answered, or not.                                  *)
(***************************************************************************)

Mine(h, x) == x.msg = handler[h].msg /\ x.attempt = handler[h].attempt

Receive(h, op, p) ==
    /\ Waiting(h, op) /\ Mine(h, p)
    /\ replies' = replies \ {p}
    /\ handler' = [handler EXCEPT ![h] = Free]

Tell(r, outcome) == told' = [told EXCEPT ![r] = outcome]

\* Staged: now the prompt goes out.
StageAnswered(h, p) ==
    /\ Receive(h, "stage", p)
    /\ prompted' = handler[h].intent
    /\ consent' = Nothing
    /\ UNCHANGED <<session, trackB, requests, site, told, counters>>

\* Success ends the conversation; a failure keeps the session ("Want to try
\* again?"), so that another YES or a NO can follow.
YesAnswered(h, p) ==
    /\ Receive(h, "yes", p)
    /\ session' = IF p.result = "done" THEN NoSession ELSE session
    /\ Tell(handler[h].intent, IF p.result = "done" THEN "published" ELSE "failed")
    /\ UNCHANGED <<trackB, requests, owner, site, counters>>

\* A discard is "cancelled" to the owner whatever Track B says.
NoAnswered(h, p) ==
    /\ Receive(h, "no", p)
    /\ session' = NoSession
    /\ Tell(handler[h].intent, "cancelled")
    /\ UNCHANGED <<trackB, requests, owner, site, counters>>

\* The attempt raised: a timeout, or a connection that broke.
AttemptFailed(h) ==
    /\ handler[h].pc = "waiting"
    /\ Punctual => \A x \in requests \cup work \cup replies : ~Mine(h, x)

Retry(h) ==
    /\ AttemptFailed(h)
    /\ handler[h].attempt < MaxAttempts
    /\ handler' = [handler EXCEPT ![h].attempt = @ + 1]
    /\ requests' = requests \cup
           {Call(handler[h].msg, handler[h].attempt + 1, handler[h].op, handler[h].intent)}
    /\ UNCHANGED <<session, trackB, replies, owner, site, told, counters>>

\* Mutants of GiveUp: a failed staging keeps the session; a failed discard keeps
\* it; one attempt too many is awaited.
GiveUpAfterStaging(h) ==
    /\ AttemptFailed(h)
    /\ handler[h].attempt = MaxAttempts
    /\ handler' = [handler EXCEPT ![h] = Free]
    /\ session' = IF handler[h].op \in {"stage", "yes"} THEN session ELSE NoSession
    /\ Tell(handler[h].intent, IF handler[h].op = "no" THEN "cancelled" ELSE "failed")
    /\ UNCHANGED <<trackB, requests, replies, owner, site, counters>>

GiveUpAfterNo(h) ==
    /\ AttemptFailed(h)
    /\ handler[h].attempt = MaxAttempts
    /\ handler' = [handler EXCEPT ![h] = Free]
    /\ session' = IF handler[h].op \in {"yes", "no"} THEN session ELSE NoSession
    /\ Tell(handler[h].intent, IF handler[h].op = "no" THEN "cancelled" ELSE "failed")
    /\ UNCHANGED <<trackB, requests, replies, owner, site, counters>>

GiveUpTooLate(h) ==
    /\ AttemptFailed(h)
    /\ handler[h].attempt > MaxAttempts
    /\ handler' = [handler EXCEPT ![h] = Free]
    /\ session' = IF handler[h].op = "yes" THEN session ELSE NoSession
    /\ Tell(handler[h].intent, IF handler[h].op = "no" THEN "cancelled" ELSE "failed")
    /\ UNCHANGED <<trackB, requests, replies, owner, site, counters>>

\* Out of attempts.  Staging and discarding clear the session, a YES keeps it.
GiveUp(h) ==
    /\ AttemptFailed(h)
    /\ handler[h].attempt = MaxAttempts
    /\ handler' = [handler EXCEPT ![h] = Free]
    /\ session' = IF handler[h].op = "yes" THEN session ELSE NoSession
    /\ Tell(handler[h].intent, IF handler[h].op = "no" THEN "cancelled" ELSE "failed")
    /\ UNCHANGED <<trackB, requests, replies, owner, site, counters>>

-----------------------------------------------------------------------------

Hear(h) == HearVoiceNote(h) \/ HearRequest(h) \/ AnswerYes(h) \/ Decline(h) \/ AskAgain(h)
Route(h) == RouteVague(h) \/ \E r \in Requests : RouteDestructive(h, r) \/ RouteRoutine(h, r)
Serve(c) == Stage(c) \/ ResolveYes(c) \/ ResolveNo(c)
Write(w) == FinishPublished(w)
            \/ \E ok \in BOOLEAN : FinishRefused(w, ok) \/ FinishUnlogged(w, ok)
Hears(h) == \E p \in replies : StageAnswered(h, p) \/ YesAnswered(h, p) \/ NoAnswered(h, p)

Next ==
    \/ \E h \in Handlers : Hear(h) \/ Route(h) \/ Hears(h) \/ Retry(h) \/ GiveUp(h)
    \/ \E c \in requests : Serve(c) \/ LoseRequest(c)
    \/ \E w \in work : Write(w)
    \/ \E p \in replies : LoseReply(p)
    \/ Tick
    \/ Restart

\* The parser, Track B, WordPress and the HTTP client's timeout go on; nobody
\* has to send a message, and nothing has to fail.
Fairness ==
    /\ \A h \in Handlers : WF_vars(Route(h)) /\ WF_vars(Hears(h))
                           /\ WF_vars(Retry(h) \/ GiveUp(h))
    /\ WF_vars(\E c \in requests : Serve(c))
    /\ WF_vars(\E w \in work : Write(w))

Spec == Init /\ [][Next]_vars
FairSpec == Spec /\ Fairness

-----------------------------------------------------------------------------
(***************************************************************************)
(* Properties.                                                             *)
(***************************************************************************)

\* Two things break the bond between the owner's conversation and the staged
\* change: a restart between the session's "awaiting confirmation" and the
\* staging it announces, and a routine change.  Where neither happened, losses,
\* failures, expiry and restarts elsewhere do not break it: the next four.
Bonded == ~torn /\ known \subseteq Destructive

\* WordPress is only written with the change the owner's standing YES is about:
\* never an older one that was cancelled, replaced or given up (pending.py:10,
\* "the only release valve").
ConsentedWrites ==
    [][Bonded => \A r \in Requests : writes'[r] > writes[r] => consent = r]_vars

\* "a NO cancels without any write call" (routing.py:272): once the owner was
\* told that r is cancelled, r is not written any more.
NoMeansNo ==
    [][\A r \in Requests : told[r] = "cancelled" => writes'[r] = writes[r]]_vars

CancelIsFinal ==
    [][Bonded => \A r \in Requests :
           told[r] = "cancelled" => writes'[r] = writes[r]]_vars

\* Between two messages, what the owner is being asked about is what a YES
\* would release, if anything still is.
PromptMatchesStaged ==
    (/\ Bonded
     /\ \A h \in Handlers : handler[h] = Free
     /\ Current.mode = "confirm" /\ StagedLive) => staged.intent = session.intent

\* "never a false done" (composer.py:209): an owner who was told that r is live
\* has r written and in the change log, so that UNDO can find it.
NeverFalseDone ==
    \A r \in Requests : told[r] = "published" => logged[r] = 1 /\ writes[r] >= 1

TruthfulSuccess == Bonded => NeverFalseDone

\* A write that was logged is never repeated, by whatever retry of Track A's or
\* of the owner's.
AppliedOnce ==
    [][\A r \in Requests : logged[r] > 0 => writes'[r] = writes[r]]_vars

\* Every message is answered, or dies with the process: no call waits for ever.
EveryMessageAnswered == \A h \in Handlers : handler[h] # Free ~> handler[h] = Free

\* "nothing was published" (locales/en.json:8-9): what the owner is told when a
\* YES fails.
FailedMeansUnwritten == \A r \in Requests : told[r] = "failed" => writes[r] = 0

\* "The intent is complete and safe — execute immediately" (routing.py:734):
\* when nothing fails, a routine change is not reported as failed.
RoutineExecuted ==
    \A r \in Requests \ Destructive : faults = 0 => told[r] # "failed"
=============================================================================
