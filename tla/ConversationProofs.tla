------------------------- MODULE ConversationProofs -------------------------
(***************************************************************************)
(* Proofs about Conversation, for every set of changes, every TTL and      *)
(* every bound.  The types hold with any handlers.  The rest is proved as  *)
(* the runs check it: her messages come one after another (one handler)    *)
(* and Track B answers in time (Punctual).  Then at most one exchange with *)
(* Track B is open, and everything follows from what can be open when.     *)
(***************************************************************************)
EXTENDS Conversation, FiniteSetTheorems, TLAPS

-----------------------------------------------------------------------------
(* Types *)

\* What there is to write is finite: a restart counts it.
Typed == TypeOK /\ IsFiniteSet(work)

LEMMA SessionForms ==
    ASSUME TypeOK
    PROVE  /\ NoSession \in Sessions /\ EchoBack \in Sessions /\ Current \in Sessions
           /\ \A t \in 1..MaxTurns : Clarify(t) \in Sessions
           /\ \A r \in Requests, k \in 0..1 : Confirm(r, k) \in Sessions
           /\ session.mode = "confirm" => session.intent \in Requests
           /\ Current.mode = "clarify" => Current.turns \in 1..MaxTurns
           /\ Current = session \/ Current = NoSession
           /\ NoSession.mode = "none"
<1> USE ConversationAssumption
<1>1. now + SessionTtl \in Nat
  BY DEF TypeOK
<1>2. NoSession \in Sessions /\ EchoBack \in Sessions /\ NoSession.mode = "none"
  BY <1>1 DEF NoSession, EchoBack, Sessions
<1>3. Current = session \/ Current = NoSession
  BY DEF Current
<1>4. Current \in Sessions
  BY <1>2, <1>3 DEF TypeOK
<1>5. \A t \in 1..MaxTurns : Clarify(t) \in Sessions
  BY <1>1 DEF Clarify, Sessions
<1>6. \A r \in Requests, k \in 0..1 : Confirm(r, k) \in Sessions
  BY <1>1 DEF Confirm, Sessions
<1>7. session.mode = "confirm" => session.intent \in Requests
  BY DEF TypeOK, Sessions, NoSession
<1>8. Current.mode = "clarify" => Current.turns \in 1..MaxTurns
  BY <1>4 DEF Sessions, NoSession
<1> QED
  BY <1>2, <1>3, <1>4, <1>5, <1>6, <1>7, <1>8

LEMMA HandlerForms ==
    ASSUME TypeOK
    PROVE  /\ Free \in HandlerStates /\ Free.pc = "free"
           /\ \A m \in 1..MaxMsgs, t \in 0..MaxTurns :
                  [pc |-> "parsing", msg |-> m, turns |-> t] \in HandlerStates
           /\ \A m \in 1..MaxMsgs, op \in {"stage", "yes", "no"}, r \in Requests,
                 n \in 1..MaxAttempts :
                  [pc |-> "waiting", msg |-> m, op |-> op, intent |-> r, attempt |-> n]
                      \in HandlerStates
           /\ \A h \in Handlers :
                  /\ handler[h] \in HandlerStates
                  /\ handler[h].pc = "parsing" =>
                         handler[h].msg \in 1..MaxMsgs /\ handler[h].turns \in 0..MaxTurns
                  /\ handler[h].pc = "waiting" =>
                         /\ handler[h].msg \in 1..MaxMsgs /\ handler[h].intent \in Requests
                         /\ handler[h].op \in {"stage", "yes", "no"}
                         /\ handler[h].attempt \in 1..MaxAttempts
                         /\ handler[h] = [pc |-> "waiting", msg |-> handler[h].msg,
                                          op |-> handler[h].op, intent |-> handler[h].intent,
                                          attempt |-> handler[h].attempt]
<1>1. Free \in HandlerStates /\ Free.pc = "free"
  BY DEF Free, HandlerStates
<1>2. \A m \in 1..MaxMsgs, t \in 0..MaxTurns :
          [pc |-> "parsing", msg |-> m, turns |-> t] \in HandlerStates
  BY DEF HandlerStates
<1>3. \A m \in 1..MaxMsgs, op \in {"stage", "yes", "no"}, r \in Requests, n \in 1..MaxAttempts :
          [pc |-> "waiting", msg |-> m, op |-> op, intent |-> r, attempt |-> n] \in HandlerStates
  BY DEF HandlerStates
<1>4. ASSUME NEW h \in Handlers
      PROVE  /\ handler[h] \in HandlerStates
             /\ handler[h].pc = "parsing" =>
                    handler[h].msg \in 1..MaxMsgs /\ handler[h].turns \in 0..MaxTurns
             /\ handler[h].pc = "waiting" =>
                    /\ handler[h].msg \in 1..MaxMsgs /\ handler[h].intent \in Requests
                    /\ handler[h].op \in {"stage", "yes", "no"}
                    /\ handler[h].attempt \in 1..MaxAttempts
                    /\ handler[h] = [pc |-> "waiting", msg |-> handler[h].msg,
                                     op |-> handler[h].op, intent |-> handler[h].intent,
                                     attempt |-> handler[h].attempt]
  <2>1. handler[h] \in HandlerStates
    BY DEF TypeOK
  <2> QED
    BY <2>1 DEF HandlerStates, Free
<1> QED
  BY <1>1, <1>2, <1>3, <1>4

\* The router sends a request of a change and waits.
LEMMA SubmitTyped ==
    ASSUME Typed, NEW h \in Handlers, NEW m \in 1..MaxMsgs,
           NEW op \in {"stage", "yes", "no"}, NEW r \in Requests, Submit(h, m, op, r)
    PROVE  handler' \in [Handlers -> HandlerStates] /\ requests' \subseteq Calls
<1>1. 1 \in 1..MaxAttempts
  BY ConversationAssumption
<1>2. handler' \in [Handlers -> HandlerStates]
  BY <1>1, HandlerForms DEF Submit, Typed, TypeOK
<1>3. Call(m, 1, op, r) \in Calls
  BY <1>1 DEF Call, Calls
<1> QED
  BY <1>2, <1>3 DEF Submit, Typed, TypeOK

LEMMA HearTyped ==
    ASSUME Typed, NEW h \in Handlers, Hear(h)
    PROVE  Typed'
<1> USE ConversationAssumption
<1>1. msgs' \in 0..MaxMsgs /\ msgs' \in 1..MaxMsgs
  BY DEF Hear, HearVoiceNote, HearRequest, AnswerYes, Decline, AskAgain, Arrives, Typed, TypeOK
<1>2. CASE HearVoiceNote(h)
  <2>1. session' \in Sessions
    BY <1>2, SessionForms DEF HearVoiceNote, Typed
  <2> QED
    BY <1>1, <1>2, <2>1 DEF HearVoiceNote, Typed, TypeOK, trackB, owner, site
<1>3. CASE HearRequest(h)
  <2>1. session' \in Sessions
    BY <1>3, SessionForms DEF HearRequest, Typed
  <2>2. handler' \in [Handlers -> HandlerStates]
    <3>1. (IF Current.mode = "clarify" THEN Current.turns ELSE 0) \in 0..MaxTurns
      BY SessionForms DEF Typed
    <3> QED
      BY <1>1, <1>3, <3>1, HandlerForms DEF HearRequest, Typed, TypeOK
  <2> QED
    BY <1>1, <1>3, <2>1, <2>2 DEF HearRequest, Typed, TypeOK, trackB, owner, site
<1>4. CASE AnswerYes(h) \/ Decline(h)
  <2>1. session.intent \in Requests
    BY <1>4, SessionForms DEF AnswerYes, Decline, Typed
  <2>2. handler' \in [Handlers -> HandlerStates] /\ requests' \subseteq Calls
    BY <1>1, <1>4, <2>1, SubmitTyped DEF AnswerYes, Decline
  <2>3. consent' \in Changing
    BY <1>4 DEF AnswerYes, Decline, Typed, TypeOK, Changing
  <2> QED
    BY <1>1, <1>4, <2>2, <2>3 DEF AnswerYes, Decline, Typed, TypeOK, trackB, site
<1>5. CASE AskAgain(h)
  <2>1. session.intent \in Requests
    BY <1>5, SessionForms DEF AskAgain, Typed
  <2>2. session' \in Sessions
    BY <1>5, <2>1, SessionForms DEF AskAgain, Typed
  <2> QED
    BY <1>1, <1>5, <2>2 DEF AskAgain, Typed, TypeOK, trackB, owner, site
<1> QED
  BY <1>2, <1>3, <1>4, <1>5 DEF Hear

LEMMA RouteTyped ==
    ASSUME Typed, NEW h \in Handlers, Route(h)
    PROVE  Typed'
<1> USE ConversationAssumption
<1>1. handler[h].msg \in 1..MaxMsgs /\ handler[h].turns \in 0..MaxTurns
  BY HandlerForms DEF Route, RouteVague, RouteDestructive, RouteRoutine, Parsing, Typed
<1>2. CASE RouteVague(h)
  <2>1. session' \in Sessions
    BY <1>1, <1>2, SessionForms DEF RouteVague, Typed
  <2>2. handler' \in [Handlers -> HandlerStates]
    BY <1>2, HandlerForms DEF RouteVague, Typed, TypeOK
  <2> QED
    BY <1>2, <2>1, <2>2 DEF RouteVague, Typed, TypeOK, trackB, owner, site, counters
<1>3. ASSUME NEW r \in Requests, RouteDestructive(h, r)
      PROVE  Typed'
  <2>1. session' \in Sessions
    BY <1>3, SessionForms DEF RouteDestructive, Typed
  <2>2. handler' \in [Handlers -> HandlerStates] /\ requests' \subseteq Calls
    BY <1>1, <1>3, SubmitTyped DEF RouteDestructive
  <2> QED
    BY <1>3, <2>1, <2>2 DEF RouteDestructive, Typed, TypeOK, trackB, owner, site
<1>4. ASSUME NEW r \in Requests, RouteRoutine(h, r)
      PROVE  Typed'
  <2>1. handler' \in [Handlers -> HandlerStates] /\ requests' \subseteq Calls
    BY <1>1, <1>4, SubmitTyped DEF RouteRoutine
  <2> QED
    BY <1>4, <2>1 DEF RouteRoutine, Typed, TypeOK, trackB, owner, site
<1> QED
  BY <1>2, <1>3, <1>4 DEF Route

LEMMA ServeTyped ==
    ASSUME Typed, NEW c \in requests, Serve(c) \/ LoseRequest(c)
    PROVE  Typed'
<1> USE ConversationAssumption
<1>1. /\ c.msg \in 1..MaxMsgs /\ c.attempt \in 1..MaxAttempts /\ c.intent \in Requests
      /\ now + PendingTtl \in Nat
  BY DEF Typed, TypeOK, Calls
<1>2. \A result \in {"staged", "done", "failed"} : Reply(c, result) \in Replies
  BY <1>1 DEF Reply, Replies
<1>3. NoStaged \in [intent : Changing, until : Nat]
  BY DEF NoStaged, Staged, Changing
<1>4. CASE Stage(c)
  <2>1. staged' \in [intent : Changing, until : Nat] /\ replies' \subseteq Replies
    BY <1>1, <1>2, <1>4 DEF Stage, Staged, Changing, Typed, TypeOK
  <2> QED
    BY <1>4, <2>1 DEF Stage, trackA, owner, site, counters, Typed, TypeOK
<1>5. CASE ResolveYes(c)
  <2>1. replies' \subseteq Replies
    BY <1>2, <1>5 DEF ResolveYes, Typed, TypeOK
  <2>2. CASE StagedLive
    <3> DEFINE w == [msg |-> c.msg, attempt |-> c.attempt, intent |-> staged.intent]
    <3>1. staged.intent \in Requests
      BY <2>2 DEF StagedLive, Typed, TypeOK, Changing
    <3>2. w \in [msg : 1..MaxMsgs, attempt : 1..MaxAttempts, intent : Requests]
      BY <1>1, <3>1
    <3>3. work' = work \cup {w}
      BY <1>5, <2>2 DEF ResolveYes
    <3> HIDE DEF w
    <3>4. IsFiniteSet(work')
      BY <3>3, FS_AddElement DEF Typed
    <3> QED
      BY <1>3, <1>5, <2>1, <3>2, <3>3, <3>4 DEF ResolveYes, trackA, owner, site, counters, Typed, TypeOK
  <2>3. CASE ~StagedLive
    BY <1>3, <1>5, <2>1, <2>3 DEF ResolveYes, trackA, owner, site, counters, Typed, TypeOK
  <2> QED
    BY <2>2, <2>3
<1>6. CASE ResolveNo(c)
  <2>1. replies' \subseteq Replies
    BY <1>2, <1>6 DEF ResolveNo, Typed, TypeOK
  <2> QED
    BY <1>3, <1>6, <2>1 DEF ResolveNo, trackA, owner, site, counters, Typed, TypeOK
<1>7. CASE LoseRequest(c)
  BY <1>7 DEF LoseRequest, Fault, trackA, trackB, owner, site, Typed, TypeOK
<1> QED
  BY <1>4, <1>5, <1>6, <1>7 DEF Serve

\* A write has ended: one write less is under way, and its answer under way instead.
LEMMA FinishTyped ==
    ASSUME Typed, NEW w \in work, NEW result \in {"done", "failed"}, Finish(w, result)
    PROVE  /\ work' \subseteq work /\ IsFiniteSet(work')
           /\ replies' \subseteq Replies
           /\ \A ok \in BOOLEAN : Restage(w, ok) => staged' \in [intent : Changing, until : Nat]
           /\ w.intent \in Requests
<1> USE ConversationAssumption
<1>1. w.msg \in 1..MaxMsgs /\ w.attempt \in 1..MaxAttempts /\ w.intent \in Requests
  BY DEF Typed, TypeOK
<1>2. Reply(w, result) \in Replies
  BY <1>1 DEF Reply, Replies
<1>3. work' \subseteq work /\ replies' \subseteq Replies
  BY <1>2 DEF Finish, Typed, TypeOK
<1>4. IsFiniteSet(work')
  BY <1>3, FS_Subset DEF Typed
<1>5. \A ok \in BOOLEAN : Restage(w, ok) => staged' \in [intent : Changing, until : Nat]
  BY <1>1 DEF Restage, Staged, Changing, Typed, TypeOK
<1> QED
  BY <1>1, <1>3, <1>4, <1>5

LEMMA WriteTyped ==
    ASSUME Typed, NEW w \in work, Write(w)
    PROVE  Typed'
<1> USE ConversationAssumption
<1>1. CASE FinishPublished(w)
  <2>1. work' \subseteq work /\ IsFiniteSet(work') /\ replies' \subseteq Replies
    BY <1>1, FinishTyped DEF FinishPublished
  <2>2. writes' \in [Requests -> Nat] /\ logged' \in [Requests -> Nat]
    BY <1>1 DEF FinishPublished, Typed, TypeOK
  <2> QED
    BY <1>1, <2>1, <2>2 DEF FinishPublished, trackA, owner, counters, Typed, TypeOK
<1>2. ASSUME NEW ok \in BOOLEAN, FinishRefused(w, ok)
      PROVE  Typed'
  <2>1. /\ work' \subseteq work /\ IsFiniteSet(work') /\ replies' \subseteq Replies
        /\ staged' \in [intent : Changing, until : Nat]
    BY <1>2, FinishTyped DEF FinishRefused
  <2> QED
    BY <1>2, <2>1 DEF FinishRefused, Fault, trackA, owner, site, Typed, TypeOK
<1>3. ASSUME NEW ok \in BOOLEAN, FinishUnlogged(w, ok)
      PROVE  Typed'
  <2>1. /\ work' \subseteq work /\ IsFiniteSet(work') /\ replies' \subseteq Replies
        /\ staged' \in [intent : Changing, until : Nat]
    BY <1>3, FinishTyped DEF FinishUnlogged
  <2>2. writes' \in [Requests -> Nat]
    BY <1>3 DEF FinishUnlogged, Typed, TypeOK
  <2> QED
    BY <1>3, <2>1, <2>2 DEF FinishUnlogged, Fault, trackA, owner, Typed, TypeOK
<1> QED
  BY <1>1, <1>2, <1>3 DEF Write

LEMMA AnswerTyped ==
    ASSUME Typed, NEW h \in Handlers, Hears(h) \/ Retry(h) \/ GiveUp(h)
    PROVE  Typed'
<1> USE ConversationAssumption
<1>1. handler[h].intent \in Requests
  BY HandlerForms DEF Hears, StageAnswered, YesAnswered, NoAnswered, Receive, Waiting,
     Retry, GiveUp, AttemptFailed, Typed
<1>2. \A o \in Outcomes : [told EXCEPT ![handler[h].intent] = o] \in [Requests -> Outcomes]
  BY <1>1 DEF Typed, TypeOK
<1>3. [handler EXCEPT ![h] = Free] \in [Handlers -> HandlerStates]
  BY HandlerForms DEF Typed, TypeOK
<1>4. NoSession \in Sessions /\ session \in Sessions
  BY SessionForms DEF Typed, TypeOK
<1>5. ASSUME NEW p \in replies, StageAnswered(h, p)
      PROVE  Typed'
  BY <1>1, <1>3, <1>5 DEF StageAnswered, Receive, Changing, trackB, site, counters, Typed, TypeOK
<1>6. ASSUME NEW p \in replies, YesAnswered(h, p) \/ NoAnswered(h, p)
      PROVE  Typed'
  <2>1. told' \in [Requests -> Outcomes]
    BY <1>2, <1>6 DEF YesAnswered, NoAnswered, Tell, Outcomes
  <2>2. session' \in Sessions
    BY <1>4, <1>6 DEF YesAnswered, NoAnswered
  <2> QED
    BY <1>3, <1>6, <2>1, <2>2 DEF YesAnswered, NoAnswered, Receive, trackB, owner, site, counters, Typed, TypeOK
<1>7. CASE Retry(h)
  <2>1. /\ handler[h].msg \in 1..MaxMsgs /\ handler[h].op \in {"stage", "yes", "no"}
        /\ handler[h].attempt + 1 \in 1..MaxAttempts
    <3>1. handler[h].pc = "waiting" /\ handler[h].attempt < MaxAttempts
      BY <1>7 DEF Retry, AttemptFailed
    <3>2. /\ handler[h].msg \in 1..MaxMsgs /\ handler[h].op \in {"stage", "yes", "no"}
          /\ handler[h].attempt \in 1..MaxAttempts
      BY <3>1, HandlerForms DEF Typed
    <3> QED
      BY <3>1, <3>2
  <2>2. handler' \in [Handlers -> HandlerStates]
    <3>1. [handler[h] EXCEPT !.attempt = @ + 1] =
              [pc |-> "waiting", msg |-> handler[h].msg, op |-> handler[h].op,
               intent |-> handler[h].intent, attempt |-> handler[h].attempt + 1]
      <4>1. \A m, op, r, n, k :
                [[pc |-> "waiting", msg |-> m, op |-> op, intent |-> r, attempt |-> n]
                     EXCEPT !.attempt = k] =
                [pc |-> "waiting", msg |-> m, op |-> op, intent |-> r, attempt |-> k]
        OBVIOUS
      <4>2. handler[h] = [pc |-> "waiting", msg |-> handler[h].msg, op |-> handler[h].op,
                          intent |-> handler[h].intent, attempt |-> handler[h].attempt]
        BY <1>7, HandlerForms DEF Retry, AttemptFailed, Typed
      <4> QED
        BY <4>1, <4>2
    <3>2. [handler[h] EXCEPT !.attempt = @ + 1] \in HandlerStates
      BY <1>1, <2>1, <3>1, HandlerForms DEF Typed
    <3> QED
      BY <1>7, <3>2 DEF Retry, Typed, TypeOK
  <2>3. requests' \subseteq Calls
    BY <1>1, <1>7, <2>1 DEF Retry, Call, Calls, Typed, TypeOK
  <2> QED
    BY <1>7, <2>2, <2>3 DEF Retry, trackB, owner, site, counters, Typed, TypeOK
<1>8. CASE GiveUp(h)
  <2>1. told' \in [Requests -> Outcomes]
    BY <1>2, <1>8 DEF GiveUp, Tell, Outcomes
  <2>2. session' \in Sessions
    BY <1>4, <1>8 DEF GiveUp
  <2> QED
    BY <1>3, <1>8, <2>1, <2>2 DEF GiveUp, trackB, owner, site, counters, Typed, TypeOK
<1> QED
  BY <1>5, <1>6, <1>7, <1>8 DEF Hears

LEMMA RestartTyped ==
    ASSUME Typed, Restart
    PROVE  /\ Typed'
           /\ \A r \in Requests :
                  /\ writes'[r] >= writes[r]
                  /\ writes'[r] > writes[r] => \E w \in work : w.intent = r
<1> USE ConversationAssumption
<1>1. PICK done \in SUBSET work :
          writes' = [r \in Requests |-> writes[r] + Cardinality({w \in done : w.intent = r})]
  BY DEF Restart
<1>2. ASSUME NEW r \in Requests
      PROVE  /\ Cardinality({w \in done : w.intent = r}) \in Nat
             /\ Cardinality({w \in done : w.intent = r}) > 0 => \E w \in work : w.intent = r
  <2>1. IsFiniteSet({w \in done : w.intent = r})
    BY FS_Subset DEF Typed
  <2> QED
    BY <2>1, FS_CardinalityType, FS_EmptySet
<1>3. writes' \in [Requests -> Nat]
  BY <1>1, <1>2 DEF Typed, TypeOK
<1>4. handler' \in [Handlers -> HandlerStates]
  BY HandlerForms DEF Restart, Typed
<1>5. IsFiniteSet(work')
  BY FS_EmptySet DEF Restart
<1>6. Typed'
  BY <1>3, <1>4, <1>5 DEF Restart, owner, Typed, TypeOK
<1> QED
  BY <1>1, <1>2, <1>6 DEF Typed, TypeOK

LEMMA TypeStep ==
    ASSUME Typed, [Next]_vars
    PROVE  Typed'
<1>1. CASE \E p \in replies : LoseReply(p)
  BY <1>1 DEF LoseReply, Fault, trackA, trackB, owner, site, Typed, TypeOK
<1>2. CASE Tick
  BY <1>2, ConversationAssumption DEF Tick, trackA, trackB, owner, site, Typed, TypeOK
<1>3. CASE UNCHANGED vars
  BY <1>3 DEF vars, trackA, trackB, owner, site, counters, Typed, TypeOK
<1> QED
  BY <1>1, <1>2, <1>3, HearTyped, RouteTyped, ServeTyped, WriteTyped, AnswerTyped,
     RestartTyped DEF Next

LEMMA TypeInit == Init => Typed
<1> SUFFICES ASSUME Init PROVE Typed
  OBVIOUS
<1>1. NoStaged \in [intent : Changing, until : Nat]
  BY DEF NoStaged, Staged, Changing
<1>2. session \in Sessions /\ handler \in [Handlers -> HandlerStates]
  BY DEF Init, Sessions, NoSession, HandlerStates, Free
<1>3. IsFiniteSet(work)
  BY FS_EmptySet DEF Init
<1>4. /\ now \in 0..MaxTime /\ msgs \in 0..MaxMsgs
      /\ faults \in 0..MaxFaults /\ crashes \in 0..MaxCrashes
  BY ConversationAssumption DEF Init
<1>5. /\ prompted \in Changing /\ consent \in Changing
      /\ writes \in [Requests -> Nat] /\ logged \in [Requests -> Nat]
      /\ told \in [Requests -> Outcomes]
  BY DEF Init, Changing, Outcomes
<1> QED
  BY <1>1, <1>2, <1>3, <1>4, <1>5 DEF Init, Typed, TypeOK

LEMMA TypedAlways == Spec => []Typed
BY TypeInit, TypeStep, PTL DEF Spec

\* The variables keep their types, however many messages are served at a time and
\* whenever an attempt times out.
THEOREM TypeCorrect == Spec => []TypeOK
<1>1. Typed => TypeOK
  BY DEF Typed
<1> QED
  BY <1>1, TypedAlways, PTL
-----------------------------------------------------------------------------
(***************************************************************************)
(* One message at a time.  Then the router, Track B and the network share   *)
(* one request, write or answer at most, and the owner's prompt, her YES    *)
(* and the staged change name the same change.                              *)
(***************************************************************************)

\* Track A serves one message at a time, and an attempt times out only when its
\* request or its answer is lost (the assumptions of run confirm).
OneAtATime == Punctual /\ \E h : Handlers = {h}

Only == CHOOSE h : Handlers = {h}
serving == handler[Only]
Busy == serving.pc = "waiting"
For(op) == Busy /\ serving.op = op
Quiet == requests = {} /\ work = {} /\ replies = {}

\* What is on its way belongs to the call the router is waiting for.
OneExchange ==
    /\ \A c \in requests : /\ Busy
                           /\ c = Call(serving.msg, serving.attempt, serving.op, serving.intent)
                           /\ work = {} /\ replies = {}
    /\ \A w \in work : For("yes") /\ Mine(Only, w) /\ work = {w} /\ replies = {}
    /\ \A p \in replies : Busy /\ Mine(Only, p) /\ replies = {p}

\* Whatever is somewhere in the system was asked for.
AllKnown ==
    /\ staged.intent \in known \cup {Nothing}
    /\ \A w \in work : w.intent \in known
    /\ Busy => serving.intent \in known
    /\ session.mode = "confirm" => session.intent \in known
    /\ \A r \in Requests : told[r] # "none" \/ logged[r] > 0 => r \in known

\* A logged change is logged once, written, and nowhere on its way to be written.
LoggedGone ==
    /\ work # {} => staged.intent = Nothing
    /\ \A r \in Requests : logged[r] > 0 =>
           /\ logged[r] = 1 /\ writes[r] >= 1
           /\ staged.intent # r
           /\ \A w \in work : w.intent # r
           /\ For("stage") => serving.intent # r

\* The prompt, the session, the call and the staged change name the same change.
PromptStands == Bonded =>
    /\ session.mode = "confirm" /\ ~For("stage") =>
           prompted = session.intent /\ staged.intent \in {Nothing, session.intent}
    /\ Busy => session.mode = "confirm" /\ session.intent = serving.intent
    /\ serving.pc = "parsing" => session.mode # "confirm"
    /\ For("yes") => consent = serving.intent
    /\ For("stage") /\ replies # {} => staged.intent = serving.intent
    /\ \A w \in work : w.intent = serving.intent
    /\ \A r \in Requests :
           told[r] = "cancelled" => ~(session.mode = "confirm" /\ session.intent = r)

\* A success is told, or on its way, for a change that is logged.
ToldTruly == Bonded =>
    /\ \A r \in Requests : told[r] = "published" => logged[r] = 1
    /\ For("yes") => \A p \in replies : p.result = "done" => logged[serving.intent] = 1

Talk == OneExchange /\ AllKnown /\ LoggedGone /\ PromptStands /\ ToldTruly

LEMMA OneHandler ==
    ASSUME OneAtATime, Typed
    PROVE  /\ Only \in Handlers /\ \A h \in Handlers : h = Only
           /\ \A x : [handler EXCEPT ![Only] = x][Only] = x
<1>1. Handlers = {Only}
  BY DEF OneAtATime, Only
<1>2. handler \in [Handlers -> HandlerStates]
  BY DEF Typed, TypeOK
<1> QED
  BY <1>1, <1>2

\* Nothing is on its way for a handler that does not wait, or whose attempt failed.
LEMMA NothingOnItsWay ==
    ASSUME OneAtATime, Typed, OneExchange, ~Busy \/ AttemptFailed(Only)
    PROVE  Quiet
<1>1. CASE ~Busy
  BY <1>1 DEF OneExchange, Quiet, For
<1>2. CASE AttemptFailed(Only)
  <2>1. \A x \in requests \cup work \cup replies : ~Mine(Only, x)
    BY <1>2 DEF AttemptFailed, OneAtATime
  <2>2. \A c \in requests : Mine(Only, c)
    BY DEF OneExchange, Call, Mine, serving
  <2> QED
    BY <2>1, <2>2 DEF OneExchange, Quiet
<1> QED
  BY <1>1, <1>2

\* Bonds are never mended.
LEMMA BondsBreak ==
    ASSUME known \subseteq known', torn => torn'
    PROVE  Bonded' => Bonded
BY DEF Bonded

\* A step that leaves the call and what is on its way alone.
LEMMA ExchangeKept ==
    ASSUME OneExchange, UNCHANGED <<handler, requests, work, replies>>
    PROVE  OneExchange'
BY DEF OneExchange, Busy, For, serving, Mine

LEMMA QuietExchange ==
    ASSUME Quiet'
    PROVE  OneExchange'
BY DEF OneExchange, Quiet

-----------------------------------------------------------------------------
\* A message arrives: nothing was on its way.
LEMMA HearKeepsTalk ==
    ASSUME OneAtATime, Typed, Talk, NEW h \in Handlers, Hear(h)
    PROVE  Talk'
<1>1. h = Only /\ serving = Free /\ ~Busy
  BY OneHandler, HandlerForms DEF Hear, HearVoiceNote, HearRequest, AnswerYes, Decline, AskAgain, Arrives,
     serving, Busy, Typed
<1>2. Quiet
  BY <1>1, NothingOnItsWay DEF Talk
<1>3. /\ UNCHANGED <<staged, work, replies, prompted, writes, logged, told, torn, known>>
      /\ work = {} /\ replies = {}
  BY <1>2 DEF Hear, HearVoiceNote, HearRequest, AnswerYes, Decline, AskAgain, trackB, owner, site, Quiet
<1>4. Bonded' <=> Bonded
  BY <1>3 DEF Bonded
<1>5. CASE HearVoiceNote(h) \/ HearRequest(h)
  <2>1. session'.mode # "confirm"
    <3>1. CASE HearVoiceNote(h)
      BY <3>1 DEF HearVoiceNote, EchoBack
    <3>2. CASE HearRequest(h)
      BY <3>2, SessionForms DEF HearRequest, Typed
    <3> QED
      BY <1>5, <3>1, <3>2
  <2>2. requests' = {} /\ UNCHANGED consent
    BY <1>2, <1>5 DEF HearVoiceNote, HearRequest, Quiet, owner
  <2>3. ~Busy'
    <3>1. CASE HearVoiceNote(h)
      BY <1>1, <3>1 DEF HearVoiceNote, Busy, serving
    <3>2. CASE HearRequest(h)
      BY <1>1, <3>2, OneHandler DEF HearRequest, Busy, serving
    <3> QED
      BY <1>5, <3>1, <3>2
  <2>4. OneExchange'
    BY <1>3, <2>2, QuietExchange DEF Quiet
  <2> QED
    BY <1>3, <1>4, <2>1, <2>2, <2>3, <2>4 DEF Talk, AllKnown, LoggedGone, PromptStands, ToldTruly, For
<1>6. CASE AskAgain(h)
  <2>1. /\ UNCHANGED <<handler, requests, consent>>
        /\ session.mode = "confirm" /\ session'.mode = "confirm" /\ session'.intent = session.intent
    BY <1>6, SessionForms DEF AskAgain, owner, Confirm, Typed
  <2>2. OneExchange'
    BY <1>3, <2>1, ExchangeKept DEF Talk
  <2> QED
    BY <1>1, <1>3, <1>4, <2>1, <2>2 DEF Talk, AllKnown, LoggedGone, PromptStands, ToldTruly, For, Busy, serving
<1>7. CASE AnswerYes(h) \/ Decline(h)
  <2>1. session.mode = "confirm" /\ UNCHANGED session
    BY <1>7, SessionForms DEF AnswerYes, Decline, Typed
  <2>2. PICK op \in {"yes", "no"} :
            /\ Submit(h, msgs', op, session.intent)
            /\ op = "yes" => consent' = prompted
    BY <1>7 DEF AnswerYes, Decline
  <2>3. /\ serving' = [pc |-> "waiting", msg |-> msgs', op |-> op, intent |-> session.intent, attempt |-> 1]
        /\ requests' = {Call(msgs', 1, op, session.intent)}
    BY <1>1, <1>2, <2>2, OneHandler DEF Submit, serving, Quiet
  <2>4. Busy' /\ ~For("stage")' /\ serving'.intent = session.intent /\ serving'.pc = "waiting"
        /\ (For("yes")' => op = "yes")
    BY <2>3 DEF Busy, For
  <2>5. OneExchange'
    BY <1>3, <2>3, <2>4 DEF OneExchange
  <2> QED
    BY <1>1, <1>3, <1>4, <2>1, <2>2, <2>4, <2>5 DEF Talk, AllKnown, LoggedGone, PromptStands, ToldTruly, For
<1> QED
  BY <1>5, <1>6, <1>7 DEF Hear

\* The parser has answered: a change it names was never asked for before.
LEMMA RouteKeepsTalk ==
    ASSUME OneAtATime, Typed, Talk, NEW h \in Handlers, Route(h)
    PROVE  Talk'
<1>1. h = Only /\ serving.pc = "parsing" /\ ~Busy
  BY OneHandler DEF Route, RouteVague, RouteDestructive, RouteRoutine, Parsing, serving, Busy
<1>2. Quiet
  BY <1>1, NothingOnItsWay DEF Talk
<1>3. /\ UNCHANGED <<staged, work, replies, prompted, consent, writes, logged, told, torn>>
      /\ work = {} /\ replies = {} /\ known \subseteq known'
  BY <1>2 DEF Route, RouteVague, RouteDestructive, RouteRoutine, trackB, owner, site, counters, Quiet
<1>4. Bonded' => Bonded
  BY <1>3, BondsBreak
<1>5. CASE RouteVague(h)
  <2>1. session'.mode # "confirm"
    BY <1>5, SessionForms DEF RouteVague, Clarify, Typed
  <2>2. ~Busy' /\ requests' = {} /\ serving'.pc = "free"
    BY <1>1, <1>2, <1>5, OneHandler, HandlerForms DEF RouteVague, Busy, serving, Quiet, Typed
  <2>3. OneExchange'
    BY <1>3, <2>2, QuietExchange DEF Quiet
  <2> QED
    BY <1>3, <1>4, <2>1, <2>2, <2>3 DEF Talk, AllKnown, LoggedGone, PromptStands, ToldTruly, For
<1>6. ASSUME NEW r \in Requests, RouteDestructive(h, r)
      PROVE  Talk'
  <2>1. /\ r \notin known /\ known' = known \cup {r}
        /\ session'.mode = "confirm" /\ session'.intent = r
    BY <1>6 DEF RouteDestructive, Confirm
  <2>2. /\ serving' = [pc |-> "waiting", msg |-> serving.msg, op |-> "stage", intent |-> r, attempt |-> 1]
        /\ requests' = {Call(serving.msg, 1, "stage", r)}
    BY <1>1, <1>2, <1>6, OneHandler DEF RouteDestructive, Submit, serving, Quiet
  <2>3. Busy' /\ For("stage")' /\ ~For("yes")' /\ serving'.intent = r /\ serving'.pc = "waiting"
    BY <2>2 DEF Busy, For
  <2>4. OneExchange'
    BY <1>3, <2>2, <2>3 DEF OneExchange
  <2>5. AllKnown' /\ LoggedGone'
    BY <1>3, <2>1, <2>3 DEF Talk, AllKnown, LoggedGone
  <2>6. PromptStands' /\ ToldTruly'
    BY <1>3, <1>4, <2>1, <2>3 DEF Talk, AllKnown, PromptStands, ToldTruly
  <2> QED
    BY <2>4, <2>5, <2>6 DEF Talk
<1>7. ASSUME NEW r \in Requests, RouteRoutine(h, r)
      PROVE  Talk'
  <2>1. known' = known \cup {r} /\ r \notin Destructive /\ UNCHANGED session
    BY <1>7 DEF RouteRoutine
  <2>2. ~Bonded'
    BY <2>1 DEF Bonded
  <2>3. /\ serving' = [pc |-> "waiting", msg |-> serving.msg, op |-> "yes", intent |-> r, attempt |-> 1]
        /\ requests' = {Call(serving.msg, 1, "yes", r)}
    BY <1>1, <1>2, <1>7, OneHandler DEF RouteRoutine, Submit, serving, Quiet
  <2>4. Busy' /\ ~For("stage")' /\ serving'.intent = r
    BY <2>3 DEF Busy, For
  <2>5. OneExchange'
    BY <1>3, <2>3, <2>4 DEF OneExchange
  <2> QED
    BY <1>3, <2>1, <2>2, <2>4, <2>5 DEF Talk, AllKnown, LoggedGone, PromptStands, ToldTruly
<1> QED
  BY <1>5, <1>6, <1>7 DEF Route
\* Track B takes the request: it was the only thing on its way.
LEMMA ServeKeepsTalk ==
    ASSUME OneAtATime, Typed, Talk, NEW c \in requests, Serve(c)
    PROVE  Talk'
<1>1. /\ Busy /\ c = Call(serving.msg, serving.attempt, serving.op, serving.intent)
      /\ requests = {c} /\ work = {} /\ replies = {}
  BY DEF Talk, OneExchange
<1>2. /\ requests' = {}
      /\ UNCHANGED <<handler, session, prompted, consent, writes, logged, told, torn, known>>
  BY <1>1 DEF Serve, Stage, ResolveYes, ResolveNo, trackA, owner, site, counters
<1>3. /\ UNCHANGED <<serving, Busy, Bonded, For("stage"), For("yes")>>
  BY <1>2 DEF serving, Busy, For, Bonded
<1>4. c.op = serving.op /\ c.intent = serving.intent /\ c.msg = serving.msg /\ c.attempt = serving.attempt
  BY <1>1 DEF Call
<1>5. \A result : Mine(Only, Reply(c, result)) /\ Reply(c, result).result = result
  BY <1>4 DEF Mine, Reply, serving
<1>6. \A result : Mine(Only, Reply(c, result))'
  BY <1>2, <1>4 DEF Mine, Reply, serving
<1>7. NoStaged.intent = Nothing
  BY DEF NoStaged, Staged
<1>8. CASE Stage(c)
  <2>1. /\ For("stage") /\ ~For("yes")
        /\ staged'.intent = serving.intent /\ work' = {} /\ replies' = {Reply(c, "staged")}
    BY <1>1, <1>4, <1>8 DEF Stage, For, Staged
  <2>2. OneExchange'
    BY <1>1, <1>2, <1>3, <1>6, <2>1 DEF OneExchange
  <2> QED
    BY <1>1, <1>2, <1>3, <2>1, <2>2 DEF Talk, AllKnown, LoggedGone, PromptStands, ToldTruly
<1>9. CASE ResolveYes(c) /\ StagedLive
  <2>1. PICK w : /\ w = [msg |-> c.msg, attempt |-> c.attempt, intent |-> staged.intent]
                 /\ work' = {w}
    BY <1>1, <1>9 DEF ResolveYes
  <2>2. /\ For("yes") /\ ~For("stage") /\ staged.intent # Nothing
        /\ staged'.intent = Nothing /\ replies' = {}
    BY <1>1, <1>4, <1>7, <1>9 DEF ResolveYes, For, StagedLive
  <2>3. w.intent = staged.intent /\ Mine(Only, w)'
    BY <1>2, <1>4, <2>1 DEF Mine, serving
  <2>4. OneExchange'
    BY <1>1, <1>2, <1>3, <2>1, <2>2, <2>3 DEF OneExchange
  <2>5. Nothing \notin Requests
    BY ConversationAssumption
  <2> QED
    BY <1>1, <1>2, <1>3, <2>1, <2>2, <2>3, <2>4, <2>5 DEF Talk, AllKnown, LoggedGone, PromptStands, ToldTruly
<1>10. CASE (ResolveYes(c) /\ ~StagedLive) \/ ResolveNo(c)
  <2>1. PICK result : /\ replies' = {Reply(c, result)}
                      /\ result = "done" => ResolveNo(c)
    BY <1>1, <1>10 DEF ResolveYes, ResolveNo
  <2>2. /\ ~For("stage") /\ staged'.intent = Nothing /\ work' = {}
        /\ result = "done" => ~For("yes")
    BY <1>1, <1>4, <1>7, <1>10, <2>1 DEF ResolveYes, ResolveNo, For
  <2>3. OneExchange'
    BY <1>1, <1>2, <1>3, <1>6, <2>1, <2>2 DEF OneExchange
  <2>4. Nothing \notin Requests
    BY ConversationAssumption
  <2> QED
    BY <1>1, <1>2, <1>3, <1>5, <2>1, <2>2, <2>3, <2>4 DEF Talk, AllKnown, LoggedGone, PromptStands, ToldTruly
<1> QED
  BY <1>8, <1>9, <1>10 DEF Serve

\* The write under way ends: nothing is staged, and its answer is all there is.
LEMMA WriteKeepsTalk ==
    ASSUME OneAtATime, Typed, Talk, NEW w \in work, Write(w)
    PROVE  Talk'
<1>1. /\ For("yes") /\ ~For("stage") /\ Busy /\ Mine(Only, w)
      /\ work = {w} /\ requests = {} /\ replies = {} /\ staged.intent = Nothing
  BY DEF Talk, OneExchange, For, LoggedGone
<1>2. /\ UNCHANGED <<handler, session, prompted, consent, told, torn, known, requests>>
      /\ work' = {}
  BY <1>1 DEF Write, FinishPublished, FinishRefused, FinishUnlogged, Finish, trackA, owner, counters
<1>3. UNCHANGED <<serving, Busy, Bonded, For("stage"), For("yes")>>
  BY <1>2 DEF serving, Busy, For, Bonded
<1>4. \A result : Mine(Only, Reply(w, result))' /\ Reply(w, result).result = result
  BY <1>1, <1>2 DEF Mine, Reply
<1>5. /\ Nothing \notin Requests /\ w.intent \in Requests /\ w.intent \in known
      /\ writes \in [Requests -> Nat] /\ logged \in [Requests -> Nat] /\ logged[w.intent] = 0
  BY ConversationAssumption DEF Talk, AllKnown, LoggedGone, Typed, TypeOK
<1>6. CASE FinishPublished(w)
  <2>1. /\ replies' = {Reply(w, "done")} /\ UNCHANGED staged
        /\ writes' = [writes EXCEPT ![w.intent] = @ + 1]
        /\ logged' = [logged EXCEPT ![w.intent] = @ + 1]
    BY <1>1, <1>6 DEF FinishPublished, Finish
  <2>2. OneExchange'
    BY <1>1, <1>2, <1>3, <1>4, <2>1 DEF OneExchange
  <2>3. /\ \A r \in Requests : r # w.intent => logged'[r] = logged[r] /\ writes'[r] = writes[r]
        /\ logged'[w.intent] = 1 /\ writes'[w.intent] >= 1
    BY <1>5, <2>1
  <2>4. AllKnown' /\ LoggedGone'
    BY <1>1, <1>2, <1>3, <1>5, <2>1, <2>3 DEF Talk, AllKnown, LoggedGone
  <2>5. PromptStands' /\ ToldTruly'
    BY <1>1, <1>2, <1>3, <1>5, <2>1, <2>3 DEF Talk, PromptStands, ToldTruly
  <2> QED
    BY <2>2, <2>4, <2>5 DEF Talk
<1>7. ASSUME NEW ok \in BOOLEAN, FinishRefused(w, ok) \/ FinishUnlogged(w, ok)
      PROVE  Talk'
  <2>1. /\ replies' = {Reply(w, "failed")} /\ UNCHANGED logged
        /\ staged'.intent \in {Nothing, w.intent}
    BY <1>1, <1>7 DEF FinishRefused, FinishUnlogged, Finish, Restage, Staged, site
  <2>2. \A r \in Requests : writes'[r] >= writes[r]
    BY <1>5, <1>7 DEF FinishRefused, FinishUnlogged, site
  <2>3. OneExchange'
    BY <1>1, <1>2, <1>3, <1>4, <2>1 DEF OneExchange
  <2>4. AllKnown' /\ LoggedGone'
    <3>1. \A r \in Requests : writes[r] \in Nat /\ writes'[r] \in Nat
      BY WriteTyped, <1>5 DEF Typed, TypeOK
    <3> QED
      BY <1>1, <1>2, <1>3, <1>5, <2>1, <2>2, <3>1 DEF Talk, AllKnown, LoggedGone
  <2>5. PromptStands' /\ ToldTruly'
    BY <1>1, <1>2, <1>3, <1>4, <1>5, <2>1 DEF Talk, PromptStands, ToldTruly
  <2> QED
    BY <2>3, <2>4, <2>5 DEF Talk
<1> QED
  BY <1>6, <1>7 DEF Write

\* Track B's answer: the router is free again and nothing is on its way.
LEMMA AnswerKeepsTalk ==
    ASSUME OneAtATime, Typed, Talk, NEW h \in Handlers, Hears(h)
    PROVE  Talk'
<1>1. PICK p \in replies : StageAnswered(h, p) \/ YesAnswered(h, p) \/ NoAnswered(h, p)
  BY DEF Hears
<1>2. /\ h = Only /\ Busy /\ replies = {p} /\ requests = {} /\ work = {}
  BY OneHandler DEF Talk, OneExchange
<1>3. /\ serving' = Free /\ ~Busy' /\ serving'.pc = "free" /\ Quiet'
  BY <1>1, <1>2, OneHandler, HandlerForms DEF StageAnswered, YesAnswered, NoAnswered, Receive, trackB,
     serving, Busy, Quiet, Typed
<1>4. /\ UNCHANGED <<staged, writes, logged, torn, known>> /\ UNCHANGED Bonded
  BY <1>1 DEF StageAnswered, YesAnswered, NoAnswered, trackB, site, counters, Bonded
<1>5. OneExchange'
  BY <1>3, QuietExchange
<1>6. /\ serving.intent \in Requests /\ serving.intent \in known /\ NoSession.mode # "confirm"
      /\ told \in [Requests -> Outcomes]
  BY <1>2, OneHandler, HandlerForms, SessionForms DEF Talk, AllKnown, Busy, serving, Typed, TypeOK
<1>7. CASE StageAnswered(h, p)
  <2>1. /\ For("stage") /\ prompted' = serving.intent /\ UNCHANGED <<session, told>>
    BY <1>2, <1>7 DEF StageAnswered, Receive, Waiting, For, Busy, serving
  <2> QED
    BY <1>2, <1>3, <1>4, <1>5, <2>1 DEF Talk, AllKnown, LoggedGone, PromptStands, ToldTruly, For, Quiet
<1>8. CASE YesAnswered(h, p)
  <2>1. /\ For("yes") /\ ~For("stage") /\ UNCHANGED <<prompted, consent>>
        /\ session' = session \/ session' = NoSession
        /\ told' = [told EXCEPT ![serving.intent] = IF p.result = "done" THEN "published" ELSE "failed"]
    BY <1>2, <1>8 DEF YesAnswered, Receive, Waiting, Tell, For, Busy, serving, owner
  <2>2. /\ \A r \in Requests : told'[r] # told[r] => r = serving.intent /\ told'[r] \in {"published", "failed"}
        /\ \A r \in Requests : told'[r] = "published" => told[r] = "published" \/ (r = serving.intent /\ p.result = "done")
    BY <1>6, <2>1
  <2>3. AllKnown' /\ LoggedGone'
    BY <1>2, <1>3, <1>4, <1>6, <2>1, <2>2 DEF Talk, AllKnown, LoggedGone, For, Quiet
  <2>4. PromptStands'
    BY <1>2, <1>3, <1>4, <1>6, <2>1, <2>2 DEF Talk, PromptStands, For, Quiet
  <2>5. ToldTruly'
    BY <1>2, <1>3, <1>4, <1>6, <2>1, <2>2 DEF Talk, ToldTruly, For, Quiet
  <2> QED
    BY <1>5, <2>3, <2>4, <2>5 DEF Talk
<1>9. CASE NoAnswered(h, p)
  <2>1. session' = NoSession /\ told' = [told EXCEPT ![serving.intent] = "cancelled"]
    BY <1>2, <1>9 DEF NoAnswered, Tell, serving
  <2>2. \A r \in Requests : told'[r] # told[r] => r = serving.intent /\ told'[r] = "cancelled"
    BY <1>6, <2>1
  <2> QED
    BY <1>2, <1>3, <1>4, <1>5, <1>6, <2>1, <2>2 DEF Talk, AllKnown, LoggedGone, PromptStands, ToldTruly, For, Quiet
<1> QED
  BY <1>1, <1>7, <1>8, <1>9

\* The attempt failed, so nothing of it is on its way: ask again, or give up.
LEMMA RetryKeepsTalk ==
    ASSUME OneAtATime, Typed, Talk, NEW h \in Handlers, Retry(h)
    PROVE  Talk'
<1>1. h = Only /\ Busy /\ Quiet
  BY OneHandler, NothingOnItsWay DEF Talk, Retry, AttemptFailed, Busy, serving
<1>2. /\ UNCHANGED <<session, staged, work, replies, prompted, consent, writes, logged, told, torn, known>>
      /\ work = {} /\ replies = {}
  BY <1>1 DEF Retry, trackB, owner, site, counters, Quiet
<1>3. /\ serving' = [serving EXCEPT !.attempt = @ + 1]
      /\ requests' = {Call(serving.msg, serving.attempt + 1, serving.op, serving.intent)}
  BY <1>1, OneHandler DEF Retry, serving, Quiet
<1>4. /\ serving.pc = "waiting" /\ serving \in HandlerStates
      /\ serving = [pc |-> "waiting", msg |-> serving.msg, op |-> serving.op,
                    intent |-> serving.intent, attempt |-> serving.attempt]
  BY <1>1, OneHandler, HandlerForms DEF Busy, serving, Typed
<1>5. \A m, op, r, n, k :
          [[pc |-> "waiting", msg |-> m, op |-> op, intent |-> r, attempt |-> n] EXCEPT !.attempt = k] =
          [pc |-> "waiting", msg |-> m, op |-> op, intent |-> r, attempt |-> k]
  OBVIOUS
<1>6. serving' = [pc |-> "waiting", msg |-> serving.msg, op |-> serving.op,
                  intent |-> serving.intent, attempt |-> serving.attempt + 1]
  BY <1>3, <1>4, <1>5
<1>7. /\ Busy' /\ UNCHANGED <<For("stage"), For("yes")>> /\ UNCHANGED Bonded
      /\ serving'.intent = serving.intent /\ serving'.pc = "waiting"
  BY <1>1, <1>2, <1>6 DEF Busy, For, Bonded
<1>8. OneExchange'
  BY <1>2, <1>3, <1>6, <1>7 DEF OneExchange
<1> QED
  BY <1>1, <1>2, <1>7, <1>8 DEF Talk, AllKnown, LoggedGone, PromptStands, ToldTruly

LEMMA GiveUpKeepsTalk ==
    ASSUME OneAtATime, Typed, Talk, NEW h \in Handlers, GiveUp(h)
    PROVE  Talk'
<1>1. h = Only /\ Busy /\ Quiet
  BY OneHandler, NothingOnItsWay DEF Talk, GiveUp, AttemptFailed, Busy, serving
<1>2. /\ UNCHANGED <<staged, work, replies, requests, prompted, consent, writes, logged, torn, known>>
      /\ work = {} /\ replies = {} /\ Quiet' /\ UNCHANGED Bonded
  BY <1>1 DEF GiveUp, trackB, owner, site, counters, Quiet, Bonded
<1>3. serving' = Free /\ ~Busy' /\ serving'.pc = "free"
  BY <1>1, OneHandler, HandlerForms DEF GiveUp, serving, Busy, Typed
<1>4. /\ serving.intent \in Requests /\ serving.intent \in known /\ NoSession.mode # "confirm"
      /\ told \in [Requests -> Outcomes]
  BY <1>1, OneHandler, HandlerForms, SessionForms DEF Talk, AllKnown, Busy, serving, Typed, TypeOK
<1>5. /\ session' = IF For("yes") THEN session ELSE NoSession
      /\ told' = [told EXCEPT ![serving.intent] = IF For("no") THEN "cancelled" ELSE "failed"]
  BY <1>1 DEF GiveUp, Tell, For, serving
<1>6. /\ ~(For("yes") /\ (For("stage") \/ For("no")))
      /\ \A r \in Requests : told'[r] # told[r] => /\ r = serving.intent
                                                   /\ told'[r] = "failed" \/ told'[r] = "cancelled"
                                                   /\ told'[r] = "cancelled" => For("no")
  BY <1>4, <1>5 DEF For
<1>7. OneExchange'
  BY <1>2, QuietExchange
<1>8. AllKnown' /\ LoggedGone' /\ ToldTruly'
  BY <1>1, <1>2, <1>3, <1>4, <1>5, <1>6 DEF Talk, AllKnown, LoggedGone, ToldTruly, For
<1>9. PromptStands'
  BY <1>1, <1>2, <1>3, <1>4, <1>5, <1>6 DEF Talk, PromptStands, For
<1> QED
  BY <1>7, <1>8, <1>9 DEF Talk

\* Everything on its way is gone.  A staging cut off breaks the bond.
LEMMA RestartKeepsTalk ==
    ASSUME OneAtATime, Typed, Talk, Restart
    PROVE  Talk'
<1>1. /\ Quiet' /\ serving' = Free /\ ~Busy' /\ serving'.pc = "free"
  BY OneHandler, HandlerForms DEF Restart, Quiet, serving, Busy, Typed
<1>2. UNCHANGED <<session, staged, prompted, consent, logged, told, known>>
  BY DEF Restart, owner
<1>3. Bonded' => Bonded /\ ~For("stage")
  BY <1>2, OneHandler DEF Restart, Bonded, Waiting, For, Busy, serving
<1>4. \A r \in Requests : /\ writes[r] \in Nat /\ writes'[r] \in Nat /\ writes'[r] >= writes[r]
  BY RestartTyped DEF Typed, TypeOK
<1>5. OneExchange'
  BY <1>1, QuietExchange
<1> QED
  BY <1>1, <1>2, <1>3, <1>4, <1>5 DEF Talk, AllKnown, LoggedGone, PromptStands, ToldTruly, For, Quiet

\* A request or an answer is lost.
LEMMA LossKeepsTalk ==
    ASSUME OneAtATime, Typed, Talk,
           (\E c \in requests : LoseRequest(c)) \/ (\E p \in replies : LoseReply(p))
    PROVE  Talk'
<1>1. Quiet'
  BY DEF Talk, OneExchange, LoseRequest, LoseReply, trackB, Quiet
<1>2. UNCHANGED <<handler, session, staged, prompted, consent, writes, logged, told, torn, known>>
  BY DEF LoseRequest, LoseReply, trackA, trackB, owner, site
<1>3. UNCHANGED <<serving, Busy, Bonded, For("stage"), For("yes")>>
  BY <1>2 DEF serving, Busy, For, Bonded
<1>4. OneExchange'
  BY <1>1, QuietExchange
<1> QED
  BY <1>1, <1>2, <1>3, <1>4 DEF Talk, AllKnown, LoggedGone, PromptStands, ToldTruly, Quiet

LEMMA TalkStep ==
    ASSUME OneAtATime, Typed, Talk, [Next]_vars
    PROVE  Talk'
<1>1. CASE Tick \/ UNCHANGED vars
  <2>1. UNCHANGED <<handler, session, staged, requests, work, replies, prompted, consent, writes, logged,
                    told, torn, known>>
    BY <1>1 DEF Tick, vars, trackA, trackB, owner, site, counters
  <2>2. UNCHANGED <<serving, Busy, Bonded, For("stage"), For("yes")>>
    BY <2>1 DEF serving, Busy, For, Bonded
  <2>3. OneExchange'
    BY <2>1, ExchangeKept DEF Talk
  <2> QED
    BY <2>1, <2>2, <2>3 DEF Talk, AllKnown, LoggedGone, PromptStands, ToldTruly
<1> QED
  BY <1>1, HearKeepsTalk, RouteKeepsTalk, ServeKeepsTalk, WriteKeepsTalk, AnswerKeepsTalk, RetryKeepsTalk,
     GiveUpKeepsTalk, RestartKeepsTalk, LossKeepsTalk DEF Next

LEMMA TalkInit ==
    ASSUME OneAtATime, Init
    PROVE  Talk
<1>1. Quiet /\ serving.pc = "free" /\ ~Busy
  BY OneHandler, TypeInit DEF Init, Quiet, serving, Busy, Free
<1>2. session.mode = "none" /\ staged.intent = Nothing
  BY DEF Init, NoSession, NoStaged, Staged
<1> QED
  BY <1>1, <1>2, ConversationAssumption DEF Init, Talk, OneExchange, AllKnown, LoggedGone, PromptStands,
     ToldTruly, Quiet, For

LEMMA TalkAlways == OneAtATime /\ Spec => [](Typed /\ Talk)
<1>1. SUFFICES ASSUME OneAtATime PROVE Spec => [](Typed /\ Talk)
  OBVIOUS
<1> QED
  BY <1>1, TypeInit, TypeStep, TalkInit, TalkStep, PTL DEF Spec

-----------------------------------------------------------------------------
\* Between two messages the owner is asked about the change a YES would release
\* (routing.py sets the session, main.py stages).
THEOREM PromptNamesStaged == OneAtATime /\ Spec => []PromptMatchesStaged
<1> SUFFICES ASSUME OneAtATime PROVE Spec => []PromptMatchesStaged
  OBVIOUS
<1>1. Typed /\ Talk => PromptMatchesStaged
  <2> SUFFICES ASSUME Typed, Talk, Bonded, \A h \in Handlers : handler[h] = Free,
                      Current.mode = "confirm", StagedLive
               PROVE  staged.intent = session.intent
    BY DEF PromptMatchesStaged
  <2>1. ~For("stage")
    BY OneHandler, HandlerForms DEF For, Busy, serving, Typed
  <2>2. session.mode = "confirm" /\ staged.intent # Nothing
    BY SessionForms DEF StagedLive, Typed
  <2> QED
    BY <2>1, <2>2 DEF Talk, PromptStands
<1>2. Spec => [](Typed /\ Talk)
  BY TalkAlways
<1> QED
  BY <1>1, <1>2, PTL

\* Who is told that a change is live has it written and in the change log
\* (composer.py:209).
THEOREM SuccessIsTrue == OneAtATime /\ Spec => []TruthfulSuccess
<1>1. Typed /\ Talk => TruthfulSuccess
  BY DEF Talk, LoggedGone, ToldTruly, TruthfulSuccess, NeverFalseDone, Typed, TypeOK
<1> QED
  BY <1>1, TalkAlways, PTL

\* Only a write under way, ended or cut off by a restart, writes.
LEMMA WhoWrites ==
    ASSUME Typed, Next, NEW r \in Requests, writes'[r] # writes[r]
    PROVE  \E w \in work : w.intent = r
<1>1. CASE \E w \in work : Write(w)
  BY <1>1 DEF Write, FinishPublished, FinishRefused, FinishUnlogged, site, Typed, TypeOK
<1>2. CASE Restart
  <2>1. writes'[r] > writes[r]
    BY <1>2, RestartTyped DEF Typed, TypeOK
  <2> QED
    BY <1>2, <2>1, RestartTyped
<1>3. CASE UNCHANGED writes
  BY <1>3
<1> QED
  BY <1>1, <1>2, <1>3 DEF Next, Hear, HearVoiceNote, HearRequest, AnswerYes, Decline, AskAgain, Route,
     RouteVague, RouteDestructive, RouteRoutine, Hears, StageAnswered, YesAnswered, NoAnswered, Retry,
     GiveUp, Serve, Stage, ResolveYes, ResolveNo, LoseRequest, LoseReply, Tick, site

\* WordPress is only written with the change the owner's standing YES is about
\* (pending.py:10).
THEOREM WritesAreConsented == OneAtATime /\ Spec => ConsentedWrites
<1> SUFFICES ASSUME OneAtATime PROVE Spec => ConsentedWrites
  OBVIOUS
<1>1. Typed /\ Talk /\ [Next]_vars =>
          [Bonded => \A r \in Requests : writes'[r] > writes[r] => consent = r]_vars
  <2> SUFFICES ASSUME Typed, Talk, Next, Bonded, NEW r \in Requests, writes'[r] > writes[r]
               PROVE  consent = r
    OBVIOUS
  <2>1. PICK w \in work : w.intent = r
    BY WhoWrites DEF Typed, TypeOK
  <2> QED
    BY <2>1 DEF Talk, OneExchange, PromptStands
<1>2. Spec => [](Typed /\ Talk)
  BY TalkAlways
<1> QED
  BY <1>1, <1>2, PTL DEF Spec, ConsentedWrites

\* What the owner was told is cancelled is not written any more (routing.py:272).
THEOREM CancelledStaysUnwritten == OneAtATime /\ Spec => CancelIsFinal
<1> SUFFICES ASSUME OneAtATime PROVE Spec => CancelIsFinal
  OBVIOUS
<1>1. Typed /\ Talk /\ [Next]_vars =>
          [Bonded => \A r \in Requests : told[r] = "cancelled" => writes'[r] = writes[r]]_vars
  <2> SUFFICES ASSUME Typed, Talk, Next, Bonded, NEW r \in Requests, told[r] = "cancelled",
                      writes'[r] # writes[r]
               PROVE  FALSE
    OBVIOUS
  <2>1. PICK w \in work : w.intent = r
    BY WhoWrites
  <2> QED
    BY <2>1 DEF Talk, OneExchange, PromptStands, For
<1>2. Spec => [](Typed /\ Talk)
  BY TalkAlways
<1> QED
  BY <1>1, <1>2, PTL DEF Spec, CancelIsFinal

\* A logged write is never repeated, by a retry of Track A's or of the owner's, with
\* or without the bond.
THEOREM LoggedWriteIsLast == OneAtATime /\ Spec => AppliedOnce
<1> SUFFICES ASSUME OneAtATime PROVE Spec => AppliedOnce
  OBVIOUS
<1>1. Typed /\ Talk /\ [Next]_vars =>
          [\A r \in Requests : logged[r] > 0 => writes'[r] = writes[r]]_vars
  <2> SUFFICES ASSUME Typed, Talk, Next, NEW r \in Requests, logged[r] > 0,
                      writes'[r] # writes[r]
               PROVE  FALSE
    OBVIOUS
  <2>1. PICK w \in work : w.intent = r
    BY WhoWrites
  <2> QED
    BY <2>1 DEF Talk, LoggedGone
<1>2. Spec => [](Typed /\ Talk)
  BY TalkAlways
<1> QED
  BY <1>1, <1>2, PTL DEF Spec, AppliedOnce
=============================================================================
