# WP-Bot in TLA+

WP-Bot lets the owner of a small WordPress site change it by WhatsApp: "we close
at 6 now", "delete the barista job", UNDO. This directory holds TLA+ models of
the parts where that is hard to get right, the TLC configurations that check
them, and TLAPS proofs. Paths below are relative to the repository.

## The system

Two services run in one container (`start.sh`) and talk over HTTP.

| part | code | state it keeps | operations |
|---|---|---|---|
| webhook ingress | `track-a/track_a/main.py`, `tenant_store.py`, `store.py`, `ratelimit.py` | processed message ids, inbound messages, rate buckets (SQLite), sliding windows (memory) | deliver a batch of messages: deduplicate, limit, log, hand to the router; Telegram updates go to the router directly |
| media pipeline | `pipeline.py`, `media.py`, `transcribe.py` | the status of a logged message (SQLite) | process a row: text, voice note, image, anything else |
| conversation router | `track-a/track_a/routing.py` | none of its own | handle one message: clarify, confirm, re-ask, stage, submit, discard, undo, recap, voice echo |
| session store | `track-a/track_a/session.py` | per owner: conversation state, pending intent, turns, re-asks, TTL (SQLite or memory); active site (memory) | get (evicts), set (renews), clear |
| onboarding walkthrough | `track-a/track_a/onboarding.py` | per owner: step, collected data | trigger, step, cancel, site switch |
| AI provider chain, parser | `ai_provider.py`, `intent.py` | none | parse a message, retry, fall back |
| retry and circuit breaker | `reliability.py`, `retry.py` | tenant status (SQLite) | call with up to three attempts; degrade, recover |
| Track B client | `trackb.py` | none | `/intent`, `/intent?decision=`, `/undo`, `/changes`, `/sites/...` |
| intent endpoint | `track-b/track_b/main.py` | none | stage; resolve, apply, stage again on failure; undo |
| pending store | `pending.py` | two Redis keys per owner (intent, meta), TTLs | `stage_pending`, `resolve_pending` |
| write pipeline | `allowlist.py`, `content_types.py` | none | validate, dispatch, log |
| change log, undo | `changelog.py`, `undo.py` | one row per change (Postgres or memory) | record, newest row, reverse-apply |
| WordPress client | `wordpress.py` | the site's posts and options | create, update, trash, find, set option |
| site store | `track-b/track_b/onboarding.py` | sites, owners, credentials, active marker (SQLite) | add, validate, activate, list |
| action log | `action_log.py` | one row per action | record, mark undone (used by no service yet) |

How they interact: the webhook awaits the router, the router awaits the parser
and the Track B client, which retries; Track B awaits Redis, WordPress and the
change log. Nothing locks: requests of one owner can overlap at every `await`.
"The owner is being asked about X" (the session) and "X is what a YES releases"
(the pending store) are two records in two programs held together by messages
that can be lost.

What is hard, and the properties that make each part correct:

* **pending store**: GET and DELETE are separate commands, two keys with two
  TTLs, restarts in between. A staged change is decided at most once, in one way,
  in time, and not lost.
* **router, session, intent endpoint**: lost requests and replies, retries of what
  was already done, expiry, a crash between any two steps. Only what the owner
  agreed to is written; a cancelled change is not; what she is told is true; a
  logged write is never repeated; every message comes to an end.
* **change log and undo**: the write, its row and the reply can fail one by one.
  The log describes the site; UNDO restores exactly what was there before; the
  promise of 24 hours is kept.
* **ingress, pipeline**: two ways of telling duplicates apart (a tenant's marks, the
  unique `wam_id`), redelivery, errors and crashes between two commits, requests that
  overlap at an await. No message reaches the conversation twice or is charged twice;
  a 200 means that each message of the delivery has come to an end; every delivery is
  answered.
* **limiters**: window edges, lazy cleanup. What can pass in any window has a bound.
* **circuit breaker**: overlapping calls of one tenant move one status. It tells how
  the last one ended, and the operator hears of an outage once.
* **onboarding, site store**: sites change hands, names of sites lie about in the
  session, in memory and in staged changes. A change never lands on a site its owner
  did not connect, nor on another one than she was told.
* **AI chain, parser, gate**: a model may answer anything, four hand-written lists
  decide what a change needs. Nothing is removed without a YES; what the router lets
  through, Track B takes.

## Modules

| module | about | status |
|---|---|---|
| `ConfirmationGate` | what the pending store promises, without clock, Redis or concurrency | abstract specification |
| `RedisPending` | `RedisPendingStore` command by command; implements the gate | checked, proved |
| `MCRedisPending` | its symmetric instance for TLC | |
| `RedisPendingProofs` | types, the four safety properties, no silent loss, the refinement | proofs |
| `Conversation` | router, session, retries, intent endpoint, failures, restart; one owner | checked, proved |
| `ConversationProofs` | types and the five safety properties | proofs |
| `ChangeUndo` | write pipeline, change log, UNDO, WordPress content; one site | checked, proved |
| `ChangeUndoProofs` | types, the log, the promise, undo restores | proofs |
| `MessageFate` | what the way in promises of one WhatsApp message | abstract specification |
| `RateLimits` | the fixed window of a tenant, the sliding window in memory | checked, proved |
| `RateLimitsProofs` | the bounds of both limiters, what a row counts, types | proofs |
| `CircuitBreaker` | the tenant's status and the operator's alert | checked, proved in `FrontDoor` |
| `FrontDoor` | webhook, Telegram, idempotency, message log, pipeline, calls through the breaker; extends the two above and implements `MessageFate` | checked, proved |
| `FrontDoorProofs` | types, at most once, charged once, what a 200 means, the status and its alerts, both refinements | proofs |
| `Sites` | walkthrough, site table, active site, session's site, where changes and UNDO land | checked, proved |
| `SitesProofs` | types and the four safety properties | proofs |
| `IntentReading` | providers and fallback, parser, contract, router's decision, gate, handlers' effect; one message | checked, proved |
| `IntentReadingProofs` | the router and the gate agree; nothing without a YES; who is asked when; types | proofs |
| `MCServices` | the small instances of `FrontDoor`, `RateLimits`, `Sites`, `IntentReading`, side by side | checked, proved |
| `MCServicesProofs` | the bounds of the limiters, in the module that checks them | proofs |

The models meet where the code does. `Conversation` takes the pending store as the gate
that `RedisPending` implements; `FrontDoor` hands a message to a router that answers,
calls Track B or ends an onboarding, which is what `Conversation` and `Sites` look into;
to `Conversation` the parser is a step that yields some intent or none, and
`IntentReading` says which; `ChangeUndo` and `Sites` share the UNDO, the first looking
at what it restores on one site, the second at which site that is.

## RedisPending

State: `intentKey`, `metaKey` (the Redis keys with the tick they die at),
`request[h]` (the `resolve_pending` call a request is in), and history variables
(`issued`, `due`, `released`, `discarded`, `reportedLate`). Actions:
`StagePending` is `stage_pending` (one MULTI/EXEC); `GetIntent`, `DeleteKeys`,
`Answer`, `GetMeta`, `DeleteMeta` are the commands of `resolve_pending` and what
follows them, an `await` between any two; `Restart` kills requests and leaves
Redis; `Tick` lets keys expire.

`OneAtATime` says that requests of one owner do not overlap at Track B. The code
does not enforce it. Both values are interesting:

* `pending_serial` (TRUE; 2 owners, 3 changes, 2 concurrent requests, TTL 2,
  grace 1, 4 ticks): every property holds, and the store implements
  `ConfirmationGate` under the mapping at the end of the module: a change is open
  while its key lives, or while a request that read it in time is about to answer.
  With 3 changes an owner can replace a staged change and the other one act in
  between; with TTL 2 and grace 1 an answer can be early, at the edge, late, and
  later than the meta key.
* `pending_race` (FALSE; 1 owner): `ReleasedAtMostOnce` is violated by two YES
  requests that both GET before either DELETEs. A double tap, or a retry that
  overlaps its slow predecessor, does it. `EXECUTING`, which `session.py` says
  prevents this, is never set.

A restart between DELETE and the answer loses the change without a word. That is
what the code does; `NoSilentLoss` therefore excepts `Restart`.

**Proved** (`RedisPendingProofs`, for any sets of owners, changes, requests and any
TTLs): `TypeCorrect`; `StaleNeverReleased` with any concurrency, from `InWindow`
(a key dies exactly at the end of its window and a read happened inside it);
`ReleasedOnce`, `DecidedOneWay`, `LateIsRecognised` under `OneAtATime`, from
`GateInv`. None of the three is inductive alone: that an answer decides an
undecided change needs that a request's reading is still what the key holds
(`ReadIsCurrent`), that what it took out is nobody else's (`TakenByOne`), that no
two keys hold one change (`StagedApart`), that keys hold only undecided changes
(`StagedUndecided`), that fresh ids have no outcome (`AnsweredWereIssued`), and
that requests of one owner do not overlap (`Serial`). The proofs assume only
`PendingAssumption`. TLC checked `InWindow` and `GateInv` as invariants of the
serial instance before they were proved.

`StoreImplementsGate` (`GateSpec`) and `NothingLost` (`NoSilentLoss`) follow from the
same invariant, step by step. A change is open while its key lives or while a request
that read it in time is about to answer. `StageOffers` shows that a staging is an
`Offer`, `AnswerDecides` that an answer is a `Release` or a
`Discard`, and `OthersClose` that whatever
else closes a change - expiry, a restart, or a reading that turns out too late - is a
`Drop`, of changes that nobody has decided (`OpenUndecided`), and takes nothing
else with it (`OpenApart`). This needed one more conjunct of `ReadIsCurrent`: a request
past its DELETE leaves no living key with what it took. Both theorems are stated under
`OneAtATime`; `pending_race` shows a step no gate would take.

## Conversation

One owner. State: `session`; `staged` (Track B's pending change, here the one-step
gate: its own races are the subject of `RedisPending`); `handler[h]` (the message a
webhook request serves: parsing, or waiting for Track B at some attempt);
`requests`, `work`, `replies` (HTTP requests on their way, writes under way,
answers on their way back). History: `prompted` and `consent` (what the owner was
last asked, what her standing YES is about), `writes`, `logged`, `told`.

`HearRequest`, `HearVoiceNote`, `AnswerYes`, `Decline`, `AskAgain` are the branches
of `handle_message`; `Route*` those of `_route` once the parser has answered;
`Stage`, `ResolveYes`, `ResolveNo` the intent endpoint; `Finish*` the outcomes of
`apply_intent` with the re-staging that follows a failure; `Retry` and `GiveUp` the
breaker's loop; `Lose*`, `Restart`, `Tick` the world.

Each element of `Requests` is asked for once; the parser may return any that is
left, or none. A matching YES/NO/other word is a choice. Onboarding and
site-switch messages, UNDO and RECAP are not part of this model.

`conversation` (1 request handler, 2 destructive changes and a routine one, 4
messages, 2 losses or failures, 1 restart, 2 attempts, TTLs 2, 3 ticks): four
messages are enough for ask, YES, and a second request with its answer; two faults
for a lost reply and a failed write or two lost ones; two attempts for a retry and a
giving up. Four of the properties assume `Bonded`: no restart hit a router that was
waiting for its staging, and no routine change was asked for. Each half of it is
needed, and the violation runs show what happens otherwise:

* `cancelled`: the discard is lost, the owner reads "cancelled", and her next routine
  change releases what she cancelled (`NoMeansNo`).
* `falsedone`: a restart between "awaiting confirmation" and the staging; the YES
  releases an older change and the owner is told the new one is live
  (`NeverFalseDone`).
* `routine`: nothing fails, and a routine change is reported as failed, since it is
  sent as a decision about a staged change (`RoutineExecuted`).
* `unpublished`: a write whose row could not be inserted, or whose reply was lost, is
  reported as "nothing was published" (`FailedMeansUnwritten`).

`AppliedOnce` needs no such premise: a change that was written *and logged* is never
written again. One that was written and not logged can be.

*Punctual.* In these runs an attempt times out only when its request or reply was
lost: Track B is assumed to answer within the client's 30 s. `Punctual = FALSE` would drop
the assumption, at the price of a state space no run here finishes.

*Fairness* (`FairSpec`): weak fairness of the parser and routing, of receiving an
answer, of the timeout with its retry or giving up, of Track B serving a request and
finishing a write. The code justifies each by the event loop and by the 30 s timeout
of every HTTP call. There is none for the owner (she need not answer), for losses,
failures, restarts or the clock. `EveryMessageAnswered` counts a handler that died
with the process as ended: the code keeps no record of it.

**Proved** (`ConversationProofs`, for any changes, TTLs and bounds): `TypeOK` for any
handlers, and the five safety properties of `conversation` under `OneAtATime`, which is
`Punctual` with one handler, as in the run. `TruthfulSuccess` and the others speak of the
session, Track B and the wire at once, and none is inductive. `Talk` is: what is on the
wire belongs to the one message being served, at one of the three places (`OneExchange`);
what is staged, asked or written was asked for once (`AllKnown`); what was logged is
nowhere on its way to be written again (`LoggedGone`); and, where `Bonded` holds, a
prompt, the staged change and the standing YES are about the same change at every point
of the exchange (`PromptStands`), with answers that tell the truth (`ToldTruly`).
`EveryMessageAnswered` (liveness) is model-checked only.

## ChangeUndo

One owner, one site, messages one after another. State: `posts` (a post's id is its
place), `info` (the business-info option; pages and images have the same shape, no
`post_id`), `last` (the newest change-log row: nothing reads an older one for UNDO),
`call` (the UNDO being served). History: `shot` (what a visitor saw before the change
of row `last`), `drift` (a change reached WordPress that the log does not know),
`promise`. `Apply*` are the outcomes of `apply_intent`; `ReadLastRow`, `Reverse*`,
`RecordUndo*` the steps of `undo()`; `SendUndo`, `LoseUndo`, `UndoAnswered` Track A.

* `undo` (one title, 2 bodies, 3 posts, window 1, 2 ticks, 2 faults, 2 attempts):
  three posts are enough for create, delete, re-create under a new id and one more;
  two bodies to tell a restored body from the current one. `UndoRestores` compares
  what a visitor sees, so that a post restored under a new id counts as restored.
  After `drift` the code itself says "do not trust the live state", and the
  properties do not.
* `undo_retried`: the reply is lost, the retry undoes the undo, and the owner is told
  "your last change has been reverted" (`UndoneMeansReverted`). `TruthfulUndo` is what
  holds: the first attempt's answer is true.
* `undo_shadowed`: with no failure, UNDO is turned down inside the window because the
  newest row cannot be reversed: a site option, or a refused attempt that was logged
  after the change (`PromiseKept`). `PromiseKeptForPosts` is what holds.

**Proved** (`ChangeUndoProofs`, for any titles, contents, window and bounds): all five
properties of `undo` from `UndoAssumption` alone. `RowsSound` says what a row can look
like (only a live post goes to the trash, a state names a post there is) and that the newest row, or the undo about to be
logged, tells the state of its post: without it the reverse, which looks only at the
row's shape, could not be told to fit the site. `Promised` bounds the promise by the age
of the newest row. `UndoRestores` needs one more look ahead: `Restorable` says that
whatever would undo the newest row *now* shows what was shown before it, and the same of
an undo not logged yet; the lemmas `CreateBack`, `UpdateBack` and `DeleteBack` say so of
the effects, the last by counting posts, since a restored post has a new id.
`FirstAttempt` carries it to the answer.

## FrontDoor, RateLimits, CircuitBreaker

State: `processed` (`processed_messages`), `rows` (`inbound_messages` by `wam_id`),
`req[r]` (a request being served: its batch, the message it is at, the step), `loop`
(the request that holds the event loop). Between two awaits a request keeps the loop, so
nothing interleaves there, but the process can die between any two of its commits: that
is `Crash`; `DatabaseError` is an exception nothing catches, a 500 to Meta. One action
per step of `webhook`: `CheckIdempotency`, `CheckRateLimit` (a tenant), `CheckLegacyLimit`
(a sender without a record), `LogMessage`, `ProcessRow`, `VoiceProcessed`,
`ImageProcessed`, `RouteMessage`; `NextItem` is the loop over the messages of a delivery
and its 200. `Router*` are what the router may do with the message, `Call*` the loop of
`CircuitBreaker.call`. History: `routed`, `charged`, `dropped`, `cut`, `owed`,
`lastCall`, and the logs of what the limiters let through.

`RateLimits` has the two limiters with one clock in ticks; evicting from the left and
`_maybe_cleanup` are as in the code. `FixedWindowBurst` is the exact bound of the fixed
window: 2 * limit - 1 messages in a window's length, since a window opens with a message.

*Refinement.* `FateSpec`: with `stage` read off `rows` and `processed`, every step of
`FrontDoor` is a step of `MessageFate` or leaves the fates alone.

*What the code does, and no property forbids.* A limited message is dropped without the
notice the comment at `main.py:456` announces, stays marked, and is not seen again. A
message that an error or a crash cut short after its mark is lost: its redelivery is a
duplicate. A failed write comes back as a 422 *result*, so the breaker counts it as a
success. No `alert_fn` is passed at `main.py:122`: `Alert` is the call of `_alert`, which
reaches nobody yet. Telegram updates are not deduplicated. `AnsweredMeansSettled` and
`AtMostOnce` say exactly where the losses end.

*Fairness.* Weak fairness of a request's steps (asyncio resumes every task whose await
has ended, and every await has a timeout), and of Meta delivering a batch it got no 200
for. None for faults, Telegram or the clock. `DoorAnswersEveryBatch` needs faults to be
finitely many, which `MaxFaults` makes them.

**Proved** (`FrontDoorProofs`): each step of the specification is shown to be of one of
five kinds - it touches no message (`Calm`), claims, charges, logs, or hands one over -
by one lemma per action. Three inductive invariants then need five cases each. `Once`:
a message was routed no more than once, a request that is going to route it is the only
one and its row says so, and who is at the log step found no row. `Charged`: what is
charged is marked, and the request about to charge it is the only one that marked it.
`Typed` gives them their types. `AtMostOnce`, `ChargedOnce` and the refinement follow;
`DegradedMeansLastFailed` is inductive by itself. Only `FrontDoorAssumption` and those of
the two modules it extends are assumed: any batches, owners, limits, and any number of
requests, faults and redeliveries. `IsFiniteSet(Requests)` is one of them: requests are tasks of one process, and a
count of those at their alert means something only if there are finitely many.

`AnsweredIsSettled` takes a fourth invariant, `Accounted`: each message a request has
passed in its batch, and each of an answered one, is settled, or in the hands of a
request that is before or at its handling, or on record as dropped or cut short; and a message
with a row is settled, held or cut. A request only passes a message that is one of
these (`StepProgress`, one step per action), and what happens to the others never undoes it (`FineKept`,
`AccountedElsewhere`): this is where a duplicate that skips a message still in
another's hands could have gone wrong. `AlertOncePerOutage` counts the requests at their
alert (`Alerting`): a call that degrades an active tenant adds itself and one alert owed,
the alert takes both away, and only a fault removes the one without the other.
`DoorImplementsLimits` says that the limiters' variables move under `FrontDoor` only as
`RateLimits` allows, so that what is proved there holds here.

**Proved** (`RateLimitsProofs`, for any senders, limits, windows and clock): the types,
`SlidingBound`, `BurstBound` and `BucketCountsWindow` from `LimitsKept`, which ties what a
limiter remembers to positions in the history of what it let through. The tenant's row
stands for the last `message_count` entries; all before them are older than its window, and
all but `MaxMessages - 1` of those a whole window older than its start (`RowFits`): hence
2 * limit - 1. The deque is a suffix of the history, and what was evicted or cleaned up is
too old to share a window with the next message (`DequeFits`); a restart, which empties
it, forgets the history with it, so the bound is one of the process, as in the code.
`FirstLive`, the least live position, is what the code's eviction from the left stops at.
`MCServicesProofs` carries the three bounds over to the run `services`, whose behaviours
are shown to be behaviours of `LimitsSpec`.

Liveness (`DoorAnswersEveryBatch`) is model-checked only.

## Sites

State: `table` (`onboarded_sites`, in order of insertion), `walk` (the walkthrough in
memory), `chosen` (`ActiveSiteStore`, in memory), `session` and `tenants` (SQLite; without
a tenant record `DBSessionStore` keeps nothing), `staged`, `call` (the call an owner's
message waits for), `changes` (`change_log`). `Setup*` are the outcomes of `_submit` and
`onboard_site`; `SwitchSite`, `SetActive`, `SiteChosen` the three parts of a switch;
`AskClarification`, `AskChange`, `EchoVoice`, `VoiceChange` what the router does with the
session's site; `Decide`, `Written`, `WriteFails` the resolution and the write;
`ConnectElsewhere` another owner's onboarding, as far as it touches the table.

*Bounds.* Two sites are what a wrong site takes; one of them is contested, and changes
hands away once. One change and an undo of it, one lost call, failure or restart: each
way a name of a site can grow stale takes one. `LateSetup = FALSE` lets the owner connect
her sites before she asks for changes; the walkthrough and the conversation share
nothing but `session`, which a live walkthrough does not write. The proofs have none of
these bounds.

`undo_elsewhere` shows, with nothing failing, that UNDO after a switch reverses another
site's change on the active site: `most_recent` looks for a `site_id` in a column that
never holds one and falls back to the newest row of all.

*The promise of `ToldSiteWritten` is narrow, as the code's is:* it ends with the
session. After a publication, a NO, a voice note or 15 minutes, the choice is gone and
the next change goes to the owner's first site, while UNDO still names the chosen one.
A message answered by the walkthrough never ends it.

**Proved** (`SitesProofs`), for any owners, sites, bounds and `LateSetup`: `TableOK` (one row
per URL; the owner of a row has proved her access; of an owner's rows that never moved at
most one is marked), `CallsOK` (what is submitted is complete, what is being written goes
to a connected site), `ChangesOK`, and `Promises` (what is staged or under way for an owner
names the site she was told, or none was told). None of these four theorems is
inductive alone: a change lands where its *call* says, the call comes from what is
*staged* and the *table*, and those from earlier steps. The least row of an owner, which
`FirstSite` chooses, exists because the naturals are well-founded; this is
what `WellFoundedInduction` is for. `SitesTyped` adds what a call carries to the types of
what is stored (`Carried`): the session read before the call is written back after it, a
change that failed is staged again, so their types have to survive the wait.

## IntentReading

One message from the model's answer to its effect. `ModelAnswers` ranges over every
shape of object: known and unknown action, type and fields, any of them blank, any
confidence, missing and JSON's NaN (which `min` and `max` turn into 1.0). Optional fields
that are treated alike are one. `AttemptFails` and `RateLimited` are the ways a provider
fails; `ParseAnswer` the contract; `RouteIntent` the router's own table and its decision;
`CheckOnSite` and `Dispatch` the gate and the handlers.

The properties tell where the code's lists part: `image` is not enabled on any site, so
what the router stages for it is refused after the YES; `create business_info` is no
destructive change to the router, and the handler overwrites the option, without a YES;
`delete business_info` *writes* the named fields; an `update` or `delete` without a title
passes contract, router and gate, and fails at the handler after the YES.

**Proved** (`IntentReadingProofs`): `RouterAndGateAgree` from `Vetted` (what is past the
parser conforms, what is past the router has nothing missing) and the lemma `ListsAgree`,
which compares the lists; `NothingWithoutYes` from `Harmless` (what is past the router
without a YES is not destructive); `ModelsAskedInOrder` from `AskedSoFar` (the histories
of calls there can be at each step of the chain). `ReadingTypeCorrect` gives the variables
their types. No assumption.

## The run `services`

The four components share no state. `picked` chooses one of them at the start of a
behaviour and the others rest, so that the run visits the sum of the four state spaces
(about 536 000 states, a minute), not their product, and a property of one component is
checked on all of its states. `door`: one owner, who becomes a tenant on the way; one
delivery with two of her messages; a Telegram update; two requests at a time, two
attempts, limits of 1 in windows of 1 tick, one redelivery beyond need, one fault. Two
requests are what a race takes, and two messages what a delivery cut in the middle
takes. `limits`: limits of 2 in windows of 2 ticks, 5 ticks (`Limit`, `Window`, `Ticks`), so that a window slides past
two others. `sites`, `reading`: see above. The run stops where a bound does, so
deadlock is not checked; `DoorAnswersEveryBatch` says what must not stop.

## What is not modelled

* *Left out of what is modelled:* wording and locales (except what they claim); the
  formats of fields; HTTP status mapping; post types and categories; the strings of
  triggers and decisions; what the probes of a site look at. RECAP, `/changes`,
  `/sites/list` and the dashboard's queries only read. The confidence of a transcript is
  arithmetic on floats: a voice note is trusted or not.
* *Two messages of one owner at a time in `Conversation`*, and answers of Track B later
  than the client's timeout: with either, the confirmation properties hold only in forms
  that say little, and the states are past what a run can visit. `FrontDoor` does cover
  overlapping messages up to the router, `RedisPending` overlapping decisions behind it.
* *UNDO at the same time as a write* in `ChangeUndo`.
* *The action log:* no service uses it.
* *Dashboards, login, metrics, alerting, the composer, the static site, the PHP plugin,
  stubs and scripts:* views, wording and tooling, without state of the conversation.
* *Liveness* (`EveryMessageAnswered`, `DoorAnswersEveryBatch`) is model-checked only: the
  provers here do not reach ENABLED. Every other property of a passing run is also proved.
  Deadlock is not checked in any run: with messages, faults and the clock bounded, every
  run ends in a state where nothing more happens.

## Running

`tlc -config RedisPending_serial.cfg MCRedisPending.tla`, and likewise for the other
configurations (`PROJECT.json` lists module, configuration and expected result of each);
`tlapm RedisPendingProofs.tla`, and likewise for the other `*Proofs` modules, for the
proofs. The definitions named as mutants in the
modules are plausible bugs: with one in the place of the definition it mutates, TLC
finds the property it belongs to violated.
