----------------------------- MODULE ChangeUndo -----------------------------
(***************************************************************************)
(* The change log and UNDO (track_b/changelog.py, undo.py) over the         *)
(* WordPress content of one owner's site (wordpress.py), with the write     *)
(* pipeline that fills the log (allowlist.py apply_intent) and Track A's    *)
(* retrying call (routing.py _handle_undo).  UNDO takes the newest row and  *)
(* derives the reverse from the row's shape; reading the row, writing to    *)
(* WordPress and logging the undo are steps of their own, and the reply to  *)
(* Track A can be lost.  The owner has one site, and her messages come one  *)
(* after another.  Nothing reads a row older than the newest one for UNDO,  *)
(* so that row is what the model keeps of the log.                          *)
(***************************************************************************)
EXTENDS Naturals, Sequences, FiniteSets

CONSTANTS
    Titles,       \* post titles: what update and delete find a post by
    Bodies,       \* contents of a post, and values of the business info
    NoBody,       \* no content
    Window,       \* UNDO_WINDOW_SECONDS, in ticks
    MaxAttempts,  \* CircuitBreaker max_attempts; 1 without a breaker
    MaxPosts, MaxTime, MaxFaults  \* bounds

ASSUME UndoAssumption ==
    /\ NoBody \notin Bodies
    /\ Bodies # {}
    /\ Window \in Nat /\ MaxAttempts \in Nat \ {0}
    /\ {MaxPosts, MaxTime, MaxFaults} \subseteq Nat

VARIABLES
    now,      \* the clock
    posts,    \* WordPress: the posts ever created, a post's id is its place
    info,     \* WordPress: the business_info option
    last,     \* the newest change_log row of the owner
    call,     \* the UNDO being served (asked: history, shot when it was sent)
    faults,   \* history: failures so far
    shot,     \* history: what the site showed before the change of row last
    drift,    \* history: a change reached WordPress that the log does not know
    promise   \* history: the last "you can undo this within 24h", until when

site == <<posts, info>>
history == <<shot, drift, promise>>
vars == <<now, site, last, call, faults, history>>

\* A logged before/after state.  Only a post's state carries a post_id.
State(status, id, body) == [status |-> status, id |-> id, body |-> body]
Live(i, b) == State("publish", i, b)
Trashed(i) == State("trash", i, NoBody)
InfoState(b) == State("info", 0, b)
NoState == State("none", 0, NoBody)        \* None
ErrorState == State("error", 0, NoBody)    \* {"error_message": ...}

Statuses == {"publish", "trash", "info", "none", "error"}
States == [status : Statuses, id : 0..MaxPosts, body : Bodies \cup {NoBody}]
Row(before, after) == [kind |-> "row", before |-> before, after |-> after, at |-> now]
NoRow == [kind |-> "none"]
Rows == [kind : {"row"}, before : States, after : States, at : 0..MaxTime]

\* What a visitor sees: how many live posts there are of each title and body, and
\* the business info.  Ids and the trash do not show.
View(ps, value) ==
    <<[p \in [title : Titles, body : Bodies, status : {"publish"}] |->
           Cardinality({i \in DOMAIN ps : ps[i] = p})],
      value>>
Shown == View(posts, info)

NoCall == [step |-> "none"]
NoPromise == [made |-> FALSE]
Promise == [made |-> TRUE, until |-> now + Window]

TypeOK ==
    /\ now \in 0..MaxTime
    /\ posts \in Seq([title : Titles, body : Bodies, status : {"publish", "trash"}])
    /\ Len(posts) <= MaxPosts
    /\ info \in Bodies
    /\ last \in Rows \cup {NoRow}
    /\ call # NoCall => call.attempt \in 1..MaxAttempts
    /\ call.step \in {"none", "sent", "read", "applied", "answered"}
    /\ call.step \in {"read", "applied"} => call.row \in Rows
    /\ call.step = "applied" => call.after \in States
    /\ call.step = "answered" => call.ok \in BOOLEAN
    /\ faults \in 0..MaxFaults
    /\ drift \in BOOLEAN
    /\ promise = NoPromise \/ promise.until \in Window..(MaxTime + Window)

Init ==
    /\ now = 0 /\ posts = <<>> /\ last = NoRow
    /\ info \in Bodies
    /\ call = NoCall
    /\ faults = 0 /\ drift = FALSE
    /\ shot = Shown
    /\ promise = NoPromise

Fault == faults < MaxFaults /\ faults' = faults + 1

-----------------------------------------------------------------------------
(***************************************************************************)
(* WordPress.  An effect is what a client operation does to the site and   *)
(* what it reports (ChangeRecord).  The operations of WordPressClient:     *)
(***************************************************************************)

Effect(ps, value, before, after) ==
    [posts |-> ps, info |-> value, before |-> before, after |-> after]

CreatePost(t, b) ==
    Effect(Append(posts, [title |-> t, body |-> b, status |-> "publish"]), info,
           NoState, Live(Len(posts) + 1, b))

StateOf(i) ==
    IF posts[i].status = "trash" THEN Trashed(i) ELSE Live(i, posts[i].body)

\* A PUT that carries a status brings a post back from the trash.
UpdatePost(i, b, status) ==
    Effect([posts EXCEPT ![i].body = b, ![i].status = status], info,
           StateOf(i), State(status, i, b))

\* force=false: the post goes to the trash.
DeletePost(i) ==
    Effect([posts EXCEPT ![i].status = "trash"], info, StateOf(i), Trashed(i))

UpdateSiteOption(b) == Effect(posts, b, InfoState(info), InfoState(b))

\* find_post_by_title: the newest live post with that title, none if there is none.
FindPostByTitle(t) ==
    LET found == {i \in DOMAIN posts : posts[i].title = t /\ posts[i].status = "publish"}
    IN  {i \in found : \A j \in found : j <= i}

\* The content-type handlers: all that a valid intent can do here and now.
Dispatch ==
    {CreatePost(t, b) : t \in Titles, b \in Bodies}
    \cup (UNION {{UpdatePost(i, b, "publish") : b \in Bodies} \cup {DeletePost(i)} :
                 i \in UNION {FindPostByTitle(t) : t \in Titles}})
    \cup {UpdateSiteOption(b) : b \in Bodies}

\* WordPress does it (within the bound on posts).
Perform(effect) ==
    /\ Len(effect.posts) <= MaxPosts
    /\ posts' = effect.posts
    /\ info' = effect.info

-----------------------------------------------------------------------------
(***************************************************************************)
(* The write pipeline: the change, then its row.                           *)
(***************************************************************************)

Record(before, after) ==
    /\ last' = Row(before, after)
    /\ shot' = Shown

\* Applied and logged: "You can undo this within 24h by replying UNDO."
ApplyLogged ==
    /\ call = NoCall
    /\ \E effect \in Dispatch :
          Perform(effect) /\ Record(effect.before, effect.after)
    /\ drift' = FALSE
    /\ promise' = Promise
    /\ UNCHANGED <<now, call, faults>>

\* Applied, but the row could not be inserted (or the process died first).
ApplyUnlogged ==
    /\ call = NoCall
    /\ Fault
    /\ \E effect \in Dispatch : Perform(effect)
    /\ drift' = TRUE
    /\ UNCHANGED <<now, last, call, shot, promise>>

\* Applied, but WordPress's answer is lost: logged as a failure.
ApplyTimedOut ==
    /\ call = NoCall
    /\ Fault
    /\ \E effect \in Dispatch : Perform(effect)
    /\ Record(NoState, ErrorState)
    /\ drift' = TRUE
    /\ UNCHANGED <<now, call, promise>>

\* Refused by the gate or by WordPress: _log_failure records a row all the same.
ApplyRefused ==
    /\ call = NoCall
    /\ Record(NoState, ErrorState)
    /\ UNCHANGED <<now, site, call, faults, drift, promise>>

-----------------------------------------------------------------------------
(***************************************************************************)
(* UNDO.                                                                   *)
(***************************************************************************)

SendUndo ==
    /\ call = NoCall
    /\ call' = [step |-> "sent", attempt |-> 1, asked |-> shot]
    /\ UNCHANGED <<now, site, last, faults, history>>

Sent(n) == [step |-> "sent", attempt |-> n, asked |-> call.asked]
Answer(ok) ==
    call' = [step |-> "answered", attempt |-> call.attempt, asked |-> call.asked, ok |-> ok]

\* Mutant of ReadLastRow: the window is one tick short.
ReadLastRowStrict ==
    /\ call.step = "sent"
    /\ IF last # NoRow /\ now - last.at < Window
       THEN call' = [step |-> "read", attempt |-> call.attempt, asked |-> call.asked, row |-> last]
       ELSE Answer(FALSE)
    /\ UNCHANGED <<now, site, last, faults, history>>

\* most_recent, then the window.
ReadLastRow ==
    /\ call.step = "sent"
    /\ IF last # NoRow /\ now - last.at <= Window
       THEN call' = [step |-> "read", attempt |-> call.attempt, asked |-> call.asked, row |-> last]
       ELSE Answer(FALSE)
    /\ UNCHANGED <<now, site, last, faults, history>>

\* delete_post, unless the post is in the trash already (HTTP 410) or the
\* state has no post_id.
DeleteIfLive(i) == IF i # 0 /\ posts[i].status = "publish" THEN {DeletePost(i)} ELSE {}

\* Mutant of ReverseOf: an update is reversed with the state after it.
ReverseWithAfter(row) ==
    IF row.before = NoState THEN DeleteIfLive(row.after.id)
    ELSE IF row.after.status = "trash"
         THEN {CreatePost(posts[row.before.id].title, row.before.body)}
    ELSE IF row.before.status = "trash" THEN DeleteIfLive(row.after.id)
    ELSE IF row.before.id = 0 THEN {}
    ELSE {UpdatePost(row.before.id, row.after.body, row.after.status)}

\* _reverse_apply: the reverse follows from the row's shape; {} raises.
ReverseOf(row) ==
    IF row.before = NoState THEN DeleteIfLive(row.after.id)
    ELSE IF row.after.status = "trash"
         THEN {CreatePost(posts[row.before.id].title, row.before.body)}
    ELSE IF row.before.status = "trash" THEN DeleteIfLive(row.after.id)
    ELSE IF row.before.id = 0 THEN {}
    ELSE {UpdatePost(row.before.id, row.before.body, row.before.status)}

ReverseApply ==
    /\ call.step = "read"
    /\ \E effect \in ReverseOf(call.row) :
          /\ Perform(effect)
          /\ call' = [step |-> "applied", attempt |-> call.attempt, asked |-> call.asked,
                      row |-> call.row, after |-> effect.after, was |-> Shown]
    /\ UNCHANGED <<now, last, faults, history>>

ReverseImpossible ==
    /\ call.step = "read"
    /\ ReverseOf(call.row) = {}
    /\ Answer(FALSE)
    /\ UNCHANGED <<now, site, last, faults, history>>

\* Mutant of ReverseFails: the error is swallowed.
ReverseFailsSilently ==
    /\ call.step = "read"
    /\ Fault
    /\ Answer(TRUE)
    /\ UNCHANGED <<now, site, last, history>>

\* WordPress refuses or cannot be reached.
ReverseFails ==
    /\ call.step = "read"
    /\ Fault
    /\ Answer(FALSE)
    /\ UNCHANGED <<now, site, last, history>>

\* WordPress does it, but its answer is lost: "undo failed".
ReverseTimedOut ==
    /\ call.step = "read"
    /\ Fault
    /\ \E effect \in ReverseOf(call.row) : Perform(effect)
    /\ Answer(FALSE)
    /\ drift' = TRUE
    /\ UNCHANGED <<now, last, shot, promise>>

\* Mutant of RecordUndo: before and after of the undo's row swapped.
RecordUndoSwapped ==
    /\ call.step = "applied"
    /\ last' = Row(call.after, call.row.after)
    /\ shot' = call.was
    /\ Answer(TRUE)
    /\ promise' = NoPromise
    /\ UNCHANGED <<now, site, faults, drift>>

\* The undo is a change like any other: its row can be undone in turn.
RecordUndo ==
    /\ call.step = "applied"
    /\ last' = Row(call.row.after, call.after)
    /\ shot' = call.was
    /\ Answer(TRUE)
    /\ promise' = NoPromise
    /\ UNCHANGED <<now, site, faults, drift>>

\* The row could not be inserted: "applied but could not be logged".
RecordUndoFails ==
    /\ call.step = "applied"
    /\ Fault
    /\ Answer(FALSE)
    /\ drift' = TRUE
    /\ UNCHANGED <<now, site, last, shot, promise>>

\* Track A has the answer and passes it on.
UndoAnswered ==
    /\ call.step = "answered"
    /\ call' = NoCall
    /\ UNCHANGED <<now, site, last, faults, history>>

\* Mutant of LoseUndo: retries for ever.
LoseUndoForEver ==
    /\ call.step \in {"sent", "answered"}
    /\ Fault
    /\ call' = Sent(call.attempt + 1)
    /\ UNCHANGED <<now, site, last, history>>

\* The request or the answer is lost: Track A asks again, or gives up.
LoseUndo ==
    /\ call.step \in {"sent", "answered"}
    /\ Fault
    /\ call' = IF call.attempt < MaxAttempts THEN Sent(call.attempt + 1) ELSE NoCall
    /\ UNCHANGED <<now, site, last, history>>

Tick ==
    /\ now < MaxTime
    /\ now' = now + 1
    /\ UNCHANGED <<site, last, call, faults, history>>

Next ==
    \/ ApplyLogged \/ ApplyUnlogged \/ ApplyTimedOut \/ ApplyRefused
    \/ SendUndo \/ ReadLastRow
    \/ ReverseApply \/ ReverseImpossible \/ ReverseFails \/ ReverseTimedOut
    \/ RecordUndo \/ RecordUndoFails \/ UndoAnswered \/ LoseUndo
    \/ Tick

Spec == Init /\ [][Next]_vars

-----------------------------------------------------------------------------
(***************************************************************************)
(* Properties.  Where a change reached WordPress without a row (drift), the *)
(* code itself says "do not trust the live state".                          *)
(***************************************************************************)

\* Rows UNDO cannot reverse, for want of a post_id: failed writes, business
\* info, images and pages.
Reversible(row) == row.before.id # 0 \/ row.after.id # 0

\* Undo is "a reverse-apply of the stored before state, never a re-guess"
\* (changelog.py:5-6): when an undo was applied, the site shows exactly
\* what it showed before the change of the row, whether that was a create, an
\* update, a delete (whose post comes back under a new id) or an undo of one.
UndoRestores ==
    [][call.step = "read" /\ (call'.step = "applied" \/ site' # site) /\ ~drift
           => View(posts', info') = shot]_vars

\* The log is a picture of the site: between two calls, the post of the newest
\* row is in the state the row says it was left in.
LogDescribesSite ==
    (call = NoCall /\ ~drift /\ last # NoRow) => last.after.id = 0 \/
        LET post == posts[last.after.id] IN
        /\ post.status = last.after.status
        /\ last.after.status = "publish" => post.body = last.after.body

\* "Done, your last change has been reverted" (locales/en.json:12-13): the
\* owner is told so only when the site shows what it showed before the change
\* that was the last one when UNDO was said.
UndoneMeansReverted ==
    [][call.step = "answered" /\ call.ok /\ call' = NoCall /\ ~drift
           => Shown = call.asked]_vars

\* ... which is so when the first attempt answers.
TruthfulUndo ==
    [][call.step = "answered" /\ call.ok /\ call' = NoCall /\ ~drift
       /\ call.attempt = 1 => Shown = call.asked]_vars

\* "You can undo this within 24h by replying UNDO" (the completion message):
\* while the promise stands and nothing fails, Track B does not turn UNDO down.
TurnedDown ==
    /\ call.step \in {"sent", "read"}
    /\ call'.step = "answered" /\ ~call'.ok
    /\ faults' = faults

PromiseKept ==
    [][promise.made /\ now <= promise.until /\ ~drift => ~TurnedDown]_vars

\* ... which is so while the newest row is that of a post.
PromiseKeptForPosts ==
    [][promise.made /\ now <= promise.until /\ ~drift /\ last # NoRow /\ Reversible(last)
           => ~TurnedDown]_vars
=============================================================================
