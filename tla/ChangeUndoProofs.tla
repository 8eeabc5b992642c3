-------------------------- MODULE ChangeUndoProofs --------------------------
(***************************************************************************)
(* Proofs about ChangeUndo, for every set of titles and contents, every    *)
(* undo window and every bound.                                            *)
(*                                                                         *)
(* A row is reversed by what it looks like, so the argument is about what  *)
(* rows can look like: the states of a row name posts that exist, a post   *)
(* can only have gone to the trash from being live, and the newest row's   *)
(* after state is that of its post until an undo of it was applied - from  *)
(* then on it is the undo's own after state.  With that, whatever would    *)
(* undo the newest row restores what the site showed before it, step by    *)
(* step: to undo is itself a change that can be undone.                    *)
(***************************************************************************)
EXTENDS ChangeUndo, FiniteSetTheorems, SequenceTheorems, TLAPS

Post == [title : Titles, body : Bodies, status : {"publish", "trash"}]

\* A state as a handler reports it, over n posts.
StateOver(s, n) ==
    /\ s \in [status : Statuses, id : 0..n, body : Bodies \cup {NoBody}]
    /\ s.id # 0 <=> s.status \in {"publish", "trash"}
    /\ s.status = "publish" => s.body \in Bodies

\* What may follow what: only a live post goes to the trash, a post stays a post,
\* and a live one stays the same.
Linked(before, after, n) ==
    /\ StateOver(before, n) /\ StateOver(after, n)
    /\ after.status = "trash" => before.status = "publish"
    /\ before.id # 0 => after.id # 0
    /\ after.id # 0 /\ before.id = 0 => before = NoState
    /\ before.status = "publish" /\ after.status = "publish" => before.id = after.id

Matches(s, ps) ==
    s.id # 0 => /\ ps[s.id].status = s.status
                /\ s.status = "publish" => ps[s.id].body = s.body

RowsSound ==
    /\ last # NoRow => Linked(last.before, last.after, Len(posts))
    /\ call = NoCall \/ call.step # "none"
    /\ call.step \in {"read", "applied"} => call.row = last /\ last # NoRow
    /\ call.step = "applied" => Linked(last.after, call.after, Len(posts))
    /\ ~drift /\ last # NoRow /\ call.step # "applied" => Matches(last.after, posts)
    /\ ~drift /\ call.step = "applied" => Matches(call.after, posts)

\* An effect keeps posts posts, never loses one, and reports what it leaves.
GoodEffect(e) ==
    /\ e.posts \in Seq(Post) /\ Len(posts) <= Len(e.posts) /\ e.info \in Bodies
    /\ Linked(e.before, e.after, Len(e.posts))
    /\ Matches(e.after, e.posts)

LEMMA Widened ==
    ASSUME NEW n \in Nat, NEW m \in Nat, n <= m, NEW s, StateOver(s, n)
    PROVE  StateOver(s, m)
BY DEF StateOver

LEMMA LinkedWider ==
    ASSUME NEW n \in Nat, NEW m \in Nat, n <= m, NEW b, NEW a, Linked(b, a, n)
    PROVE  Linked(b, a, m)
BY Widened DEF Linked

LEMMA PostsTyped ==
    ASSUME TypeOK
    PROVE  /\ posts \in Seq(Post) /\ Len(posts) \in Nat /\ DOMAIN posts = 1..Len(posts)
           /\ \A i \in DOMAIN posts : posts[i] \in Post
<1>1. posts \in Seq(Post)
  BY DEF TypeOK, Post
<1> QED
  BY <1>1

\* The states without a post.
LEMMA NoPostStates ==
    ASSUME NEW n \in Nat
    PROVE  /\ StateOver(NoState, n) /\ StateOver(ErrorState, n)
           /\ \A b \in Bodies : StateOver(InfoState(b), n) /\ InfoState(b).id = 0 /\ InfoState(b).status = "info"
           /\ NoState.id = 0 /\ NoState.status = "none"
           /\ ErrorState.id = 0 /\ ErrorState.status = "error"
BY DEF StateOver, NoState, ErrorState, InfoState, State, Statuses

LEMMA PostStates ==
    ASSUME NEW n \in Nat, NEW i \in 1..n
    PROVE  /\ StateOver(Trashed(i), n) /\ Trashed(i).id = i /\ Trashed(i).status = "trash"
           /\ \A b \in Bodies : /\ StateOver(Live(i, b), n) /\ Live(i, b).id = i
                                /\ Live(i, b).status = "publish" /\ Live(i, b).body = b
BY DEF StateOver, Trashed, Live, State, Statuses

LEMMA CreateGood ==
    ASSUME TypeOK, NEW t \in Titles, NEW b \in Bodies
    PROVE  GoodEffect(CreatePost(t, b))
<1> DEFINE p == [title |-> t, body |-> b, status |-> "publish"]
           ps == Append(posts, p)
           n == Len(posts) + 1
<1>1. p \in Post /\ p.status = "publish" /\ p.body = b
  BY DEF Post
<1>2. ps \in Seq(Post) /\ Len(ps) = n /\ ps[n] = p /\ n \in 1..n /\ n \in Nat
  BY <1>1, PostsTyped, AppendProperties
<1>3. CreatePost(t, b) = Effect(ps, info, NoState, Live(n, b))
  BY DEF CreatePost
<1> HIDE DEF p, ps, n
<1>4. Linked(NoState, Live(n, b), n)
  BY <1>2, NoPostStates, PostStates DEF Linked
<1>5. Matches(Live(n, b), ps)
  BY <1>1, <1>2, PostStates DEF Matches
<1> QED
  BY <1>2, <1>3, <1>4, <1>5, PostsTyped DEF GoodEffect, Effect, TypeOK, n

LEMMA ChangeGood ==
    ASSUME TypeOK, NEW i \in DOMAIN posts
    PROVE  /\ \A b \in Bodies : GoodEffect(UpdatePost(i, b, "publish"))
           /\ posts[i].status = "publish" => GoodEffect(DeletePost(i))
<1> DEFINE n == Len(posts)
<1>1. n \in Nat /\ i \in 1..n /\ posts[i] \in Post
  BY PostsTyped
<1>2. /\ StateOver(StateOf(i), n) /\ (posts[i].status = "publish" => StateOf(i).status = "publish")
      /\ StateOf(i).id = i /\ i # 0
  BY <1>1, PostStates DEF StateOf, Post
<1>3. ASSUME NEW b \in Bodies
      PROVE  GoodEffect(UpdatePost(i, b, "publish"))
  <2> DEFINE ps == [posts EXCEPT ![i].body = b, ![i].status = "publish"]
  <2> DEFINE qs == [posts EXCEPT ![i].body = b]
  <2>1. ps \in Seq(Post) /\ Len(ps) = n
    <3>1. qs \in Seq(Post) /\ Len(qs) = n
      BY <1>1, PostsTyped DEF Post
    <3>2. ps = [qs EXCEPT ![i].status = "publish"]
      OBVIOUS
    <3> HIDE DEF ps, qs
    <3>3. [qs EXCEPT ![i].status = "publish"] \in Seq(Post) /\ Len([qs EXCEPT ![i].status = "publish"]) = n
      <4>1. qs[i] \in Post /\ DOMAIN qs = 1..n
        BY <1>1, <3>1
      <4>2. [qs[i] EXCEPT !.status = "publish"] \in Post
        BY <4>1 DEF Post
      <4> QED
        BY <1>1, <3>1, <4>1, <4>2, ExceptSeq
    <3> QED
      BY <3>2, <3>3
  <2>2. ps[i].status = "publish" /\ ps[i].body = b
    BY <1>1, PostsTyped DEF Post
  <2>3. UpdatePost(i, b, "publish") = Effect(ps, info, StateOf(i), Live(i, b))
    BY DEF UpdatePost, Live
  <2> HIDE DEF ps
  <2>4. Linked(StateOf(i), Live(i, b), n)
    BY <1>1, <1>2, PostStates DEF Linked
  <2>5. Matches(Live(i, b), ps)
    BY <1>1, <2>2, PostStates DEF Matches
  <2> QED
    BY <1>1, <2>1, <2>3, <2>4, <2>5 DEF GoodEffect, Effect, TypeOK
<1>4. ASSUME posts[i].status = "publish"
      PROVE  GoodEffect(DeletePost(i))
  <2> DEFINE ps == [posts EXCEPT ![i].status = "trash"]
  <2>1. ps \in Seq(Post) /\ Len(ps) = n
    BY <1>1, PostsTyped DEF Post
  <2>2. ps[i].status = "trash"
    BY <1>1, PostsTyped DEF Post
  <2>3. DeletePost(i) = Effect(ps, info, StateOf(i), Trashed(i))
    BY DEF DeletePost
  <2> HIDE DEF ps
  <2>4. Linked(StateOf(i), Trashed(i), n)
    BY <1>1, <1>2, <1>4, PostStates DEF Linked
  <2>5. Matches(Trashed(i), ps)
    BY <1>1, <2>2, PostStates DEF Matches
  <2> QED
    BY <1>1, <2>1, <2>3, <2>4, <2>5 DEF GoodEffect, Effect, TypeOK
<1> QED
  BY <1>3, <1>4

LEMMA OptionGood ==
    ASSUME TypeOK, NEW b \in Bodies
    PROVE  GoodEffect(UpdateSiteOption(b))
<1>1. Len(posts) \in Nat /\ posts \in Seq(Post) /\ info \in Bodies
  BY PostsTyped DEF TypeOK
<1>2. Linked(InfoState(info), InfoState(b), Len(posts)) /\ Matches(InfoState(b), posts)
  BY <1>1, NoPostStates DEF Linked, Matches
<1> QED
  BY <1>1, <1>2 DEF GoodEffect, UpdateSiteOption, Effect

\* Whatever a valid intent does to the site, its row tells.
LEMMA DispatchGood ==
    ASSUME TypeOK, NEW e \in Dispatch
    PROVE  GoodEffect(e)
<1>1. CASE \E t \in Titles, b \in Bodies : e = CreatePost(t, b)
  BY <1>1, CreateGood
<1>2. CASE \E t \in Titles : \E i \in FindPostByTitle(t) :
               (\E b \in Bodies : e = UpdatePost(i, b, "publish")) \/ e = DeletePost(i)
  <2>0. PICK t \in Titles : \E i \in FindPostByTitle(t) :
            (\E b \in Bodies : e = UpdatePost(i, b, "publish")) \/ e = DeletePost(i)
    BY <1>2
  <2>1. PICK i \in FindPostByTitle(t) :
            (\E b \in Bodies : e = UpdatePost(i, b, "publish")) \/ e = DeletePost(i)
    BY <2>0
  <2>2. i \in DOMAIN posts /\ posts[i].status = "publish"
    BY <2>1 DEF FindPostByTitle
  <2> QED
    BY <2>1, <2>2, ChangeGood
<1>3. CASE \E b \in Bodies : e = UpdateSiteOption(b)
  BY <1>3, OptionGood
<1> QED
  BY <1>1, <1>2, <1>3 DEF Dispatch

\* So does an undo: its row goes from where the undone one ended to where the undo
\* ends, and is one that can be undone in turn.
LEMMA ReverseGood ==
    ASSUME TypeOK, NEW row, Linked(row.before, row.after, Len(posts)), NEW e \in ReverseOf(row)
    PROVE  GoodEffect(e) /\ Linked(row.after, e.after, Len(e.posts))
<1> DEFINE n == Len(posts)
<1>1. n \in Nat /\ DOMAIN posts = 1..n /\ \A i \in DOMAIN posts : posts[i] \in Post
  BY PostsTyped
<1>2. /\ StateOver(row.before, n) /\ StateOver(row.after, n)
      /\ row.before.id \in 0..n /\ row.after.id \in 0..n
      /\ row.after.status = "trash" => row.before.status = "publish"
  BY DEF Linked, StateOver
<1>3. ASSUME e \in DeleteIfLive(row.after.id), row.after.status # "trash"
      PROVE  GoodEffect(e) /\ Linked(row.after, e.after, Len(e.posts))
  <2>1. /\ row.after.id \in DOMAIN posts /\ posts[row.after.id].status = "publish"
        /\ row.after.id # 0 /\ e = DeletePost(row.after.id)
    BY <1>1, <1>2, <1>3 DEF DeleteIfLive
  <2>2. GoodEffect(e)
    BY <2>1, ChangeGood
  <2>3. row.after.status = "publish"
    BY <1>2, <1>3, <2>1, <1>1 DEF StateOver
  <2>4. Len(e.posts) \in Nat /\ n <= Len(e.posts) /\ StateOver(e.after, Len(e.posts))
    BY <2>2 DEF GoodEffect, Linked
  <2>5. e.after.status = "trash" /\ e.after.id = row.after.id
    BY <2>1 DEF DeletePost, Effect, Trashed, State
  <2> QED
    BY <1>1, <1>2, <2>1, <2>2, <2>3, <2>4, <2>5, Widened DEF Linked
<1>4. ASSUME e = CreatePost(posts[row.before.id].title, row.before.body), row.after.status = "trash"
      PROVE  GoodEffect(e) /\ Linked(row.after, e.after, Len(e.posts))
  <2>1. row.before.id \in DOMAIN posts /\ row.before.body \in Bodies /\ row.after.id # 0
    BY <1>1, <1>2, <1>4 DEF StateOver
  <2>2. posts[row.before.id].title \in Titles
    BY <1>1, <2>1 DEF Post
  <2>3. GoodEffect(e)
    BY <1>4, <2>1, <2>2, CreateGood
  <2>4. Len(e.posts) \in Nat /\ n <= Len(e.posts) /\ StateOver(e.after, Len(e.posts))
    BY <2>3 DEF GoodEffect, Linked
  <2>5. e.after.status = "publish" /\ e.after.id = n + 1
    BY <1>4 DEF CreatePost, Effect, Live, State
  <2> QED
    <3>1. StateOver(row.after, Len(e.posts))
      BY <1>1, <1>2, <2>4, Widened
    <3>2. e.after.id # 0
      BY <1>1, <2>5
    <3> HIDE DEF n
    <3> QED
      BY <1>4, <2>1, <2>3, <2>4, <2>5, <3>1, <3>2 DEF Linked
<1>5. ASSUME e = UpdatePost(row.before.id, row.before.body, row.before.status),
             row.before.id # 0, row.before.status # "trash", row.after.status # "trash"
      PROVE  GoodEffect(e) /\ Linked(row.after, e.after, Len(e.posts))
  <2>1. /\ row.before.id \in DOMAIN posts /\ row.before.body \in Bodies
        /\ row.before.status = "publish"
    BY <1>1, <1>2, <1>5 DEF StateOver
  <2>2. GoodEffect(e)
    BY <1>5, <2>1, ChangeGood
  <2>3. Len(e.posts) \in Nat /\ n <= Len(e.posts) /\ StateOver(e.after, Len(e.posts))
    BY <2>2 DEF GoodEffect, Linked
  <2>4. e.after.status = "publish" /\ e.after.id = row.before.id
    BY <1>5, <2>1 DEF UpdatePost, Effect, State
  <2>5. row.after.status = "publish" /\ row.after.id = row.before.id
    BY <1>1, <1>2, <1>5, <2>1 DEF Linked, StateOver
  <2> QED
    BY <1>1, <1>2, <1>5, <2>2, <2>3, <2>4, <2>5, Widened DEF Linked
<1>6. CASE row.before = NoState
  <2>1. row.after.status # "trash"
    BY <1>1, <1>2, <1>6, NoPostStates
  <2> QED
    BY <1>3, <1>6, <2>1 DEF ReverseOf
<1>7. CASE row.before # NoState
  BY <1>3, <1>4, <1>5, <1>7 DEF ReverseOf
<1> QED
  BY <1>6, <1>7

-----------------------------------------------------------------------------
Sound == TypeOK /\ RowsSound

\* States that are sound over the posts there may be are states of a row.
LEMMA StatesBounded ==
    ASSUME NEW n \in Nat, n <= MaxPosts, NEW s, StateOver(s, n)
    PROVE  s \in States
BY UndoAssumption DEF StateOver, States

LEMMA RowTyped ==
    ASSUME now \in 0..MaxTime, NEW b \in States, NEW a \in States
    PROVE  /\ Row(b, a) \in Rows /\ Row(b, a) # NoRow
           /\ Row(b, a).before = b /\ Row(b, a).after = a
BY DEF Row, Rows, NoRow

\* What performing a good effect leaves, whoever performs it.
LEMMA Performed ==
    ASSUME TypeOK, NEW e, GoodEffect(e), Perform(e)
    PROVE  /\ posts' \in Seq(Post) /\ Len(posts') <= MaxPosts /\ info' \in Bodies
           /\ Len(posts') \in Nat /\ Len(posts) \in Nat /\ Len(posts) <= Len(posts')
           /\ e.before \in States /\ e.after \in States
           /\ Linked(e.before, e.after, Len(posts')) /\ Matches(e.after, posts')
<1>1. posts' = e.posts /\ info' = e.info /\ Len(e.posts) <= MaxPosts
  BY DEF Perform
<1>2. Len(e.posts) \in Nat /\ Len(posts) \in Nat
  BY PostsTyped DEF GoodEffect
<1>3. e.before \in States /\ e.after \in States
  BY <1>1, <1>2, StatesBounded DEF GoodEffect, Linked
<1> QED
  BY <1>1, <1>2, <1>3 DEF GoodEffect

LEMMA CallFacts ==
    ASSUME Sound
    PROVE  /\ now \in 0..MaxTime /\ faults \in 0..MaxFaults
           /\ last # NoRow => last \in Rows
           /\ call = NoCall <=> call.step = "none"
           /\ call # NoCall => call.attempt \in 1..MaxAttempts
           /\ call.step \in {"read", "applied"} => call.row = last /\ last # NoRow
           /\ call.step = "applied" => call.after \in States /\ Linked(last.after, call.after, Len(posts))
           /\ NoCall.step = "none"
<1>1. NoCall.step = "none"
  BY DEF NoCall
<1> QED
  BY <1>1 DEF Sound, TypeOK, RowsSound

\* The pipeline: a change, or a failure, and its row.
LEMMA ApplyKeepsSound ==
    ASSUME Sound, ApplyLogged \/ ApplyUnlogged \/ ApplyTimedOut \/ ApplyRefused
    PROVE  Sound'
<1> USE UndoAssumption
<1>1. call = NoCall /\ UNCHANGED <<call, now>> /\ call.step = "none"
  BY DEF ApplyLogged, ApplyUnlogged, ApplyTimedOut, ApplyRefused, NoCall
<1>2. now \in 0..MaxTime /\ faults' \in 0..MaxFaults /\ Len(posts) \in Nat /\ Len(posts) <= MaxPosts
  BY PostsTyped DEF ApplyLogged, ApplyUnlogged, ApplyTimedOut, ApplyRefused, Fault, Sound, TypeOK
<1>3. CASE ApplyRefused
  <2>1. /\ last' = Row(NoState, ErrorState) /\ UNCHANGED <<posts, info, faults, drift, promise>>
    BY <1>3 DEF ApplyRefused, Record, site
  <2>2. /\ StateOver(NoState, Len(posts)) /\ StateOver(ErrorState, Len(posts))
        /\ ErrorState.id = 0 /\ ErrorState.status = "error" /\ NoState.id = 0 /\ NoState.status = "none"
    BY <1>2, NoPostStates
  <2>3. NoState \in States /\ ErrorState \in States
    BY <1>2, <2>2, StatesBounded
  <2>4. last' \in Rows /\ last'.before = NoState /\ last'.after = ErrorState
    BY <1>2, <2>1, <2>3, RowTyped
  <2>5. TypeOK'
    BY <1>1, <1>2, <2>1, <2>4 DEF Sound, TypeOK
  <2>6. RowsSound'
    BY <1>1, <2>1, <2>2, <2>4 DEF RowsSound, Linked, Matches
  <2> QED
    BY <2>5, <2>6 DEF Sound
<1>4. CASE ~ApplyRefused
  <2>1. PICK e \in Dispatch : Perform(e) /\ (ApplyLogged => Record(e.before, e.after))
    BY <1>4 DEF ApplyLogged, ApplyUnlogged, ApplyTimedOut
  <2>2. GoodEffect(e)
    BY <2>1, DispatchGood DEF Sound
  <2>3. /\ posts' \in Seq(Post) /\ Len(posts') <= MaxPosts /\ info' \in Bodies
        /\ Len(posts') \in Nat /\ Len(posts) <= Len(posts')
        /\ e.before \in States /\ e.after \in States
        /\ Linked(e.before, e.after, Len(posts')) /\ Matches(e.after, posts')
    BY <2>1, <2>2, Performed DEF Sound
  <2>4. CASE ApplyLogged
    <3>1. last' = Row(e.before, e.after) /\ drift' = FALSE /\ promise' = Promise /\ UNCHANGED faults
      BY <2>1, <2>4 DEF ApplyLogged, Record
    <3>2. last' \in Rows /\ last'.before = e.before /\ last'.after = e.after
      BY <1>2, <2>3, <3>1, RowTyped
    <3>3. promise'.until \in Window..(MaxTime + Window)
      BY <1>2, <3>1 DEF Promise
    <3>4. TypeOK'
      BY <1>1, <1>2, <2>3, <3>1, <3>2, <3>3 DEF Sound, TypeOK, Post
    <3> QED
      BY <1>1, <2>3, <3>1, <3>2, <3>4 DEF Sound, RowsSound
  <2>5. CASE ApplyUnlogged
    <3>1. UNCHANGED <<last, promise>> /\ drift' = TRUE
      BY <2>5 DEF ApplyUnlogged
    <3>2. TypeOK'
      BY <1>1, <1>2, <2>3, <3>1 DEF Sound, TypeOK, Post
    <3> QED
      BY <1>1, <1>2, <2>3, <3>1, <3>2, LinkedWider DEF Sound, RowsSound
  <2>6. CASE ApplyTimedOut
    <3>1. last' = Row(NoState, ErrorState) /\ UNCHANGED promise /\ drift' = TRUE
      BY <2>6 DEF ApplyTimedOut, Record
    <3>2. /\ StateOver(NoState, Len(posts')) /\ StateOver(ErrorState, Len(posts'))
          /\ ErrorState.id = 0 /\ ErrorState.status = "error" /\ NoState.id = 0 /\ NoState.status = "none"
      BY <2>3, NoPostStates
    <3>3. NoState \in States /\ ErrorState \in States
      BY <2>3, <3>2, StatesBounded
    <3>4. last' \in Rows /\ last'.before = NoState /\ last'.after = ErrorState
      BY <1>2, <3>1, <3>3, RowTyped
    <3>5. TypeOK'
      BY <1>1, <1>2, <2>3, <3>1, <3>4 DEF Sound, TypeOK, Post
    <3> QED
      BY <1>1, <3>1, <3>2, <3>4, <3>5 DEF Sound, RowsSound, Linked
  <2> QED
    BY <1>4, <2>4, <2>5, <2>6
<1> QED
  BY <1>3, <1>4

\* The reverse reaches WordPress, and its answer Track B or not.
LEMMA ReverseKeepsSound ==
    ASSUME Sound, ReverseApply \/ ReverseTimedOut
    PROVE  Sound'
<1> USE UndoAssumption
<1>1. call.step = "read" /\ UNCHANGED <<now, last, promise>> /\ call.row = last /\ last # NoRow
  BY CallFacts DEF ReverseApply, ReverseTimedOut, history
<1>2. PICK e \in ReverseOf(last) : /\ Perform(e)
                                   /\ ReverseApply => /\ call'.step = "applied" /\ call'.row = call.row
                                                      /\ call'.attempt = call.attempt
                                                      /\ call'.after = e.after
  <2>1. CASE ReverseApply
    BY <1>1, <2>1 DEF ReverseApply
  <2>2. CASE ReverseTimedOut /\ ~ReverseApply
    BY <1>1, <2>2 DEF ReverseTimedOut
  <2> QED
    BY <2>1, <2>2
<1>3. /\ GoodEffect(e) /\ Linked(last.after, e.after, Len(e.posts))
      /\ Linked(last.before, last.after, Len(posts))
  BY <1>1, <1>2, ReverseGood DEF Sound, RowsSound
<1>4. /\ posts' \in Seq(Post) /\ Len(posts') <= MaxPosts /\ info' \in Bodies
      /\ Len(posts') \in Nat /\ Len(posts) \in Nat /\ Len(posts) <= Len(posts')
      /\ e.after \in States /\ Matches(e.after, posts') /\ posts' = e.posts
  BY <1>2, <1>3, Performed DEF Sound, Perform
<1>5. Linked(last.before, last.after, Len(posts'))
  BY <1>3, <1>4, LinkedWider
<1>6. call # NoCall /\ call.attempt \in 1..MaxAttempts /\ call.row \in Rows
  BY <1>1 DEF NoCall, Sound, TypeOK
<1>7. CASE ReverseApply
  <2>1. UNCHANGED <<faults, drift>>
    BY <1>7 DEF ReverseApply, history
  <2>2. TypeOK'
    BY <1>1, <1>2, <1>4, <1>6, <1>7, <2>1 DEF Sound, TypeOK, Post
  <2> QED
    BY <1>1, <1>2, <1>3, <1>4, <1>5, <1>7, <2>1, <2>2 DEF Sound, RowsSound
<1>8. CASE ReverseTimedOut
  <2>1. /\ call'.step = "answered" /\ call'.ok = FALSE /\ call'.attempt = call.attempt
        /\ faults' \in 0..MaxFaults /\ drift' = TRUE
    BY <1>8 DEF ReverseTimedOut, Answer, Fault, Sound, TypeOK
  <2>2. TypeOK'
    BY <1>1, <1>4, <1>6, <2>1 DEF Sound, TypeOK, Post
  <2> QED
    BY <1>1, <1>5, <2>1, <2>2 DEF Sound, RowsSound
<1> QED
  BY <1>7, <1>8

\* The undo's own row.
LEMMA RecordKeepsSound ==
    ASSUME Sound, RecordUndo \/ RecordUndoFails
    PROVE  Sound'
<1> USE UndoAssumption
<1>1. /\ call.step = "applied" /\ call.row = last /\ last # NoRow /\ call # NoCall
      /\ call.attempt \in 1..MaxAttempts /\ call.after \in States
      /\ Linked(last.after, call.after, Len(posts)) /\ last \in Rows
  BY CallFacts DEF RecordUndo, RecordUndoFails
<1>2. /\ UNCHANGED <<now, posts, info>> /\ now \in 0..MaxTime /\ faults' \in 0..MaxFaults
      /\ call'.step = "answered" /\ call'.ok \in BOOLEAN /\ call'.attempt = call.attempt
  <2>1. CASE RecordUndo
    BY <2>1, CallFacts DEF RecordUndo, Answer, site
  <2>2. CASE RecordUndoFails
    BY <2>2, CallFacts DEF RecordUndoFails, Answer, Fault, site
  <2> QED
    BY <2>1, <2>2
<1>3. CASE RecordUndo
  <2>1. last' = Row(last.after, call.after) /\ promise' = NoPromise /\ UNCHANGED drift
    BY <1>1, <1>3 DEF RecordUndo
  <2>2. last' \in Rows /\ last'.before = last.after /\ last'.after = call.after
    BY <1>1, <1>2, <2>1, RowTyped DEF Rows
  <2>3. TypeOK'
    BY <1>1, <1>2, <2>1, <2>2 DEF Sound, TypeOK
  <2> QED
    BY <1>1, <1>2, <2>1, <2>2, <2>3 DEF Sound, RowsSound
<1>4. CASE RecordUndoFails
  <2>1. UNCHANGED <<last, promise>> /\ drift' = TRUE
    BY <1>4 DEF RecordUndoFails
  <2>2. TypeOK'
    BY <1>1, <1>2, <2>1 DEF Sound, TypeOK
  <2> QED
    BY <1>1, <1>2, <2>1, <2>2 DEF Sound, RowsSound
<1> QED
  BY <1>3, <1>4

\* A step of the call that touches neither the site nor the log.
LEMMA CallMoves ==
    ASSUME Sound, UNCHANGED <<now, posts, info, last, drift, promise>>, faults' \in 0..MaxFaults,
           call.step # "applied",
           \/ call' = NoCall
           \/ /\ call'.attempt \in 1..MaxAttempts /\ call'.step \in {"sent", "read", "answered"}
              /\ call'.step = "read" => call'.row = last /\ last # NoRow
              /\ call'.step = "answered" => call'.ok \in BOOLEAN
    PROVE  Sound'
<1>1. TypeOK'
  BY CallFacts DEF Sound, TypeOK
<1> QED
  BY <1>1, CallFacts DEF Sound, RowsSound

LEMMA CallKeepsSound ==
    ASSUME Sound,
           SendUndo \/ ReadLastRow \/ ReverseImpossible \/ ReverseFails \/ UndoAnswered \/ LoseUndo
    PROVE  Sound'
<1> USE UndoAssumption
<1>1. CASE SendUndo
  <2>1. /\ call = NoCall /\ call'.attempt = 1 /\ call'.step = "sent"
        /\ UNCHANGED <<now, posts, info, last, drift, promise, faults>>
    BY <1>1 DEF SendUndo, site, history
  <2> QED
    BY <2>1, CallFacts, CallMoves
<1>2. CASE ReadLastRow
  <2>1. /\ call.step = "sent" /\ call'.attempt = call.attempt
        /\ UNCHANGED <<now, posts, info, last, drift, promise, faults>>
        /\ \/ last # NoRow /\ call'.step = "read" /\ call'.row = last
           \/ call'.step = "answered" /\ call'.ok = FALSE
    BY <1>2 DEF ReadLastRow, Answer, site, history
  <2> QED
    BY <2>1, CallFacts, CallMoves
<1>3. CASE ReverseImpossible \/ ReverseFails
  <2>1. /\ call.step = "read" /\ call'.attempt = call.attempt
        /\ call'.step = "answered" /\ call'.ok = FALSE
        /\ UNCHANGED <<now, posts, info, last, drift, promise>>
    BY <1>3 DEF ReverseImpossible, ReverseFails, Answer, site, history
  <2>2. faults' \in 0..MaxFaults
    <3>1. CASE ReverseImpossible
      BY <3>1, CallFacts DEF ReverseImpossible
    <3>2. CASE ReverseFails
      BY <3>2, CallFacts DEF ReverseFails, Fault
    <3> QED
      BY <1>3, <3>1, <3>2
  <2> QED
    BY <2>1, <2>2, CallFacts, CallMoves
<1>4. CASE UndoAnswered
  <2>1. /\ call.step = "answered" /\ call' = NoCall
        /\ UNCHANGED <<now, posts, info, last, drift, promise, faults>>
    BY <1>4 DEF UndoAnswered, site, history
  <2> QED
    BY <2>1, CallFacts, CallMoves
<1>5. CASE LoseUndo
  <2>1. /\ call.step \in {"sent", "answered"}
        /\ UNCHANGED <<now, posts, info, last, drift, promise>>
        /\ \/ call.attempt < MaxAttempts /\ call'.step = "sent" /\ call'.attempt = call.attempt + 1
           \/ call' = NoCall
    BY <1>5 DEF LoseUndo, Sent, site, history
  <2>2. faults' \in 0..MaxFaults
    BY <1>5, CallFacts DEF LoseUndo, Fault
  <2>3. call.attempt \in 1..MaxAttempts
    BY <2>1, CallFacts
  <2> QED
    BY <2>1, <2>2, <2>3, CallMoves
<1> QED
  BY <1>1, <1>2, <1>3, <1>4, <1>5

LEMMA SoundStep ==
    ASSUME Sound, [Next]_vars
    PROVE  Sound'
<1>1. CASE Tick
  <2>1. UNCHANGED <<posts, info, last, call, faults, drift, promise>> /\ now' \in 0..MaxTime
    BY <1>1, UndoAssumption DEF Tick, site, history, Sound, TypeOK
  <2> QED
    BY <2>1 DEF Sound, TypeOK, RowsSound
<1>2. CASE UNCHANGED vars
  BY <1>2 DEF vars, site, history, Sound, TypeOK, RowsSound
<1> QED
  BY <1>1, <1>2, ApplyKeepsSound, ReverseKeepsSound, RecordKeepsSound, CallKeepsSound DEF Next

LEMMA SoundInit == Init => Sound
<1> SUFFICES ASSUME Init PROVE Sound
  OBVIOUS
<1>1. call = NoCall /\ call.step = "none" /\ last = NoRow /\ posts = <<>> /\ Len(posts) = 0
  BY DEF Init, NoCall
<1>2. /\ now \in 0..MaxTime /\ faults \in 0..MaxFaults /\ Len(posts) <= MaxPosts
  BY <1>1, UndoAssumption DEF Init
<1>3. posts \in Seq([title : Titles, body : Bodies, status : {"publish", "trash"}])
  BY <1>1
<1>4. TypeOK
  BY <1>1, <1>2, <1>3 DEF Init, TypeOK
<1> QED
  BY <1>1, <1>4 DEF Sound, RowsSound

LEMMA SoundAlways == Spec => []Sound
BY SoundInit, SoundStep, PTL DEF Spec

\* The variables keep their types: rows name posts there are.
THEOREM TypeCorrect == Spec => []TypeOK
<1>1. Sound => TypeOK
  BY DEF Sound
<1> QED
  BY <1>1, SoundAlways, PTL

\* Between two calls the newest row tells the state of its post, unless a change
\* reached WordPress without a row (changelog.py, undo.py, apply_intent).
THEOREM NewestRowIsTrue == Spec => []LogDescribesSite
<1>1. Sound => LogDescribesSite
  BY DEF Sound, RowsSound, Matches, LogDescribesSite, NoCall
<1> QED
  BY <1>1, SoundAlways, PTL

-----------------------------------------------------------------------------
(***************************************************************************)
(* The promise.  It is made with a row and falls with the next undo, and    *)
(* rows only get younger: it never outlives the window of the newest row.   *)
(***************************************************************************)
Promised ==
    /\ last # NoRow => last.at <= now
    /\ promise.made => last # NoRow /\ promise.until <= last.at + Window

LEMMA PromiseKeeps ==
    ASSUME Sound, Promised, [Next]_vars
    PROVE  Promised'
<1> USE UndoAssumption
<1>0. /\ now \in Nat /\ NoPromise.made = FALSE /\ Window \in Nat
      /\ last # NoRow => last.at \in Nat
      /\ promise.made => promise.until \in Nat
  BY CallFacts DEF Sound, TypeOK, NoPromise, Rows
<1>1. ASSUME NEW b, NEW a, last' = Row(b, a), now' = now,
             promise' = promise \/ promise' = Promise \/ promise' = NoPromise
      PROVE  Promised'
  <2>1. last' # NoRow /\ last'.at = now
    BY <1>1 DEF Row, NoRow
  <2>2. CASE promise' = promise
    BY <1>0, <1>1, <2>1, <2>2 DEF Promised
  <2>3. CASE promise' = Promise
    BY <1>0, <1>1, <2>1, <2>3 DEF Promised, Promise
  <2>4. CASE promise' = NoPromise
    BY <1>0, <1>1, <2>1, <2>4 DEF Promised
  <2> QED
    BY <1>1, <2>2, <2>3, <2>4
<1>2. ASSUME UNCHANGED <<last, promise>>, now' \in Nat, now <= now'
      PROVE  Promised'
  BY <1>0, <1>2 DEF Promised
<1>3. CASE ApplyLogged
  BY <1>1, <1>3 DEF ApplyLogged, Record
<1>4. CASE ApplyTimedOut \/ ApplyRefused
  BY <1>1, <1>4 DEF ApplyTimedOut, ApplyRefused, Record
<1>5. CASE RecordUndo
  BY <1>1, <1>5 DEF RecordUndo
<1>6. CASE \/ ApplyUnlogged \/ SendUndo \/ ReadLastRow \/ UndoAnswered \/ LoseUndo \/ RecordUndoFails
           \/ ReverseApply \/ ReverseImpossible \/ ReverseFails \/ ReverseTimedOut
  <2>1. UNCHANGED <<now, last, promise>>
    BY <1>6 DEF ApplyUnlogged, SendUndo, ReadLastRow, UndoAnswered, LoseUndo, RecordUndoFails,
                ReverseApply, ReverseImpossible, ReverseFails, ReverseTimedOut, history
  <2> QED
    BY <1>0, <1>2, <2>1
<1>7. CASE Tick
  BY <1>0, <1>2, <1>7 DEF Tick, history
<1>8. CASE UNCHANGED vars
  BY <1>0, <1>2, <1>8 DEF vars, history
<1> QED
  BY <1>3, <1>4, <1>5, <1>6, <1>7, <1>8 DEF Next

\* A sound row of a post can be reversed while it tells the state of its post.
LEMMA PostRowReversible ==
    ASSUME Sound, call.step = "read", ~drift, Reversible(last)
    PROVE  ReverseOf(last) # {}
<1>1. /\ last # NoRow /\ Linked(last.before, last.after, Len(posts)) /\ Matches(last.after, posts)
      /\ NoState.status = "none" /\ NoState.id = 0
  BY CallFacts DEF Sound, RowsSound, NoState, State
<1>2. /\ last.before.id # 0 <=> last.before.status \in {"publish", "trash"}
      /\ last.after.id # 0 <=> last.after.status \in {"publish", "trash"}
  BY <1>1 DEF Linked, StateOver
<1>3. ASSUME last.after.id # 0, last.after.status # "trash"
      PROVE  DeleteIfLive(last.after.id) # {}
  BY <1>1, <1>2, <1>3 DEF DeleteIfLive, Matches
<1>4. CASE last.before = NoState
  <2>1. last.after.id # 0 /\ last.after.status # "trash"
    BY <1>1, <1>4 DEF Reversible, Linked
  <2> QED
    BY <1>3, <1>4, <2>1 DEF ReverseOf
<1>5. CASE last.before # NoState
  <2>1. last.before.id # 0 /\ last.after.id # 0
    BY <1>1, <1>5 DEF Reversible, Linked
  <2> QED
    BY <1>3, <1>5, <2>1 DEF ReverseOf
<1> QED
  BY <1>4, <1>5

LEMMA TurnsDown ==
    ASSUME Sound, Next, TurnedDown
    PROVE  ReadLastRow \/ ReverseImpossible
<1>1. faults \in Nat /\ ~Fault
  BY CallFacts DEF TurnedDown, Fault
<1>2. call.step \in {"sent", "read"} /\ call # NoCall /\ call'.step = "answered"
  BY DEF TurnedDown, NoCall
<1>3. ~ReverseApply
  BY <1>2 DEF ReverseApply
<1>4. ~RecordUndo /\ ~UndoAnswered /\ ~SendUndo /\ ~ApplyLogged /\ ~ApplyRefused
  BY <1>2 DEF RecordUndo, UndoAnswered, SendUndo, ApplyLogged, ApplyRefused
<1>5. ~Tick
  BY <1>2 DEF Tick
<1>6. /\ ~ApplyUnlogged /\ ~ApplyTimedOut /\ ~ReverseFails /\ ~ReverseTimedOut
      /\ ~RecordUndoFails /\ ~LoseUndo
  BY <1>1 DEF ApplyUnlogged, ApplyTimedOut, ReverseFails, ReverseTimedOut, RecordUndoFails, LoseUndo
<1> QED
  BY <1>3, <1>4, <1>5, <1>6 DEF Next

LEMMA PromiseStep ==
    ASSUME Sound, Promised, [Next]_vars, UndoAssumption,
           promise.made, now <= promise.until, ~drift, last # NoRow, Reversible(last), TurnedDown
    PROVE  FALSE
<1>1. Next
  BY DEF vars, TurnedDown
<1>2. CASE ReadLastRow
  <2>1. ~(now - last.at <= Window)
    <3>1. CASE now - last.at <= Window
      <4>1. call' = [step |-> "read", attempt |-> call.attempt, asked |-> call.asked, row |-> last]
        BY <1>2, <3>1 DEF ReadLastRow
      <4> QED
        BY <4>1 DEF TurnedDown
    <3> QED
      BY <3>1
  <2>2. now \in Nat /\ last.at \in Nat /\ promise.until \in Nat /\ Window \in Nat
    BY UndoAssumption, CallFacts DEF Sound, TypeOK, Rows, NoPromise
  <2> QED
    BY <2>1, <2>2 DEF Promised
<1>3. CASE ReverseImpossible
  <2>1. call.step = "read" /\ ReverseOf(call.row) = {} /\ call.row = last
    BY <1>3, CallFacts DEF ReverseImpossible
  <2> QED
    BY <2>1, PostRowReversible
<1> QED
  BY <1>1, <1>2, <1>3, TurnsDown

\* "You can undo this within 24h by replying UNDO" holds for the changes of posts:
\* within the window Track B turns the UNDO of such a row down only when something
\* failed (undo.py, apply_intent).
THEOREM PostsCanBeUndone == Spec => PromiseKeptForPosts
<1>1. Init => Promised
  BY DEF Init, Promised, NoPromise
<1>2. Sound /\ Promised /\ [Next]_vars => Promised'
  BY PromiseKeeps
<1>3. Sound /\ Promised /\ [Next]_vars
      => [promise.made /\ now <= promise.until /\ ~drift /\ last # NoRow /\ Reversible(last)
             => ~TurnedDown]_vars
  BY PromiseStep, UndoAssumption
<1> QED
  BY <1>1, <1>2, <1>3, SoundAlways, PTL DEF Spec, PromiseKeptForPosts

-----------------------------------------------------------------------------
(***************************************************************************)
(* Undo restores.  A post that comes back has a new id, so what is compared *)
(* is what a visitor sees.  The argument looks one undo ahead: whatever     *)
(* would undo the newest row now, would show what was shown before it.      *)
(***************************************************************************)

LivePost == [title : Titles, body : Bodies, status : {"publish"}]
Places(ps, p) == {i \in DOMAIN ps : ps[i] = p}

LEMMA SameView ==
    ASSUME NEW ps, NEW qs, NEW v,
           \A p \in LivePost : Cardinality(Places(ps, p)) = Cardinality(Places(qs, p))
    PROVE  View(ps, v) = View(qs, v)
<1>1. /\ View(ps, v) = <<[p \in LivePost |-> Cardinality(Places(ps, p))], v>>
      /\ View(qs, v) = <<[p \in LivePost |-> Cardinality(Places(qs, p))], v>>
  BY DEF View, Places, LivePost
<1>2. [p \in LivePost |-> Cardinality(Places(ps, p))] = [p \in LivePost |-> Cardinality(Places(qs, p))]
  OBVIOUS
<1> QED
  BY <1>1, <1>2

\* The same live posts in the same places.
LEMMA SameLive ==
    ASSUME NEW n \in Nat, NEW m \in Nat, n <= m, NEW ps, NEW qs, NEW v,
           DOMAIN ps = 1..n, DOMAIN qs = 1..m,
           \A i \in 1..n : qs[i] = ps[i],
           \A i \in (n + 1)..m : qs[i].status # "publish"
    PROVE  View(ps, v) = View(qs, v)
<1>1. ASSUME NEW p \in LivePost
      PROVE  Places(ps, p) = Places(qs, p)
  <2>1. p.status = "publish"
    BY DEF LivePost
  <2>2. \A i : i \in 1..n /\ ps[i] = p <=> i \in 1..m /\ qs[i] = p
    BY <2>1
  <2> QED
    BY <2>2 DEF Places
<1> QED
  BY <1>1, SameView

\* A live post has moved to a new place.
LEMMA MovedLive ==
    ASSUME NEW n \in Nat, NEW ps, NEW qs, NEW v, DOMAIN ps = 1..n, DOMAIN qs = 1..(n + 1),
           NEW i \in 1..n, qs[n + 1] = ps[i], qs[i].status # "publish",
           \A j \in 1..n : j # i => qs[j] = ps[j]
    PROVE  View(ps, v) = View(qs, v)
<1>1. ASSUME NEW p \in LivePost
      PROVE  Cardinality(Places(ps, p)) = Cardinality(Places(qs, p))
  <2> DEFINE S == Places(ps, p)
             R == S \ {i}
  <2>1. p.status = "publish"
    BY DEF LivePost
  <2>2. S = {j \in 1..n : ps[j] = p} /\ Places(qs, p) = {j \in 1..(n + 1) : qs[j] = p}
    BY DEF Places
  <2>3. IsFiniteSet(S) /\ n + 1 \notin S
    <3>1. IsFiniteSet(1..n)
      BY FS_Interval
    <3> QED
      BY <2>2, <3>1, FS_Subset
  <2>4. CASE ps[i] = p
    <3>1. i \in S /\ Places(qs, p) = R \cup {n + 1}
      BY <2>1, <2>2, <2>4
    <3> HIDE DEF S
    <3>2. IsFiniteSet(R) /\ Cardinality(R) = Cardinality(S) - 1 /\ n + 1 \notin R
      BY <2>3, <3>1, FS_RemoveElement
    <3> HIDE DEF R
    <3>3. Cardinality(R \cup {n + 1}) = Cardinality(R) + 1
      BY <3>2, FS_AddElement
    <3>4. Cardinality(S) \in Nat
      BY <2>3, FS_CardinalityType
    <3> QED
      BY <3>1, <3>2, <3>3, <3>4 DEF S
  <2>5. CASE ps[i] # p
    <3>1. Places(qs, p) = S
      BY <2>1, <2>2, <2>5
    <3> QED
      BY <3>1
  <2> QED
    BY <2>4, <2>5
<1> QED
  BY <1>1, SameView

\* How rs follows from ps when a post is added, changed and trashed.
Added(ps, p, rs) == rs = Append(ps, p)
Changed(ps, i, b, rs) == rs = [ps EXCEPT ![i].body = b, ![i].status = "publish"]
PutInTrash(ps, i, rs) == rs = [ps EXCEPT ![i].status = "trash"]

\* How qs follows from ps when a row with these states is undone.
Undone(before, after, ps, qs) ==
    \/ /\ before = NoState \/ (before.status = "trash" /\ after.status # "trash")
       /\ after.id # 0
       /\ qs = [ps EXCEPT ![after.id].status = "trash"]
    \/ /\ before # NoState /\ after.status = "trash"
       /\ qs = Append(ps, [title |-> ps[before.id].title, body |-> before.body,
                           status |-> "publish"])
    \/ /\ before # NoState /\ before.status # "trash" /\ after.status # "trash"
       /\ before.id # 0
       /\ qs = [ps EXCEPT ![before.id].body = before.body, ![before.id].status = before.status]

LEMMA ReverseUndoes ==
    ASSUME NEW row, NEW e \in ReverseOf(row)
    PROVE  e.info = info /\ Undone(row.before, row.after, posts, e.posts)
<1>1. CASE row.before = NoState
  BY <1>1 DEF ReverseOf, DeleteIfLive, DeletePost, Effect, Undone
<1>2. CASE row.before # NoState /\ row.after.status = "trash"
  BY <1>2 DEF ReverseOf, CreatePost, Effect, Undone
<1>3. CASE row.before # NoState /\ row.after.status # "trash" /\ row.before.status = "trash"
  BY <1>3 DEF ReverseOf, DeleteIfLive, DeletePost, Effect, Undone
<1>4. CASE row.before # NoState /\ row.after.status # "trash" /\ row.before.status # "trash"
  BY <1>4 DEF ReverseOf, UpdatePost, Effect, Undone
<1> QED
  BY <1>1, <1>2, <1>3, <1>4

\* What is created is gone again.
LEMMA CreateBack ==
    ASSUME NEW ps \in Seq(Post), NEW p \in Post, NEW v,
           NEW before, NEW after, NEW qs, NEW rs, Added(ps, p, rs), Undone(before, after, rs, qs),
           before = NoState \/ before.status = "trash",
           after.id = Len(ps) + 1, after.status = "publish"
    PROVE  View(ps, v) = View(qs, v)
<1> DEFINE n == Len(ps)
<1>1. n \in Nat /\ DOMAIN ps = 1..n
  OBVIOUS
<1>2. /\ rs \in Seq(Post) /\ Len(rs) = n + 1 /\ rs[n + 1] = p
      /\ \A j \in 1..n : rs[j] = ps[j]
  BY <1>1, AppendProperties DEF Added
<1>3. qs = [rs EXCEPT ![n + 1].status = "trash"]
  BY DEF Undone
<1> HIDE DEF n
<1>4. DOMAIN rs = 1..(n + 1)
  BY <1>2
<1>5. /\ DOMAIN qs = 1..(n + 1) /\ \A j \in 1..n : qs[j] = ps[j]
      /\ qs[n + 1] = [p EXCEPT !.status = "trash"]
  <2>1. DOMAIN qs = 1..(n + 1)
    BY <1>3, <1>4
  <2>2. qs[n + 1] = [rs[n + 1] EXCEPT !.status = "trash"]
    BY <1>1, <1>3, <1>4
  <2>3. ASSUME NEW j \in 1..n PROVE qs[j] = ps[j]
    <3>1. j # n + 1 /\ j \in DOMAIN rs
      BY <1>1, <1>4
    <3> QED
      BY <1>2, <1>3, <3>1
  <2> QED
    BY <1>2, <2>1, <2>2, <2>3
<1>6. [p EXCEPT !.status = "trash"].status # "publish"
  BY DEF Post
<1>7. n + 1 \in Nat /\ n <= n + 1 /\ (n + 1)..(n + 1) = {n + 1}
  BY <1>1
<1>8. \A j \in (n + 1)..(n + 1) : qs[j].status # "publish"
  BY <1>5, <1>6, <1>7
<1> QED
  BY <1>1, <1>5, <1>7, <1>8, SameLive

LEMMA RecordRewritten ==
    ASSUME NEW r, NEW t, NEW b, NEW c, r = [title |-> t, body |-> b, status |-> "publish"]
    PROVE  [r EXCEPT !.body = c, !.status = "publish"] = [title |-> t, body |-> c, status |-> "publish"]
<1>1. [[title |-> t, body |-> b, status |-> "publish"] EXCEPT !.body = c]
          = [title |-> t, body |-> c, status |-> "publish"]
  OBVIOUS
<1> QED
  BY <1>1

\* What is changed is as it was.
LEMMA UpdateBack ==
    ASSUME NEW ps \in Seq(Post), NEW i \in DOMAIN ps, ps[i].status = "publish", NEW b \in Bodies, NEW v,
           NEW before, NEW after, NEW qs,
           NEW rs, Changed(ps, i, b, rs),
           Undone(before, after, rs, qs),
           before.id = i, before.status = "publish", before.body = ps[i].body, before # NoState,
           after.status = "publish"
    PROVE  View(ps, v) = View(qs, v)
<1> DEFINE n == Len(ps)
           was == ps[i].body
<1>1. n \in Nat /\ DOMAIN ps = 1..n /\ ps[i] \in Post
  OBVIOUS
<1>2. qs = [rs EXCEPT ![i].body = was, ![i].status = "publish"]
  BY DEF Undone
<1>3. DOMAIN rs = 1..n /\ rs[i] = [ps[i] EXCEPT !.body = b, !.status = "publish"]
      /\ \A j \in 1..n : j # i => rs[j] = ps[j]
  BY <1>1 DEF Changed
<1> HIDE DEF was, n
<1>4. /\ DOMAIN qs = 1..n /\ \A j \in 1..n : j # i => qs[j] = ps[j]
      /\ qs[i] = [rs[i] EXCEPT !.body = was, !.status = "publish"]
  BY <1>1, <1>2, <1>3
<1>5. qs[i] = ps[i]
  <2>1. ps[i] = [title |-> ps[i].title, body |-> was, status |-> "publish"]
    BY <1>1 DEF Post, was
  <2>2. rs[i] = [title |-> ps[i].title, body |-> b, status |-> "publish"]
    BY <1>3, <2>1
  <2>3. qs[i] = [title |-> ps[i].title, body |-> was, status |-> "publish"]
    <3> DEFINE r == rs[i]
               title == ps[i].title
    <3>1. qs[i] = [r EXCEPT !.body = was, !.status = "publish"]
      BY <1>4
    <3>2. r = [title |-> title, body |-> b, status |-> "publish"]
      BY <2>2
    <3> HIDE DEF r, title
    <3>3. qs[i] = [title |-> title, body |-> was, status |-> "publish"]
      BY <3>1, <3>2, RecordRewritten
    <3> QED
      BY <3>3 DEF title
  <2> QED
    BY <2>1, <2>3
<1>6. \A j \in 1..n : qs[j] = ps[j]
  BY <1>4, <1>5
<1>7. \A j \in (n + 1)..n : qs[j].status # "publish"
  BY <1>1
<1> QED
  BY <1>1, <1>4, <1>6, <1>7, SameLive

\* What is deleted is there again, under a new id.
LEMMA DeleteBack ==
    ASSUME NEW ps \in Seq(Post), NEW i \in DOMAIN ps, ps[i].status = "publish", NEW v,
           NEW before, NEW after, NEW qs,
           NEW rs, PutInTrash(ps, i, rs), Undone(before, after, rs, qs),
           before.id = i, before.status = "publish", before.body = ps[i].body, before # NoState,
           after.status = "trash"
    PROVE  View(ps, v) = View(qs, v)
<1> DEFINE n == Len(ps)
           p == [title |-> rs[i].title, body |-> ps[i].body, status |-> "publish"]
<1>1. n \in Nat /\ DOMAIN ps = 1..n /\ ps[i] \in Post
  OBVIOUS
<1>2. qs = Append(rs, p)
  BY DEF Undone
<1>3. DOMAIN rs = 1..n /\ rs[i] = [ps[i] EXCEPT !.status = "trash"]
      /\ \A j \in 1..n : j # i => rs[j] = ps[j]
  BY <1>1 DEF PutInTrash
<1>4. rs \in Seq(Post) /\ Len(rs) = n
  <2>1. [ps[i] EXCEPT !.status = "trash"] \in Post
    BY <1>1 DEF Post
  <2> QED
    BY <1>1, <2>1, ExceptSeq DEF PutInTrash
<1> HIDE DEF n
<1>5. rs[i].status = "trash" /\ p = ps[i]
  BY <1>1, <1>3 DEF Post
<1> HIDE DEF p
<1>6. /\ qs \in Seq(Post) /\ Len(qs) = n + 1 /\ qs[n + 1] = ps[i]
      /\ \A j \in 1..n : qs[j] = rs[j]
  BY <1>1, <1>2, <1>4, <1>5, AppendProperties
<1>7. DOMAIN qs = 1..(n + 1)
  BY <1>6
<1>8. i \in 1..n /\ qs[i].status # "publish" /\ \A j \in 1..n : j # i => qs[j] = ps[j]
  BY <1>1, <1>3, <1>5, <1>6
<1> QED
  BY <1>1, <1>6, <1>7, <1>8, MovedLive

\* What the site shows when a change is undone right after it.
LEMMA DispatchBack ==
    ASSUME TypeOK, NEW e \in Dispatch, NEW qs, Undone(e.before, e.after, e.posts, qs)
    PROVE  View(qs, e.info) = Shown
<1>0. posts \in Seq(Post)
  BY PostsTyped
<1> DEFINE before == e.before
           after == e.after
           rs == e.posts
<1>b. Undone(before, after, rs, qs)
  OBVIOUS
<1>1. CASE \E t \in Titles, b \in Bodies : e = CreatePost(t, b)
  <2>1. PICK t \in Titles, b \in Bodies : e = CreatePost(t, b)
    BY <1>1
  <2> DEFINE p == [title |-> t, body |-> b, status |-> "publish"]
  <2>2. p \in Post
    BY DEF Post
  <2>3. /\ Added(posts, p, rs) /\ e.info = info /\ before = NoState
        /\ after.id = Len(posts) + 1 /\ after.status = "publish"
    BY <2>1 DEF CreatePost, Effect, Live, State, Added
  <2> HIDE DEF p, before, after, rs
  <2>4. View(posts, info) = View(qs, info)
    BY <1>0, <1>b, <2>2, <2>3, CreateBack
  <2> QED
    BY <2>3, <2>4 DEF Shown
<1>2. CASE \E t \in Titles : \E i \in FindPostByTitle(t) :
               (\E b \in Bodies : e = UpdatePost(i, b, "publish")) \/ e = DeletePost(i)
  <2>0. PICK t \in Titles : \E i \in FindPostByTitle(t) :
            (\E b \in Bodies : e = UpdatePost(i, b, "publish")) \/ e = DeletePost(i)
    BY <1>2
  <2>1. PICK i \in FindPostByTitle(t) :
            (\E b \in Bodies : e = UpdatePost(i, b, "publish")) \/ e = DeletePost(i)
    BY <2>0
  <2>2. i \in DOMAIN posts /\ posts[i].status = "publish"
    BY <2>1 DEF FindPostByTitle
  <2>3. /\ StateOf(i).id = i /\ StateOf(i).status = "publish" /\ StateOf(i).body = posts[i].body
        /\ StateOf(i) # NoState
    BY <2>2 DEF StateOf, Live, State, NoState
  <2>4. CASE \E b \in Bodies : e = UpdatePost(i, b, "publish")
    <3>1. PICK b \in Bodies : e = UpdatePost(i, b, "publish")
      BY <2>4
    <3>2. /\ Changed(posts, i, b, rs) /\ e.info = info
          /\ before = StateOf(i) /\ after.status = "publish"
      BY <3>1 DEF UpdatePost, Effect, State, Changed
    <3> HIDE DEF before, after, rs
    <3>3. View(posts, info) = View(qs, info)
      BY <1>0, <1>b, <2>2, <2>3, <3>2, UpdateBack
    <3> QED
      BY <3>2, <3>3 DEF Shown
  <2>5. CASE e = DeletePost(i)
    <3>1. /\ PutInTrash(posts, i, rs) /\ e.info = info
          /\ before = StateOf(i) /\ after.status = "trash"
      BY <2>5 DEF DeletePost, Effect, Trashed, State, PutInTrash
    <3> HIDE DEF before, after, rs
    <3>2. View(posts, info) = View(qs, info)
      BY <1>0, <1>b, <2>2, <2>3, <3>1, DeleteBack
    <3> QED
      BY <3>1, <3>2 DEF Shown
  <2> QED
    BY <2>1, <2>4, <2>5
<1>3. CASE \E b \in Bodies : e = UpdateSiteOption(b)
  <2>1. /\ e.before.id = 0 /\ e.before.status = "info" /\ e.after.status = "info"
    BY <1>3 DEF UpdateSiteOption, Effect, InfoState, State
  <2>2. e.before # NoState
    BY <2>1 DEF NoState, State
  <2> QED
    BY <2>1, <2>2 DEF Undone
<1> QED
  BY <1>1, <1>2, <1>3 DEF Dispatch

\* The same of an undo, while the undone row tells the state of its post.
LEMMA ReverseBack ==
    ASSUME TypeOK, NEW row, Linked(row.before, row.after, Len(posts)), Matches(row.after, posts),
           NEW e \in ReverseOf(row),
           NEW qs, Undone(row.after, e.after, e.posts, qs)
    PROVE  View(qs, e.info) = Shown
<1> DEFINE n == Len(posts)
<1>1. /\ n \in Nat /\ DOMAIN posts = 1..n /\ posts \in Seq(Post)
      /\ \A i \in DOMAIN posts : posts[i] \in Post
  BY PostsTyped
<1>2. /\ row.before.id \in 0..n /\ row.after.id \in 0..n
      /\ row.before.id # 0 <=> row.before.status \in {"publish", "trash"}
      /\ row.after.id # 0 <=> row.after.status \in {"publish", "trash"}
      /\ row.before.status = "publish" => row.before.body \in Bodies
      /\ row.after.status = "trash" => row.before.status = "publish"
      /\ row.before.status = "publish" /\ row.after.status = "publish" => row.before.id = row.after.id
      /\ row.before.id # 0 => row.after.id # 0
  BY DEF Linked, StateOver
<1>3. NoState.status = "none" /\ NoState.id = 0
  BY DEF NoState, State
<1> DEFINE i == row.after.id
           before == row.after
           after == e.after
           rs == e.posts
<1>b. Undone(before, after, rs, qs)
  OBVIOUS
<1>4. ASSUME e \in DeleteIfLive(i), row.after.status # "trash"
      PROVE  View(qs, e.info) = Shown
  <2>1. i \in DOMAIN posts /\ posts[i].status = "publish" /\ i # 0 /\ e = DeletePost(i)
    BY <1>1, <1>2, <1>4 DEF DeleteIfLive
  <2>2. /\ before.status = "publish" /\ before.body = posts[i].body /\ before # NoState
        /\ before.id = i
    BY <1>2, <1>3, <1>4, <2>1 DEF Matches
  <2>3. /\ PutInTrash(posts, i, rs) /\ e.info = info
        /\ after.status = "trash"
    BY <2>1 DEF DeletePost, Effect, Trashed, State, PutInTrash
  <2> HIDE DEF before, after, rs, i
  <2>4. View(posts, info) = View(qs, info)
    BY <1>1, <1>b, <2>1, <2>2, <2>3, DeleteBack
  <2> QED
    BY <2>3, <2>4 DEF Shown
<1>5. ASSUME e = CreatePost(posts[row.before.id].title, row.before.body), row.after.status = "trash"
      PROVE  View(qs, e.info) = Shown
  <2> DEFINE p == [title |-> posts[row.before.id].title, body |-> row.before.body, status |-> "publish"]
  <2>1. row.before.id \in DOMAIN posts /\ row.before.body \in Bodies
    BY <1>1, <1>2, <1>5
  <2>2. p \in Post
    BY <1>1, <2>1 DEF Post
  <2>3. /\ Added(posts, p, rs) /\ e.info = info /\ before.status = "trash"
        /\ after.id = Len(posts) + 1 /\ after.status = "publish"
    BY <1>5 DEF CreatePost, Effect, Live, State, Added
  <2> HIDE DEF p, before, after, rs
  <2>4. View(posts, info) = View(qs, info)
    BY <1>1, <1>b, <2>2, <2>3, CreateBack
  <2> QED
    BY <2>3, <2>4 DEF Shown
<1>6. ASSUME e = UpdatePost(row.before.id, row.before.body, row.before.status),
             row.before.id # 0, row.before.status # "trash", row.after.status # "trash"
      PROVE  View(qs, e.info) = Shown
  <2>1. /\ row.before.status = "publish" /\ row.before.body \in Bodies
        /\ row.after.status = "publish" /\ i # 0 /\ row.before.id = i
    BY <1>2, <1>6
  <2>2. /\ i \in DOMAIN posts /\ posts[i].status = "publish"
        /\ before.id = i /\ before.status = "publish" /\ before.body = posts[i].body
        /\ before # NoState
    BY <1>1, <1>2, <1>3, <2>1 DEF Matches
  <2> DEFINE b == row.before.body
  <2>3. /\ Changed(posts, i, b, rs)
        /\ e.info = info /\ after.status = "publish"
    BY <1>6, <2>1 DEF UpdatePost, Effect, State, Changed
  <2>4. b \in Bodies
    BY <2>1
  <2> HIDE DEF before, after, rs, i, b
  <2>5. View(posts, info) = View(qs, info)
    BY <1>1, <1>b, <2>2, <2>3, <2>4, UpdateBack
  <2> QED
    BY <2>3, <2>5 DEF Shown
<1>7. CASE row.before = NoState
  BY <1>2, <1>3, <1>4, <1>7 DEF ReverseOf
<1>8. CASE row.before # NoState
  BY <1>4, <1>5, <1>6, <1>8 DEF ReverseOf
<1> QED
  BY <1>7, <1>8

-----------------------------------------------------------------------------
\* Whatever would undo the newest row now, would show what was shown before it;
\* and an undo that is not logged yet can itself be undone.
Restorable ==
    /\ ~drift /\ last # NoRow /\ call.step # "applied" =>
           \A qs : Undone(last.before, last.after, posts, qs) => View(qs, info) = shot
    /\ ~drift /\ call.step = "applied" =>
           \A qs : Undone(last.after, call.after, posts, qs) => View(qs, info) = call.was

\* The first attempt of an UNDO is about the row that was the newest when it was
\* sent, and leaves the site as that row's undo left it.
FirstAttempt ==
    call.step # "none" /\ call.attempt = 1 =>
        /\ call.step \in {"sent", "read"} => call.asked = shot
        /\ ~drift /\ call.step = "applied" => Shown = call.asked
        /\ ~drift /\ call.step = "answered" /\ call.ok => Shown = call.asked

Restoring == Restorable /\ FirstAttempt

\* The reverse reaches the site: it shows again what it showed.
LEMMA ReverseRestores ==
    ASSUME Sound, Restorable, ~drift, call.step = "read",
           NEW e \in ReverseOf(call.row), Perform(e)
    PROVE  View(posts', info') = shot
<1>1. call.row = last /\ last # NoRow
  BY CallFacts
<1>2. e.info = info /\ Undone(last.before, last.after, posts, e.posts)
  BY <1>1, ReverseUndoes
<1>3. View(e.posts, info) = shot
  BY <1>1, <1>2 DEF Restorable
<1> QED
  BY <1>2, <1>3 DEF Perform

\* Nothing that Restoring speaks of changed but where the call is.
LEMMA RestoringMoves ==
    ASSUME Restoring, UNCHANGED <<posts, info, last, shot>>, drift' = drift \/ drift' = TRUE,
           call.step # "applied", call'.step # "applied",
           \/ call'.step = "none"
           \/ call'.attempt # 1
           \/ call'.step \in {"sent", "read"} /\ call'.asked = shot
           \/ call'.step = "answered" /\ call'.ok = FALSE
           \/ call' = call
    PROVE  Restoring'
<1>1. Restorable'
  BY DEF Restoring, Restorable
<1>2. FirstAttempt'
  BY DEF Restoring, FirstAttempt, Shown
<1> QED
  BY <1>1, <1>2 DEF Restoring

LEMMA ApplyKeepsRestoring ==
    ASSUME Sound, Restoring, ApplyLogged \/ ApplyUnlogged \/ ApplyTimedOut \/ ApplyRefused
    PROVE  Restoring'
<1>1. call = NoCall /\ call' = call /\ call.step = "none"
  BY DEF ApplyLogged, ApplyUnlogged, ApplyTimedOut, ApplyRefused, NoCall
<1>2. FirstAttempt'
  BY <1>1 DEF FirstAttempt
<1>3. CASE ApplyLogged
  <2>1. PICK e \in Dispatch : Perform(e) /\ Record(e.before, e.after)
    BY <1>3 DEF ApplyLogged
  <2>2. /\ posts' = e.posts /\ info' = e.info /\ shot' = Shown
        /\ last'.before = e.before /\ last'.after = e.after
    BY <2>1 DEF Perform, Record, Row
  <2>3. \A qs : Undone(e.before, e.after, e.posts, qs) => View(qs, e.info) = Shown
    BY DispatchBack DEF Sound
  <2>4. Restorable'
    BY <1>1, <2>2, <2>3 DEF Restorable
  <2> QED
    BY <1>2, <2>4 DEF Restoring
<1>4. CASE ApplyUnlogged \/ ApplyTimedOut
  <2>1. drift' = TRUE
    BY <1>4 DEF ApplyUnlogged, ApplyTimedOut
  <2> QED
    BY <1>2, <2>1 DEF Restoring, Restorable
<1>5. CASE ApplyRefused
  <2>1. last'.before = NoState /\ last'.after = ErrorState
    BY <1>5 DEF ApplyRefused, Record, Row
  <2>2. ErrorState.id = 0 /\ ErrorState.status = "error" /\ NoState.status = "none" /\ NoState.id = 0
    BY DEF ErrorState, NoState, State
  <2>3. Restorable'
    BY <1>1, <2>1, <2>2 DEF Restorable, Undone
  <2> QED
    BY <1>2, <2>3 DEF Restoring
<1> QED
  BY <1>3, <1>4, <1>5

LEMMA ReverseKeepsRestoring ==
    ASSUME Sound, Restoring, ReverseApply
    PROVE  Restoring'
<1>1. PICK e \in ReverseOf(call.row) :
          /\ Perform(e)
          /\ call' = [step |-> "applied", attempt |-> call.attempt, asked |-> call.asked,
                      row |-> call.row, after |-> e.after, was |-> Shown]
  BY DEF ReverseApply
<1>2. /\ call.step = "read" /\ UNCHANGED <<last, drift>> /\ call.row = last /\ last # NoRow
      /\ call'.step = "applied" /\ call'.attempt = call.attempt /\ call'.asked = call.asked
      /\ call'.after = e.after /\ call'.was = Shown
  BY <1>1, CallFacts DEF ReverseApply, history
<1>3. posts' = e.posts /\ info' = e.info
  BY <1>1 DEF Perform
<1>4. ASSUME ~drift
      PROVE  \A qs : Undone(last.after, e.after, e.posts, qs) => View(qs, e.info) = Shown
  <2>1. Linked(last.before, last.after, Len(posts)) /\ Matches(last.after, posts) /\ TypeOK
    BY <1>2, <1>4 DEF Sound, RowsSound
  <2> QED
    BY <1>1, <1>2, <2>1, ReverseBack
<1>5. Restorable'
  BY <1>2, <1>3, <1>4 DEF Restorable
<1>6. FirstAttempt'
  <2>1. ~drift => View(posts', info') = shot
    BY <1>1, <1>2, ReverseRestores DEF Restoring
  <2> QED
    BY <1>2, <2>1 DEF Restoring, FirstAttempt, Shown
<1> QED
  BY <1>5, <1>6 DEF Restoring

LEMMA RecordKeepsRestoring ==
    ASSUME Sound, Restoring, RecordUndo
    PROVE  Restoring'
<1>1. /\ call.step = "applied" /\ call.row = last /\ UNCHANGED <<posts, info, drift>>
      /\ call'.step = "answered" /\ call'.attempt = call.attempt /\ call'.asked = call.asked
  BY CallFacts DEF RecordUndo, Answer, site
<1>2. last'.before = last.after /\ last'.after = call.after /\ shot' = call.was
  BY <1>1 DEF RecordUndo, Row
<1>3. Restorable'
  BY <1>1, <1>2 DEF Restoring, Restorable
<1>4. FirstAttempt'
  BY <1>1 DEF Restoring, FirstAttempt, Shown
<1> QED
  BY <1>3, <1>4 DEF Restoring

LEMMA RestoringStep ==
    ASSUME Sound, Restoring, [Next]_vars
    PROVE  Restoring'
<1>1. CASE SendUndo
  <2>1. /\ call.step = "none" /\ call'.step = "sent" /\ call'.asked = shot
        /\ UNCHANGED <<posts, info, last, shot, drift>>
    BY <1>1 DEF SendUndo, site, history, NoCall
  <2> QED
    BY <2>1, RestoringMoves
<1>2. CASE ReadLastRow
  <2>1. /\ call.step = "sent" /\ call'.attempt = call.attempt /\ call'.asked = call.asked
        /\ UNCHANGED <<posts, info, last, shot, drift>>
        /\ \/ call'.step = "read"
           \/ call'.step = "answered" /\ call'.ok = FALSE
    BY <1>2 DEF ReadLastRow, Answer, site, history
  <2>2. call'.attempt = 1 => call'.asked = shot
    BY <2>1 DEF Restoring, FirstAttempt
  <2> QED
    BY <2>1, <2>2, RestoringMoves
<1>3. CASE ReverseImpossible \/ ReverseFails
  <2>1. /\ call.step = "read" /\ call'.step = "answered" /\ call'.ok = FALSE
        /\ UNCHANGED <<posts, info, last, shot, drift>>
    BY <1>3 DEF ReverseImpossible, ReverseFails, Answer, site, history
  <2> QED
    BY <2>1, RestoringMoves
<1>4. CASE ReverseTimedOut \/ RecordUndoFails
  <2>1. drift' = TRUE /\ call'.step = "answered" /\ call'.ok = FALSE
    BY <1>4 DEF ReverseTimedOut, RecordUndoFails, Answer
  <2> QED
    BY <2>1 DEF Restoring, Restorable, FirstAttempt
<1>5. CASE UndoAnswered
  <2>1. /\ call.step = "answered" /\ call'.step = "none"
        /\ UNCHANGED <<posts, info, last, shot, drift>>
    BY <1>5 DEF UndoAnswered, site, history, NoCall
  <2> QED
    BY <2>1, RestoringMoves
<1>6. CASE LoseUndo
  <2>1. /\ call.step \in {"sent", "answered"}
        /\ UNCHANGED <<posts, info, last, shot, drift>>
        /\ \/ call'.step = "sent" /\ call'.attempt = call.attempt + 1
           \/ call'.step = "none"
    BY <1>6 DEF LoseUndo, Sent, site, history, NoCall
  <2>2. call.attempt \in 1..MaxAttempts
    BY <2>1, CallFacts
  <2>3. call'.step = "sent" => call'.attempt # 1
    BY <2>1, <2>2, UndoAssumption
  <2> QED
    BY <2>1, <2>3, RestoringMoves
<1>7. CASE Tick \/ UNCHANGED vars
  <2>1. UNCHANGED <<posts, info, last, call, shot, drift>>
    BY <1>7 DEF Tick, vars, site, history
  <2> QED
    BY <2>1 DEF Restoring, Restorable, FirstAttempt, Shown
<1> QED
  BY <1>1, <1>2, <1>3, <1>4, <1>5, <1>6, <1>7,
     ApplyKeepsRestoring, ReverseKeepsRestoring, RecordKeepsRestoring DEF Next

LEMMA RestoringAlways == Spec => [](Sound /\ Restoring)
<1>1. Init => Restoring
  BY DEF Init, Restoring, Restorable, FirstAttempt, NoCall
<1>2. Sound /\ Restoring /\ [Next]_vars => Restoring'
  BY RestoringStep
<1> QED
  BY <1>1, <1>2, SoundAlways, PTL DEF Spec

\* An undo that was applied shows the site as it was before the change of the
\* undone row: a create, an update, a delete, whose post comes back under a new
\* id, or an undo of one (undo.py, _reverse_apply).
THEOREM UndoIsExact == Spec => UndoRestores
<1>1. Sound /\ Restoring /\ [Next]_vars
      => [call.step = "read" /\ (call'.step = "applied" \/ site' # site) /\ ~drift
             => View(posts', info') = shot]_vars
  <2> SUFFICES ASSUME Sound, Restorable, Next, call.step = "read", ~drift,
                      call'.step = "applied" \/ site' # site
               PROVE  View(posts', info') = shot
    BY DEF Restoring
  <2>1. call # NoCall
    BY DEF NoCall
  <2>2. ReverseApply \/ ReverseTimedOut
    <3>1. ~ApplyLogged /\ ~ApplyUnlogged /\ ~ApplyTimedOut /\ ~ApplyRefused /\ ~SendUndo
      BY <2>1 DEF ApplyLogged, ApplyUnlogged, ApplyTimedOut, ApplyRefused, SendUndo
    <3>2. ~ReadLastRow /\ ~RecordUndo /\ ~RecordUndoFails /\ ~UndoAnswered /\ ~LoseUndo
      BY DEF ReadLastRow, RecordUndo, RecordUndoFails, UndoAnswered, LoseUndo
    <3>3. ~ReverseImpossible /\ ~ReverseFails
      BY DEF ReverseImpossible, ReverseFails, Answer
    <3>4. ~Tick
      BY DEF Tick
    <3> QED
      BY <3>1, <3>2, <3>3, <3>4 DEF Next
  <2>3. PICK e \in ReverseOf(call.row) : Perform(e)
    <3>1. CASE ReverseApply
      BY <3>1 DEF ReverseApply
    <3>2. CASE ReverseTimedOut
      BY <3>2 DEF ReverseTimedOut
    <3> QED
      BY <2>2, <3>1, <3>2
  <2> QED
    BY <2>3, ReverseRestores
<1> QED
  BY <1>1, RestoringAlways, PTL DEF Spec, UndoRestores

\* "Your last change has been reverted" is true when the first attempt answers
\* (routing.py, _handle_undo).
THEOREM FirstUndoIsTruthful == Spec => TruthfulUndo
<1>1. Sound /\ Restoring /\ [Next]_vars
      => [call.step = "answered" /\ call.ok /\ call' = NoCall /\ ~drift /\ call.attempt = 1
             => Shown = call.asked]_vars
  BY DEF Restoring, FirstAttempt
<1> QED
  BY <1>1, RestoringAlways, PTL DEF Spec, TruthfulUndo
=============================================================================
