------------------------- MODULE IntentReadingProofs -------------------------
(***************************************************************************)
(* Proofs about IntentReading: for any number of messages and whatever the *)
(* models answer, the hand-kept lists of the contract, the router and the   *)
(* site agree, nothing precious is written without a YES, and every step   *)
(* yields a result, a stage and an effect that there are.                  *)
(*                                                                         *)
(* Both follow from what is known of the answer at each step: a result     *)
(* that is an intent comes from an answer that conforms, what is staged or  *)
(* sent is complete too, and what is sent without a YES is harmless.  The   *)
(* order in which the models are asked follows from the few histories one   *)
(* message can have.                                                       *)
(***************************************************************************)
EXTENDS IntentReading, FiniteSetTheorems, SequenceTheorems, TLAPS

Vetted ==
    /\ result.status = "intent" => Conforms(raw)
    /\ Asking \/ step = "answered" => result.status # "intent"
    /\ step \in {"staged", "sent", "dispatched"} => Conforms(raw) /\ MissingRequired(raw) = {}

Harmless ==
    /\ step \in {"sent", "dispatched"} /\ ~approved => ~Destructive(raw)
    /\ step # "idle" => effect.what = "none"
    /\ NothingUnasked

LEMMA Statuses ==
    /\ NoResult.status # "intent" /\ LowConfidence.status # "intent"
    /\ NoEffect.what = "none"
BY DEF NoResult, LowConfidence, NoEffect

LEMMA VettedKept ==
    ASSUME Vetted, [ReadingNext]_readingVars
    PROVE  Vetted'
<1>1. CASE ReceiveMessage
  BY <1>1, Statuses DEF ReceiveMessage, Vetted, Asking
<1>2. CASE ModelAnswers
  BY <1>2 DEF ModelAnswers, Vetted, Asking
<1>3. CASE AttemptFails \/ RateLimited
  <2>1. Asking /\ UNCHANGED raw
    BY <1>3 DEF AttemptFails, RateLimited
  <2>2. UNCHANGED result \/ result' = LowConfidence
    BY <1>3 DEF AttemptFails, RateLimited, Degrade
  <2>3. step' \in {"primary", "fallback", "parsed"}
    BY <1>3, <2>1 DEF AttemptFails, RateLimited, Degrade, Asking
  <2> QED
    BY <2>1, <2>2, <2>3, Statuses DEF Vetted, Asking
<1>4. CASE ParseAnswer
  <2>1. result'.status = "intent" => Conforms(raw)
    <3>1. CASE raw = Unsupported
      BY <1>4, <3>1 DEF ParseAnswer
    <3>2. CASE raw # Unsupported /\ (raw.confidence = "missing" \/ ~Conforms(raw))
      BY <1>4, <3>2, Statuses DEF ParseAnswer
    <3>3. CASE raw # Unsupported /\ ~(raw.confidence = "missing" \/ ~Conforms(raw))
      BY <3>3
    <3> QED
      BY <3>1, <3>2, <3>3
  <2> QED
    BY <1>4, <2>1 DEF ParseAnswer, Vetted, Asking
<1>5. CASE RouteIntent
  BY <1>5 DEF RouteIntent, Vetted, Asking, Ready
<1>6. CASE OwnerDecides \/ CheckOnSite \/ Dispatch \/ UNCHANGED readingVars
  BY <1>6 DEF OwnerDecides, CheckOnSite, Dispatch, readingVars, Vetted, Asking
<1> QED
  BY <1>1, <1>2, <1>3, <1>4, <1>5, <1>6 DEF ReadingNext

LEMMA VettedInductive == ReadingSpec => []Vetted
<1>1. ReadingInit => Vetted
  BY Statuses DEF ReadingInit, Vetted, Asking
<1> QED
  BY <1>1, VettedKept, PTL DEF ReadingSpec

-----------------------------------------------------------------------------
\* The site's mapping knows every field of the contract, and the router's table
\* every field the contract requires.
LEMMA ListsAgree ==
    ASSUME NEW i, Conforms(i), MissingRequired(i) = {}
    PROVE  /\ i.content_type \in Enabled => i.fields \subseteq AllowedFields[i.content_type]
           /\ i.action = "create" => ContractRequires[i.content_type] \subseteq Given(i)
<1>1. AllowedFields = ContractFields
  BY DEF AllowedFields, ContractFields
<1>2. CASE i.content_type = "image"
  BY <1>1, <1>2 DEF Conforms, ContractRequires
<1>3. CASE i.content_type # "image"
  <2>1. i.content_type \in {"job", "announcement", "business_info", "page"}
    BY <1>3 DEF Conforms, Types
  <2>2. ContractRequires[i.content_type] = FallbackTable[i.content_type]
    BY <2>1 DEF ContractRequires, FallbackTable
  <2>3. i.action = "create" => FallbackTable[i.content_type] \ Given(i) = {}
    BY <1>3 DEF MissingRequired
  <2> QED
    BY <1>1, <2>2, <2>3 DEF Conforms
<1> QED
  BY <1>2, <1>3

\* What the router sends is complete, and Track B's gate refuses it only for a type
\* the site has not enabled (missing_required_fields, validate_intent_for_site).
THEOREM RouterAndGateAgree == ReadingSpec => []GatesAgree
<1>1. Vetted => GatesAgree
  BY ListsAgree DEF Vetted, GatesAgree, AllowedOnSite
<1> QED
  BY <1>1, VettedInductive, PTL

-----------------------------------------------------------------------------
LEMMA HarmlessKept ==
    ASSUME Vetted, Harmless, [ReadingNext]_readingVars
    PROVE  Harmless'
<1>1. CASE ReceiveMessage
  BY <1>1, Statuses DEF ReceiveMessage, Harmless, NothingUnasked
<1>2. CASE ModelAnswers \/ AttemptFails \/ RateLimited \/ ParseAnswer
  <2>1. step # "idle" /\ UNCHANGED effect
    BY <1>2 DEF ModelAnswers, AttemptFails, RateLimited, ParseAnswer, Asking
  <2>2. step' \in {"answered", "parsed", "primary", "fallback"}
    BY <1>2 DEF ModelAnswers, AttemptFails, RateLimited, ParseAnswer, Asking, Degrade
  <2> QED
    BY <2>1, <2>2 DEF Harmless, NothingUnasked
<1>3. CASE RouteIntent \/ OwnerDecides \/ CheckOnSite
  <2>1. step # "idle" /\ UNCHANGED <<effect, raw>>
    BY <1>3 DEF RouteIntent, OwnerDecides, CheckOnSite
  <2>2. step' \in {"sent", "dispatched"} /\ ~approved' => ~Destructive(raw)
    BY <1>3 DEF RouteIntent, OwnerDecides, CheckOnSite, Harmless
  <2>3. Destructive(raw)' <=> Destructive(raw)
    BY <2>1 DEF Destructive
  <2> QED
    BY <2>1, <2>2, <2>3 DEF Harmless, NothingUnasked
<1>4. CASE Dispatch
  <2>1. step = "dispatched" /\ step' = "idle" /\ effect.what = "none" /\ UNCHANGED <<raw, approved>>
    BY <1>4 DEF Dispatch, Harmless
  <2>2. raw.action \in Actions
    BY <2>1 DEF Vetted, Conforms
  <2>3. ~approved => raw.action # "delete" /\ (raw.content_type = "business_info" => raw.action = "create")
    BY <2>1, <2>2 DEF Harmless, Destructive, Actions
  <2>4. raw.action # "delete" => EffectOf(raw) # "removed"
    BY <2>2 DEF EffectOf, Actions
  <2>5. NothingUnasked'
    <3>1. CASE effect' = [what |-> EffectOf(raw)]
      BY <2>1, <2>3, <2>4, <3>1 DEF NothingUnasked
    <3>2. CASE UNCHANGED effect
      BY <2>1, <3>2 DEF NothingUnasked
    <3> QED
      BY <1>4, <3>1, <3>2 DEF Dispatch
  <2> QED
    BY <2>1, <2>5 DEF Harmless
<1>5. CASE UNCHANGED readingVars
  BY <1>5 DEF readingVars, Harmless, NothingUnasked, Destructive
<1> QED
  BY <1>1, <1>2, <1>3, <1>4, <1>5 DEF ReadingNext

\* Without a YES nothing is removed, and business info is written only for what the
\* model called a create (_is_destructive, apply_intent, the handlers).
THEOREM NothingWithoutYes == ReadingSpec => []NothingUnasked
<1>1. ReadingInit => Harmless
  BY Statuses DEF ReadingInit, Harmless, NothingUnasked
<1>2. Harmless => NothingUnasked
  BY DEF Harmless
<1> QED
  BY <1>1, <1>2, HarmlessKept, VettedInductive, PTL DEF ReadingSpec

-----------------------------------------------------------------------------
Ends == {"limited", "failed", "answer"}
PF == <<"primary", "failed">>
PL == <<"primary", "limited">>
FF == <<"fallback", "failed">>

\* Every history one message can have.
Histories ==
    {<<>>}
    \cup {<< <<"primary", e>> >> : e \in Ends}
    \cup {<<PF, <<"primary", e>> >> : e \in Ends}
    \cup {<<PL, <<"fallback", e>> >> : e \in Ends}
    \cup {<<PF, PL, <<"fallback", e>> >> : e \in Ends}
    \cup {<<PL, FF, <<"fallback", e>> >> : e \in Ends}
    \cup {<<PF, PL, FF, <<"fallback", e>> >> : e \in Ends}

\* The history while a model is being asked, by the attempts it has failed.
AskedSoFar ==
    /\ asked \in Histories
    /\ step = "primary" => \/ attempt = 0 /\ asked = <<>>
                           \/ attempt = 1 /\ asked = <<PF>>
    /\ step = "fallback" => \/ attempt = 0 /\ (asked = <<PL>> \/ asked = <<PF, PL>>)
                            \/ attempt = 1 /\ (asked = <<PL, FF>> \/ asked = <<PF, PL, FF>>)

LEMMA AtMostTwo ==
    ASSUME NEW a, NEW b, NEW S, S \subseteq {a, b}
    PROVE  Cardinality(S) <= 2
<1>1. IsFiniteSet({a, b}) /\ Cardinality({a, b}) <= 2
  <2>1. IsFiniteSet({b}) /\ Cardinality({b}) = 1
    BY FS_Singleton
  <2>2. {a, b} = {b} \cup {a}
    OBVIOUS
  <2>3. IsFiniteSet({b} \cup {a}) /\ Cardinality({b} \cup {a}) \in {1, 2}
    BY <2>1, FS_AddElement
  <2> QED
    BY <2>2, <2>3
<1>2. IsFiniteSet(S) /\ Cardinality(S) <= Cardinality({a, b})
  BY <1>1, FS_Subset
<1>3. Cardinality(S) \in Nat /\ Cardinality({a, b}) \in Nat
  BY <1>1, <1>2, FS_CardinalityType
<1> QED
  BY <1>1, <1>2, <1>3

LEMMA AppendedToOne ==
    ASSUME NEW x, NEW u
    PROVE  Append(<<x>>, u) = <<x, u>>
<1> DEFINE S == {x, u}
<1>1. x \in S /\ u \in S
  OBVIOUS
<1> HIDE DEF S
<1>2. <<x>> \in Seq(S) /\ <<x, u>> \in Seq(S) /\ Len(<<x>>) = 1 /\ Len(<<x, u>>) = 2
  BY <1>1
<1>3. /\ Append(<<x>>, u) \in Seq(S) /\ Len(Append(<<x>>, u)) = 2
      /\ \A i \in 1..1 : Append(<<x>>, u)[i] = <<x>>[i]
      /\ Append(<<x>>, u)[2] = u
  BY <1>1, <1>2, AppendProperties
<1>4. \A i \in 1..2 : Append(<<x>>, u)[i] = <<x, u>>[i]
  BY <1>3
<1> QED
  BY <1>2, <1>3, <1>4, SeqEqual

LEMMA AppendedToTwo ==
    ASSUME NEW x, NEW y, NEW u
    PROVE  Append(<<x, y>>, u) = <<x, y, u>>
<1> DEFINE S == {x, y, u}
<1>1. x \in S /\ y \in S /\ u \in S
  OBVIOUS
<1> HIDE DEF S
<1>2. <<x, y>> \in Seq(S) /\ <<x, y, u>> \in Seq(S) /\ Len(<<x, y>>) = 2 /\ Len(<<x, y, u>>) = 3
  BY <1>1
<1>3. /\ Append(<<x, y>>, u) \in Seq(S) /\ Len(Append(<<x, y>>, u)) = 3
      /\ \A i \in 1..2 : Append(<<x, y>>, u)[i] = <<x, y>>[i]
      /\ Append(<<x, y>>, u)[3] = u
  BY <1>1, <1>2, AppendProperties
<1>4. \A i \in 1..3 : Append(<<x, y>>, u)[i] = <<x, y, u>>[i]
  BY <1>3
<1> QED
  BY <1>2, <1>3, <1>4, SeqEqual

LEMMA AppendedToThree ==
    ASSUME NEW x, NEW y, NEW z, NEW u
    PROVE  Append(<<x, y, z>>, u) = <<x, y, z, u>>
<1> DEFINE S == {x, y, z, u}
<1>1. x \in S /\ y \in S /\ z \in S /\ u \in S
  OBVIOUS
<1> HIDE DEF S
<1>2. <<x, y, z>> \in Seq(S) /\ <<x, y, z, u>> \in Seq(S) /\ Len(<<x, y, z>>) = 3 /\ Len(<<x, y, z, u>>) = 4
  BY <1>1
<1>3. /\ Append(<<x, y, z>>, u) \in Seq(S) /\ Len(Append(<<x, y, z>>, u)) = 4
      /\ \A i \in 1..3 : Append(<<x, y, z>>, u)[i] = <<x, y, z>>[i]
      /\ Append(<<x, y, z>>, u)[4] = u
  BY <1>1, <1>2, AppendProperties
<1>4. \A i \in 1..4 : Append(<<x, y, z>>, u)[i] = <<x, y, z, u>>[i]
  BY <1>3
<1> QED
  BY <1>2, <1>3, <1>4, SeqEqual

\* One more end of the model being asked.
LEMMA OneMore ==
    ASSUME AskedSoFar, Asking, NEW e \in Ends, Note(e)
    PROVE  /\ asked' \in Histories
           /\ step = "primary" /\ attempt = 0 => asked' = << <<"primary", e>> >>
           /\ step = "primary" /\ attempt # 0 => asked' = <<PF, <<"primary", e>> >>
           /\ step = "fallback" /\ attempt = 0 =>
                  asked' = <<PL, <<"fallback", e>> >> \/ asked' = <<PF, PL, <<"fallback", e>> >>
<1>1. CASE step = "primary" /\ attempt = 0
  <2>1. asked' = << <<"primary", e>> >>
    BY <1>1 DEF AskedSoFar, Note
  <2> QED
    BY <1>1, <2>1 DEF Histories
<1>2. CASE step = "primary" /\ attempt # 0
  <2>1. asked' = <<PF, <<"primary", e>> >>
    BY <1>2, AppendedToOne DEF AskedSoFar, Note
  <2> QED
    BY <1>2, <2>1 DEF Histories
<1>3. CASE step = "fallback" /\ attempt = 0
  <2>1. asked = <<PL>> \/ asked = <<PF, PL>>
    BY <1>3 DEF AskedSoFar
  <2>2. asked' = Append(asked, <<"fallback", e>>)
    BY <1>3 DEF Note
  <2>3. asked' = <<PL, <<"fallback", e>> >> \/ asked' = <<PF, PL, <<"fallback", e>> >>
    <3> DEFINE u == <<"fallback", e>>
    <3> HIDE DEF u
    <3>1. Append(<<PL>>, u) = <<PL, u>> /\ Append(<<PF, PL>>, u) = <<PF, PL, u>>
      BY AppendedToOne, AppendedToTwo
    <3>2. asked' = <<PL, u>> \/ asked' = <<PF, PL, u>>
      BY <2>1, <2>2, <3>1 DEF u
    <3> QED
      BY <3>2 DEF u
  <2> QED
    BY <1>3, <2>3 DEF Histories
<1>4. CASE step = "fallback" /\ attempt # 0
  <2>1. asked = <<PL, FF>> \/ asked = <<PF, PL, FF>>
    BY <1>4 DEF AskedSoFar
  <2>2. asked' = Append(asked, <<"fallback", e>>)
    BY <1>4 DEF Note
  <2>3. \/ asked' = <<PL, FF, <<"fallback", e>> >>
        \/ asked' = <<PF, PL, FF, <<"fallback", e>> >>
    <3> DEFINE u == <<"fallback", e>>
    <3> HIDE DEF u
    <3>1. /\ Append(<<PL, FF>>, u) = <<PL, FF, u>>
          /\ Append(<<PF, PL, FF>>, u) = <<PF, PL, FF, u>>
      BY AppendedToTwo, AppendedToThree
    <3>2. asked' = <<PL, FF, u>> \/ asked' = <<PF, PL, FF, u>>
      BY <2>1, <2>2, <3>1 DEF u
    <3> QED
      BY <3>2 DEF u
  <2> QED
    BY <1>4, <2>3 DEF Histories
<1> QED
  BY <1>1, <1>2, <1>3, <1>4 DEF Asking

LEMMA AskedSoFarKept ==
    ASSUME AskedSoFar, [ReadingNext]_readingVars
    PROVE  AskedSoFar'
<1>1. CASE ReceiveMessage
  BY <1>1 DEF ReceiveMessage, AskedSoFar, Histories
<1>2. CASE ModelAnswers
  <2>1. asked' \in Histories
    BY <1>2, OneMore DEF ModelAnswers, Ends
  <2> QED
    BY <1>2, <2>1 DEF ModelAnswers, AskedSoFar
<1>3. CASE AttemptFails
  <2> USE DEF AttemptFails, Degrade, Ends
  <2>1. asked' \in Histories
    BY <1>3, OneMore
  <2>2. CASE step = "primary" /\ attempt = 0
    BY <1>3, <2>1, <2>2, OneMore DEF AskedSoFar, PF
  <2>3. CASE step = "fallback" /\ attempt = 0
    BY <1>3, <2>1, <2>3, OneMore DEF AskedSoFar, FF
  <2>4. CASE attempt # 0
    BY <1>3, <2>1, <2>4 DEF AskedSoFar
  <2> QED
    BY <1>3, <2>2, <2>3, <2>4 DEF Asking
<1>4. CASE RateLimited
  <2>1. asked' \in Histories
    BY <1>4, OneMore DEF RateLimited, Ends
  <2>2. CASE step = "primary" /\ hasFallback
    <3>1. asked' = <<PL>> \/ asked' = <<PF, PL>>
      BY <1>4, <2>2, OneMore DEF RateLimited, Ends, PL
    <3> QED
      BY <1>4, <2>1, <2>2, <3>1 DEF RateLimited, AskedSoFar
  <2>3. CASE ~(step = "primary" /\ hasFallback)
    BY <1>4, <2>1, <2>3 DEF RateLimited, Degrade, AskedSoFar
  <2> QED
    BY <2>2, <2>3
<1>5. CASE ParseAnswer \/ RouteIntent \/ OwnerDecides \/ CheckOnSite \/ Dispatch
  <2>1. UNCHANGED asked /\ step' \notin {"primary", "fallback"}
    BY <1>5 DEF ParseAnswer, RouteIntent, OwnerDecides, CheckOnSite, Dispatch
  <2> QED
    BY <2>1 DEF AskedSoFar
<1>6. CASE UNCHANGED readingVars
  BY <1>6 DEF readingVars, AskedSoFar
<1> QED
  BY <1>1, <1>2, <1>3, <1>4, <1>5, <1>6 DEF ReadingNext

\* Every history keeps to the discipline: where the two models' turns are in it.
LEMMA HistoriesDisciplined ==
    ASSUME asked \in Histories
    PROVE  ChainDiscipline
<1> DEFINE Turns(i) == {j \in DOMAIN asked : asked[j][1] = asked[i][1]}
           InOrder(i) ==
               /\ asked[i][1] = "fallback" =>
                      \E j \in 1..(i - 1) : /\ asked[j] = PL
                                            /\ \A k \in (j + 1)..Len(asked) : asked[k][1] = "fallback"
               /\ asked[i][2] # "failed" => \A j \in (i + 1)..Len(asked) : asked[j][1] # asked[i][1]
<1> SUFFICES ASSUME NEW i \in DOMAIN asked
             PROVE  InOrder(i) /\ \E a, b : Turns(i) \subseteq {a, b}
  BY AtMostTwo DEF ChainDiscipline, PL
<1>1. CASE asked = <<>>
  BY <1>1
<1>2. CASE \E e \in Ends : asked = << <<"primary", e>> >>
  <2>1. InOrder(i)
    BY <1>2
  <2>2. Turns(i) \subseteq {1, 2}
    BY <1>2
  <2> QED
    BY <2>1, <2>2
<1>3. CASE \E e \in Ends : asked = <<PF, <<"primary", e>> >>
  <2>1. InOrder(i)
    BY <1>3 DEF PF
  <2>2. Turns(i) \subseteq {1, 2}
    BY <1>3
  <2> QED
    BY <2>1, <2>2
<1>4. CASE \E e \in Ends : asked = <<PL, <<"fallback", e>> >>
  <2>1. InOrder(i)
    BY <1>4 DEF PL
  <2>2. Turns(i) \subseteq {1, 2}
    BY <1>4
  <2> QED
    BY <2>1, <2>2
<1>5. CASE \E e \in Ends : asked = <<PF, PL, <<"fallback", e>> >>
  <2>1. InOrder(i)
    BY <1>5 DEF PF, PL
  <2>2. Turns(i) \subseteq {1, 2} \/ Turns(i) \subseteq {3, 4}
    BY <1>5 DEF PF, PL
  <2> QED
    BY <2>1, <2>2
<1>6. CASE \E e \in Ends : asked = <<PL, FF, <<"fallback", e>> >>
  <2>1. InOrder(i)
    BY <1>6 DEF PL, FF
  <2>2. Turns(i) \subseteq {1, 1} \/ Turns(i) \subseteq {2, 3}
    BY <1>6 DEF PL, FF
  <2> QED
    BY <2>1, <2>2
<1>7. CASE \E e \in Ends : asked = <<PF, PL, FF, <<"fallback", e>> >>
  <2>1. InOrder(i)
    BY <1>7 DEF PF, PL, FF
  <2>2. Turns(i) \subseteq {1, 2} \/ Turns(i) \subseteq {3, 4}
    BY <1>7 DEF PF, PL, FF
  <2> QED
    BY <2>1, <2>2
<1> QED
  BY <1>1, <1>2, <1>3, <1>4, <1>5, <1>6, <1>7 DEF Histories

\* For every message the primary is asked first, the fallback only after its 429, and
\* nobody more than twice (FallbackChain, RetryableProvider).
THEOREM ModelsAskedInOrder == ReadingSpec => []ChainDiscipline
<1>1. ReadingInit => AskedSoFar
  BY DEF ReadingInit, AskedSoFar, Histories
<1>2. AskedSoFar => ChainDiscipline
  BY HistoriesDisciplined DEF AskedSoFar
<1> QED
  BY <1>1, <1>2, AskedSoFarKept, PTL DEF ReadingSpec

-----------------------------------------------------------------------------
Named == {"primary", "fallback"} \X Ends
ReadingTypes == ReadingTypeOK /\ asked \in Seq(Named)

LEMMA ReadingTyped ==
    ASSUME ReadingTypes, [ReadingNext]_readingVars
    PROVE  ReadingTypes'
<1>0. ReadingTypeOK /\ asked \in Seq(Named)
  BY DEF ReadingTypes
<1>1. asked' \in Seq(Named)
  <2>1. ASSUME Asking, NEW end \in Ends, Note(end) PROVE asked' \in Seq(Named)
    <3>1. <<step, end>> \in Named
      BY <2>1 DEF Asking, Named
    <3> QED
      BY <1>0, <2>1, <3>1 DEF Note
  <2>2. CASE ModelAnswers \/ AttemptFails \/ RateLimited
    BY <2>1, <2>2 DEF ModelAnswers, AttemptFails, RateLimited, Ends
  <2>3. CASE ReceiveMessage
    BY <2>3 DEF ReceiveMessage
  <2>4. CASE \/ ParseAnswer \/ RouteIntent \/ OwnerDecides \/ CheckOnSite \/ Dispatch
             \/ UNCHANGED readingVars
    BY <1>0, <2>4 DEF ParseAnswer, RouteIntent, OwnerDecides, CheckOnSite, Dispatch, readingVars
  <2> QED
    BY <2>2, <2>3, <2>4 DEF ReadingNext
<1>2. \A i \in DOMAIN asked' :
          asked'[i] \in {"primary", "fallback"} \X {"limited", "failed", "answer"}
  BY <1>1 DEF Named, Ends
<1>3. hasFallback' \in BOOLEAN /\ approved' \in BOOLEAN /\ attempt' \in {0, 1}
  BY <1>0 DEF ReadingTypeOK, ReadingNext, ReceiveMessage, ModelAnswers, AttemptFails, RateLimited,
         Degrade, ParseAnswer, RouteIntent, OwnerDecides, CheckOnSite, Dispatch, readingVars
<1>4. step' \in {"idle", "primary", "fallback", "answered", "parsed", "staged", "sent", "dispatched"}
  BY <1>0 DEF ReadingTypeOK, ReadingNext, ReceiveMessage, ModelAnswers, AttemptFails, RateLimited,
         Degrade, ParseAnswer, RouteIntent, OwnerDecides, CheckOnSite, Dispatch, readingVars
<1>5. raw' = NoAnswer \/ raw'.content_type \in Types \cup {"odd", "unsupported"}
  <2>1. CASE ModelAnswers
    <3>1. \/ raw' = Unsupported
          \/ \E t \in Types : raw' \in Answer({t}, ContractFields[t] \cup {"odd"})
          \/ raw' \in Answer({"odd"}, {"title"})
      BY <2>1 DEF ModelAnswers
    <3>2. \A S, N : \A a \in Answer(S, N) : a.content_type \in S
      BY DEF Answer
    <3>3. Unsupported.content_type = "unsupported"
      BY DEF Unsupported
    <3>4. ASSUME NEW t \in Types, raw' \in Answer({t}, ContractFields[t] \cup {"odd"})
          PROVE  raw'.content_type \in Types
      <4>1. raw'.content_type \in {t}
        BY <3>2, <3>4
      <4> QED
        BY <4>1
    <3>5. raw' \in Answer({"odd"}, {"title"}) => raw'.content_type \in {"odd"}
      BY <3>2
    <3> QED
      BY <3>1, <3>3, <3>4, <3>5
  <2>2. CASE ReceiveMessage
    BY <2>2 DEF ReceiveMessage
  <2>3. CASE UNCHANGED raw
    BY <1>0, <2>3 DEF ReadingTypeOK
  <2> QED
    BY <2>1, <2>2, <2>3 DEF ReadingNext, AttemptFails, RateLimited, ParseAnswer, RouteIntent,
                            OwnerDecides, CheckOnSite, Dispatch, readingVars
<1>6. /\ result'.status \in {"none", "low_confidence", "unsupported", "intent"}
      /\ result'.status = "intent" => result'.sure \in BOOLEAN
  <2>1. \/ UNCHANGED result \/ result' = NoResult \/ result' = LowConfidence
        \/ result' = [status |-> "unsupported"] \/ result' = [status |-> "intent", sure |-> Sure(raw)]
    BY DEF ReadingNext, ReceiveMessage, ModelAnswers, AttemptFails, RateLimited, Degrade,
           ParseAnswer, RouteIntent, OwnerDecides, CheckOnSite, Dispatch, readingVars
  <2>2. Sure(raw) \in BOOLEAN
    BY DEF Sure
  <2> QED
    BY <1>0, <2>1, <2>2 DEF NoResult, LowConfidence, ReadingTypeOK
<1>7. effect'.what \in {"none", "added", "changed", "removed"}
  <2>1. UNCHANGED effect \/ effect' = NoEffect \/ effect' = [what |-> EffectOf(raw)]
    BY DEF ReadingNext, ReceiveMessage, ModelAnswers, AttemptFails, RateLimited, ParseAnswer,
           RouteIntent, OwnerDecides, CheckOnSite, Dispatch, readingVars
  <2>2. EffectOf(raw) \in {"added", "changed", "removed"}
    BY DEF EffectOf
  <2> QED
    BY <1>0, <2>1, <2>2 DEF NoEffect, ReadingTypeOK
<1> QED
  BY <1>1, <1>2, <1>3, <1>4, <1>5, <1>6, <1>7 DEF ReadingTypeOK, ReadingTypes

\* From the model's answer to the effect every variable keeps its type.
THEOREM ReadingTypeCorrect == ReadingSpec => []ReadingTypeOK
<1>1. ReadingInit => ReadingTypes
  <2> SUFFICES ASSUME ReadingInit PROVE ReadingTypes
    OBVIOUS
  <2>1. NoResult.status = "none" /\ NoEffect.what = "none"
    BY DEF NoResult, NoEffect
  <2>2. asked \in Seq(Named) /\ \A i \in DOMAIN asked : FALSE
    BY DEF ReadingInit
  <2> QED
    BY <2>1, <2>2 DEF ReadingInit, ReadingTypes, ReadingTypeOK
<1>2. ReadingTypes => ReadingTypeOK
  BY DEF ReadingTypes
<1> QED
  BY <1>1, <1>2, ReadingTyped, PTL DEF ReadingSpec
=============================================================================
