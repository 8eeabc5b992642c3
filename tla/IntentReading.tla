--------------------------- MODULE IntentReading ---------------------------
(***************************************************************************)
(* From an owner's words to an effect on her site: the model providers and *)
(* their fallback (ai_provider.py), the parser (intent.py), the contract   *)
(* (intent.schema.json), the router's decision whether to ask, to want a   *)
(* YES or to go ahead (routing.py), Track B's own gate (allowlist.py) and  *)
(* the handlers (content_types.py).  One message at a time: what messages  *)
(* do to each other is Conversation's subject.                             *)
(*                                                                         *)
(* An intent names its fields; blank are those it names with an empty      *)
(* value.  "odd" is any action, type or field the contract does not know,  *)
(* or a value of the wrong type.                                           *)
(***************************************************************************)
EXTENDS Naturals, Sequences, FiniteSets

VARIABLES
    hasFallback, \* AI_FALLBACK_PROVIDER is set
    step,        \* where the message is
    attempt,     \* failed attempts of the provider being asked
    raw,         \* the model's answer
    result,      \* IntentParseResult
    approved,    \* the owner's YES
    asked,       \* history: who was asked for this message, and how it ended
    effect       \* history: what the last message did to the site

readingVars == <<hasFallback, step, attempt, raw, result, approved, asked, effect>>

Actions == {"create", "update", "delete"}
Types == {"job", "announcement", "business_info", "image", "page"}

\* The fields of the contract; optional ones that are treated alike are one here.
ContractFields ==
    [job |-> {"title", "description", "location"}, announcement |-> {"title", "body"},
     business_info |-> {"hours"}, image |-> {"slot", "media_url", "media_base64"},
     page |-> {"title", "content"}]
MayBeBlank ==
    [job |-> {"location"}, announcement |-> {}, business_info |-> {"hours"},
     image |-> {"media_url"}, page |-> {"title", "content"}]
ContractRequires ==
    [job |-> {"title", "description"}, announcement |-> {"title", "body"},
     business_info |-> {}, image |-> {}, page |-> {}]

Answer(types, names) ==
    [action : Actions \cup {"odd"}, content_type : types, fields : SUBSET names,
     blank : SUBSET (names \ {"odd"}), confidence : {"missing", "low", "high", "nan"}]

Unsupported == [content_type |-> "unsupported"]
NoAnswer == [content_type |-> "none"]
LowConfidence == [status |-> "low_confidence"]
NoResult == [status |-> "none"]
NoEffect == [what |-> "none"]

ReadingTypeOK ==
    /\ hasFallback \in BOOLEAN /\ approved \in BOOLEAN
    /\ step \in {"idle", "primary", "fallback", "answered", "parsed", "staged", "sent", "dispatched"}
    /\ attempt \in {0, 1}
    /\ raw = NoAnswer \/ raw.content_type \in Types \cup {"odd", "unsupported"}
    /\ result.status \in {"none", "low_confidence", "unsupported", "intent"}
    /\ result.status = "intent" => result.sure \in BOOLEAN
    /\ \A i \in DOMAIN asked : asked[i] \in {"primary", "fallback"} \X {"limited", "failed", "answer"}
    /\ effect.what \in {"none", "added", "changed", "removed"}

ReadingInit ==
    /\ hasFallback \in BOOLEAN
    /\ step = "idle" /\ attempt = 0 /\ raw = NoAnswer /\ result = NoResult
    /\ approved = FALSE /\ asked = <<>> /\ effect = NoEffect

-----------------------------------------------------------------------------
(* Asking the model *)

\* A message to be understood; a blank one is not worth a call.
ReceiveMessage ==
    /\ step = "idle"
    /\ \/ step' = "primary" /\ result' = NoResult
       \/ step' = "parsed" /\ result' = LowConfidence
    /\ attempt' = 0 /\ raw' = NoAnswer /\ approved' = FALSE /\ asked' = <<>> /\ effect' = NoEffect
    /\ UNCHANGED hasFallback

Asking == step \in {"primary", "fallback"}
Note(end) == asked' = Append(asked, <<step, end>>)
Degrade == step' = "parsed" /\ result' = LowConfidence

\* Any object of the model's: the confidence is below the threshold, reaches it, is
\* missing, or is JSON's NaN.
ModelAnswers ==
    /\ Asking
    /\ \/ raw' = Unsupported
       \/ /\ \/ \E t \in Types : raw' \in Answer({t}, ContractFields[t] \cup {"odd"})
             \/ raw' \in Answer({"odd"}, {"title"})
          /\ raw'.blank \subseteq raw'.fields
    /\ step' = "answered" /\ Note("answer")
    /\ UNCHANGED <<hasFallback, attempt, result, approved, effect>>

\* Mutants of AttemptFails: one attempt more; the chain fails over on any error.
AttemptFailsAgain ==
    /\ Asking
    /\ Note("failed")
    /\ IF attempt < 2
       THEN attempt' = attempt + 1 /\ UNCHANGED <<step, result>>
       ELSE Degrade /\ UNCHANGED attempt
    /\ UNCHANGED <<hasFallback, raw, approved, effect>>
AttemptFailsOver ==
    /\ Asking
    /\ Note("failed")
    /\ IF attempt = 0
       THEN attempt' = 1 /\ UNCHANGED <<step, result>>
       ELSE IF step = "primary" /\ hasFallback
       THEN step' = "fallback" /\ attempt' = 0 /\ UNCHANGED result
       ELSE Degrade /\ UNCHANGED attempt
    /\ UNCHANGED <<hasFallback, raw, approved, effect>>

\* A timeout, malformed JSON, no object, or any other error: the provider is asked
\* once more, then its error goes through the chain to the parser.
AttemptFails ==
    /\ Asking
    /\ Note("failed")
    /\ IF attempt = 0
       THEN attempt' = 1 /\ UNCHANGED <<step, result>>
       ELSE Degrade /\ UNCHANGED attempt
    /\ UNCHANGED <<hasFallback, raw, approved, effect>>

\* A 429 is not tried again.  The chain asks the fallback, for this message only.
RateLimited ==
    /\ Asking
    /\ Note("limited")
    /\ IF step = "primary" /\ hasFallback
       THEN step' = "fallback" /\ attempt' = 0 /\ UNCHANGED result
       ELSE Degrade /\ UNCHANGED attempt
    /\ UNCHANGED <<hasFallback, raw, approved, effect>>

-----------------------------------------------------------------------------
(* Reading the answer *)

\* validate_intent.  Who names a field without minLength may leave it empty.
Media == {"media_url", "media_base64"}
Conforms(i) ==
    /\ i.action \in Actions /\ i.content_type \in Types
    /\ i.fields # {} /\ i.fields \subseteq ContractFields[i.content_type]
    /\ i.blank \subseteq MayBeBlank[i.content_type]
    /\ i.action = "create" => ContractRequires[i.content_type] \subseteq i.fields
    /\ i.content_type = "image" =>
           /\ "slot" \in i.fields
           /\ i.action # "delete" => Cardinality(Media \cap i.fields) = 1

\* _build_intent clamps the confidence with min and max, which make NaN a 1.0.
Sure(i) == i.confidence \in {"high", "nan"}

ParseAnswer ==
    /\ step = "answered"
    /\ result' = IF raw = Unsupported THEN [status |-> "unsupported"]
                 ELSE IF raw.confidence = "missing" \/ ~Conforms(raw) THEN LowConfidence
                 ELSE [status |-> "intent", sure |-> Sure(raw)]
    /\ step' = "parsed"
    /\ UNCHANGED <<hasFallback, attempt, raw, approved, asked, effect>>

-----------------------------------------------------------------------------
(* Routing it *)

\* missing_required_fields has a table of its own, and looks at values, too.
FallbackTable ==
    [job |-> {"title", "description"}, announcement |-> {"title", "body"},
     business_info |-> {}, image |-> {"slot"}, page |-> {}]
Given(i) == i.fields \ i.blank
MissingRequired(i) ==
    IF i.content_type = "image"
    THEN ({"slot"} \ Given(i)) \cup
         (IF i.action # "delete" /\ Media \cap Given(i) = {}
          THEN {"media_url"} ELSE {})
    ELSE IF i.action = "create" THEN FallbackTable[i.content_type] \ Given(i)
    ELSE {}

\* Mutant of Destructive: only business info is precious.
DestructiveInfoOnly(i) == i.action \in {"update", "delete"} /\ i.content_type = "business_info"

Destructive(i) == i.action = "delete" \/ (i.action = "update" /\ i.content_type = "business_info")

Ready == result.status = "intent" /\ result.sure /\ MissingRequired(raw) = {}

\* _route: ask, want a YES, or go ahead.
RouteIntent ==
    /\ step = "parsed"
    /\ step' = IF ~Ready THEN "idle" ELSE IF Destructive(raw) THEN "staged" ELSE "sent"
    /\ UNCHANGED <<hasFallback, attempt, raw, result, approved, asked, effect>>

OwnerDecides ==
    /\ step = "staged"
    /\ \/ step' = "sent" /\ approved' = TRUE
       \/ step' = "idle" /\ UNCHANGED approved
    /\ UNCHANGED <<hasFallback, attempt, raw, result, asked, effect>>

-----------------------------------------------------------------------------
(* Track B *)

\* Mutant of AllowedFields: a mapping from before the contract had all fields.
AllowedFieldsOlder == [ContractFields EXCEPT !.job = {"title", "description"}]

\* PILOT_SITE_CONFIG, which every site is stored with.
Enabled == Types \ {"image"}
AllowedFields ==
    [job |-> {"title", "description", "location"}, announcement |-> {"title", "body"},
     business_info |-> {"hours"}, image |-> {"slot", "media_url", "media_base64"},
     page |-> {"title", "content"}]

\* validate_intent_for_site
AllowedOnSite(i) ==
    /\ Conforms(i)
    /\ i.content_type \in Enabled
    /\ i.fields \subseteq AllowedFields[i.content_type]

\* apply_intent: the gate.  What it refuses is a failed result.
CheckOnSite ==
    /\ step = "sent"
    /\ step' = IF AllowedOnSite(raw) THEN "dispatched" ELSE "idle"
    /\ UNCHANGED <<hasFallback, attempt, raw, result, approved, asked, effect>>

\* The handler finds what to work on by its title.  business_info is one option
\* and the handler merges the fields into it, whatever the action; a picture
\* replaces the one in its slot, whatever the action, if it came with the message.
Applies(i) ==
    \/ i.content_type = "business_info"
    \/ i.content_type = "image" /\ {"slot", "media_base64"} \subseteq Given(i)
    \/ i.content_type \in {"job", "announcement"} /\ (i.action = "create" \/ "title" \in Given(i))
    \/ i.content_type = "page" /\ i.action = "update" /\ "title" \in Given(i)

EffectOf(i) ==
    CASE i.content_type \in {"business_info", "image"} \/ i.action = "update" -> "changed"
      [] i.action = "create" -> "added"
      [] OTHER -> "removed"

\* The handler runs.  It raises for what it does not support or find, and when
\* WordPress does.
Dispatch ==
    /\ step = "dispatched"
    /\ \/ Applies(raw) /\ effect' = [what |-> EffectOf(raw)]
       \/ UNCHANGED effect
    /\ step' = "idle"
    /\ UNCHANGED <<hasFallback, attempt, raw, result, approved, asked>>

ReadingNext ==
    \/ ReceiveMessage \/ ModelAnswers \/ AttemptFails \/ RateLimited \/ ParseAnswer
    \/ RouteIntent \/ OwnerDecides \/ CheckOnSite \/ Dispatch

ReadingSpec == ReadingInit /\ [][ReadingNext]_readingVars

-----------------------------------------------------------------------------
\* For every message the primary is asked first and the fallback only after, and
\* right after, the primary's 429; nobody is asked more than twice, nor after a
\* 429 or an answer of his (FallbackChain, RetryableProvider).
ChainDiscipline ==
    \A i \in DOMAIN asked :
        /\ asked[i][1] = "fallback" =>
               \E j \in 1..(i - 1) : /\ asked[j] = <<"primary", "limited">>
                                     /\ \A k \in (j + 1)..Len(asked) : asked[k][1] = "fallback"
        /\ asked[i][2] # "failed" => \A j \in (i + 1)..Len(asked) : asked[j][1] # asked[i][1]
        /\ Cardinality({j \in DOMAIN asked : asked[j][1] = asked[i][1]}) <= 2

\* The contract, the router's table and the site's mapping are three lists kept by
\* hand ("mirrors shared-contract/intent.schema.json").  What the router sends is
\* complete, and Track B's gate refuses it only for a type the site has not enabled.
GatesAgree ==
    step \in {"staged", "sent"} =>
        /\ AllowedOnSite(raw) \/ raw.content_type \notin Enabled
        /\ raw.action = "create" => ContractRequires[raw.content_type] \subseteq Given(raw)

\* Nothing is removed from a site without a YES, and no business info is written
\* without one - but for a change the model called a create: the router takes that
\* for harmless, the handler merges it into the option like an update
\* (_is_destructive, BusinessInfoHandler).
NothingUnasked ==
    effect.what # "none" /\ ~approved =>
        /\ effect.what # "removed"
        /\ raw.content_type = "business_info" => raw.action = "create"
=============================================================================
