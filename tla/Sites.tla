-------------------------------- MODULE Sites --------------------------------
(***************************************************************************)
(* Which site a change lands on.  Track A walks an owner through connecting *)
(* a site (track_a/onboarding.py), remembers the site she chose in her      *)
(* session and in memory (routing.py, session.py), and names it in what it *)
(* sends; Track B keeps the table of sites (track_b/onboarding.py) and      *)
(* resolves the name (track_b/main.py).  The two programs crash and are     *)
(* restarted; the table, the sessions and the staged changes survive.       *)
(***************************************************************************)
EXTENDS Naturals, Sequences, FiniteSets

CONSTANTS
    Clients,      \* the owners whose conversations are followed
    Others,       \* other owners, as far as they touch the table of sites
    Urls,         \* WordPress sites, one site_id per URL
    Contested,    \* those that others have credentials for, too
    NoSite,
    MaxRows, MaxMishaps,  \* bounds: logged changes of an owner, one undo beyond; lost calls, failures and restarts
    LateSetup             \* bound: FALSE - she connects her sites before she asks for changes

ASSUME SiteAssumption ==
    /\ NoSite \notin Urls /\ Clients \cap Others = {} /\ Contested \subseteq Urls
    /\ MaxRows \in Nat \ {0} /\ MaxMishaps \in Nat
    /\ LateSetup \in BOOLEAN

VARIABLES
    table,     \* onboarded_sites in the order of insertion
    walk,      \* OnboardingFlow._sessions: the walkthrough of an owner
    chosen,    \* ActiveSiteStore: the active site, in memory
    tenants,   \* owners with a tenant record, which DBSessionStore needs
    session,   \* conversation_sessions
    staged,    \* the change staged at Track B
    call,      \* the call to Track B an owner's message waits for
    changes,   \* change_log of an owner, oldest first
    connected, \* history: the sites an owner ever proved access to
    told,      \* history: the site an owner was told her messages go to; until her session ends
    moved,     \* history: sites that changed hands
    mishaps    \* lost calls, failures and restarts so far

siteVars == <<table, walk, chosen, tenants, session, staged, call, changes,
              connected, told, moved, mishaps>>

NoWalk == [stage |-> "none"]
NoSession == [state |-> "none", site |-> NoSite]
Session(state, site) == [state |-> state, site |-> site]
NoChange == [site |-> NoSite, meant |-> NoSite, live |-> FALSE]
Change(site, meant) == [site |-> site, meant |-> meant, live |-> TRUE]
NoCall == [kind |-> "none"]

SitesTypeOK ==
    /\ \A i \in DOMAIN table :
           table[i].url \in Urls /\ table[i].owner \in Clients \cup Others /\ table[i].active \in BOOLEAN
    /\ \A o \in Clients :
           /\ walk[o] # NoWalk =>
                  /\ walk[o].stage \in {"url", "username", "app_password"}
                  /\ walk[o].site_url \in Urls \cup {NoSite} /\ walk[o].username \in BOOLEAN
           /\ chosen[o] \in Urls \cup {NoSite} /\ told[o] \in Urls \cup {NoSite}
           /\ session[o].state \in {"none", "IDLE", "CLARIFY", "CONFIRM", "ECHO"}
           /\ session[o].site \in Urls \cup {NoSite}
           /\ staged[o].site \in Urls \cup {NoSite} /\ staged[o].meant \in Urls \cup {NoSite}
           /\ call[o].kind \in {"none", "onboard", "added", "activate", "chosen", "write"}
           /\ Len(changes[o]) <= MaxRows + 1
           /\ connected[o] \subseteq Urls
    /\ tenants \subseteq Clients /\ moved \subseteq Urls
    /\ mishaps \in 0..MaxMishaps

SitesInit ==
    /\ table = <<>> /\ tenants = {} /\ moved = {} /\ mishaps = 0
    /\ walk = [o \in Clients |-> NoWalk]
    /\ chosen = [o \in Clients |-> NoSite] /\ told = [o \in Clients |-> NoSite]
    /\ session = [o \in Clients |-> NoSession]
    /\ staged = [o \in Clients |-> NoChange]
    /\ call = [o \in Clients |-> NoCall]
    /\ changes = [o \in Clients |-> <<>>]
    /\ connected = [o \in Clients |-> {}]

Free(o) == call[o] = NoCall
Mishap == mishaps < MaxMishaps /\ mishaps' = mishaps + 1

-----------------------------------------------------------------------------
(* Track B: the table of sites *)

RowOf(u) == {i \in DOMAIN table : table[i].url = u}
RowsOf(o) == {i \in DOMAIN table : table[i].owner = o}
Owns(o, u) == \E i \in RowOf(u) : table[i].owner = o

\* sites_for_owner(...)[0]
\* Mutant of FirstSite: the first site of the table, whose ever it is.
FirstSiteOfAll(o) == IF table = <<>> THEN NoSite ELSE table[1].url

FirstSite(o) ==
    IF RowsOf(o) = {} THEN NoSite
    ELSE LET i == CHOOSE i \in RowsOf(o) : \A j \in RowsOf(o) : i <= j IN table[i].url

\* _apply_with_services, undo_endpoint: a named site must be hers, otherwise it
\* is her first one; NoSite when that fails.
Resolve(o, u) == IF u = NoSite THEN FirstSite(o) ELSE IF Owns(o, u) THEN u ELSE NoSite

\* add_site: a URL that is known keeps its row, and its marker, under the new owner.
WithSite(o, u) ==
    IF RowOf(u) = {} THEN Append(table, [url |-> u, owner |-> o, active |-> FALSE])
    ELSE [i \in DOMAIN table |-> IF i \in RowOf(u) THEN [table[i] EXCEPT !.owner = o] ELSE table[i]]

HandOver(o, u) == moved' = IF RowOf(u) = {} \/ Owns(o, u) THEN moved ELSE moved \cup {u}

\* Mutant of Marked: sets the marker and clears none.
MarkedToo(t, o, u) ==
    [i \in DOMAIN t |-> IF t[i].url = u THEN [t[i] EXCEPT !.active = TRUE] ELSE t[i]]

\* set_active_site: clears the markers of the owner, sets one.
Marked(t, o, u) ==
    [i \in DOMAIN t |->
        IF t[i].url = u THEN [t[i] EXCEPT !.active = TRUE]
        ELSE IF t[i].owner = o THEN [t[i] EXCEPT !.active = FALSE]
        ELSE t[i]]

-----------------------------------------------------------------------------
(* Track A: the session *)

\* DBSessionStore.set stores nothing for an owner without a tenant record.
Remember(o, s) == session' = IF o \in tenants THEN [session EXCEPT ![o] = s] ELSE session

Forget(o) ==
    /\ session' = [session EXCEPT ![o] = NoSession]
    /\ told' = [told EXCEPT ![o] = NoSite]

-----------------------------------------------------------------------------
(* The walkthrough: messages that need no call *)

Walk(o, w) ==
    /\ walk' = [walk EXCEPT ![o] = w]
    /\ UNCHANGED <<table, chosen, tenants, session, staged, changes, connected, told, moved, mishaps>>

\* A trigger starts it, unless a session of the conversation is live.
StartSetup(o) ==
    /\ walk[o] = NoWalk /\ session[o] = NoSession
    /\ LateSetup \/ (staged[o] = NoChange /\ changes[o] = <<>>)
    /\ Walk(o, [stage |-> "url", site_url |-> NoSite, username |-> FALSE])
    /\ UNCHANGED call

GiveUrl(o, u) ==
    /\ walk[o] # NoWalk /\ walk[o].stage = "url"
    /\ Walk(o, [walk[o] EXCEPT !.site_url = u, !.stage = "username"])
    /\ UNCHANGED call

GiveUsername(o) ==
    /\ walk[o] # NoWalk /\ walk[o].stage = "username"
    /\ Walk(o, [walk[o] EXCEPT !.username = TRUE, !.stage = "app_password"])
    /\ UNCHANGED call

\* "cancel", also while the credentials are being checked: the call goes on, but
\* the state it holds is no longer the owner's walkthrough.
CancelSetup(o) ==
    /\ walk[o] # NoWalk
    /\ Walk(o, NoWalk)
    /\ call' = IF call[o].kind \in {"onboard", "added"}
               THEN [call EXCEPT ![o].current = FALSE] ELSE call

\* The password: _submit awaits Track B.
GivePassword(o) ==
    /\ Free(o) /\ walk[o] # NoWalk /\ walk[o].stage = "app_password"
    /\ call' = [call EXCEPT ![o] =
                   [kind |-> "onboard", site |-> walk[o].site_url, named |-> walk[o].username,
                    prior |-> session[o], current |-> TRUE]]
    /\ UNCHANGED <<table, walk, chosen, tenants, session, staged, changes, connected, told, moved, mishaps>>

\* Mutants of Corrections: a stage nobody handles; the password is asked for although
\* the username was taken back.
CorrectionsMisnamed(w) == {[w EXCEPT !.stage = "credentials"]}
CorrectionsTooFar(w) == {[w EXCEPT !.stage = "app_password", !.username = FALSE]}

\* The owner is asked again for what was wrong, and only for that.
Corrections(w) ==
    { [w EXCEPT !.stage = "url", !.site_url = NoSite], [w EXCEPT !.stage = "url"],
      [w EXCEPT !.stage = "app_password"], [w EXCEPT !.stage = "username", !.username = FALSE] }

\* onboard_site and validate_site_access: the site turns the credentials down, in
\* one of the ways WordPress has, or it is not WordPress, or cannot be reached.
SetupRejected(o) ==
    /\ call[o].kind = "onboard"
    /\ \/ call[o].current /\ \E w \in Corrections(walk[o]) : Walk(o, w)
       \/ ~call[o].current /\ Walk(o, walk[o])
    /\ call' = [call EXCEPT ![o] = NoCall]

\* The probe succeeds and the site is stored.
SetupAccepted(o) ==
    /\ call[o].kind = "onboard"
    /\ table' = WithSite(o, call[o].site) /\ HandOver(o, call[o].site)
    /\ connected' = [connected EXCEPT ![o] = @ \cup {call[o].site}]
    /\ call' = [call EXCEPT ![o].kind = "added"]
    /\ UNCHANGED <<walk, chosen, tenants, session, staged, changes, told, mishaps>>

\* The answer is lost, or never came because the call was: "unreachable".
SetupLost(o) ==
    /\ call[o].kind \in {"onboard", "added"} /\ Mishap
    /\ walk' = IF call[o].current THEN [walk EXCEPT ![o].stage = "url"] ELSE walk
    /\ call' = [call EXCEPT ![o] = NoCall]
    /\ UNCHANGED <<table, chosen, tenants, session, staged, changes, connected, told, moved>>

\* The answer arrives: the walkthrough ends, whichever it is by now, and the owner
\* gets a tenant record, unless the database fails (that is swallowed).
SetupAnswered(o) ==
    /\ call[o].kind = "added"
    /\ walk' = [walk EXCEPT ![o] = NoWalk]
    /\ \/ tenants' = tenants \cup {o} /\ UNCHANGED mishaps
       \/ o \notin tenants /\ Mishap /\ UNCHANGED tenants
    /\ call' = [call EXCEPT ![o] =
                   [kind |-> "activate", site |-> call[o].site, prior |-> call[o].prior]]
    /\ UNCHANGED <<table, chosen, session, staged, changes, connected, told, moved>>

-----------------------------------------------------------------------------
(* Choosing a site *)

\* "switch to ...", at any time, also during a walkthrough or a confirmation: the
\* sites of the owner are listed and one matches.
SwitchSite(o, u) ==
    /\ Free(o) /\ Owns(o, u)
    /\ call' = [call EXCEPT ![o] = [kind |-> "activate", site |-> u, prior |-> session[o]]]
    /\ UNCHANGED <<table, walk, chosen, tenants, session, staged, changes, connected, told, moved, mishaps>>

\* POST /sites/{id}/active: refused when the site has changed hands since.
SetActive(o) ==
    /\ call[o].kind = "activate"
    /\ table' = IF Owns(o, call[o].site) THEN Marked(table, o, call[o].site) ELSE table
    /\ call' = [call EXCEPT ![o].kind = "chosen"]
    /\ UNCHANGED <<walk, chosen, tenants, session, staged, changes, connected, told, moved, mishaps>>

\* The call fails: set_active_site returns False, and nobody looks.
SetActiveLost(o) ==
    /\ call[o].kind = "activate" /\ Mishap
    /\ call' = [call EXCEPT ![o].kind = "chosen"]
    /\ UNCHANGED <<table, walk, chosen, tenants, session, staged, changes, connected, told, moved>>

\* handle_message keeps the site in memory and in the session it had read before.
SiteChosen(o) ==
    /\ call[o].kind = "chosen"
    /\ chosen' = [chosen EXCEPT ![o] = call[o].site]
    /\ LET before == call[o].prior
       IN  Remember(o, Session(IF before = NoSession THEN "IDLE" ELSE before.state, call[o].site))
    /\ told' = IF o \in tenants THEN [told EXCEPT ![o] = call[o].site] ELSE told
    /\ call' = [call EXCEPT ![o] = NoCall]
    /\ UNCHANGED <<table, walk, tenants, staged, changes, connected, moved, mishaps>>

-----------------------------------------------------------------------------
(* Asking for changes *)

\* The message is for the conversation: no walkthrough takes it, no call is out.
Conversing(o, states) == Free(o) /\ walk[o] = NoWalk /\ session[o].state \in states

\* _route injects the site of the session, and refreshes the one in memory.
Inject(o) ==
    chosen' = IF session[o].site = NoSite THEN chosen
              ELSE [chosen EXCEPT ![o] = session[o].site]

\* Mutant of AskClarification: the question forgets the site.
AskClarificationForgets(o) ==
    /\ Conversing(o, {"none", "IDLE", "CLARIFY"})
    /\ Remember(o, Session("CLARIFY", NoSite))
    /\ Inject(o)
    /\ UNCHANGED <<table, walk, tenants, staged, call, changes, connected, told, moved, mishaps>>

\* A vague request: the question keeps the site.
AskClarification(o) ==
    /\ Conversing(o, {"none", "IDLE", "CLARIFY"})
    /\ Remember(o, Session("CLARIFY", session[o].site))
    /\ Inject(o)
    /\ UNCHANGED <<table, walk, tenants, staged, call, changes, connected, told, moved, mishaps>>

\* A change that needs a YES is staged with the site of the session.
AskChange(o) ==
    /\ Conversing(o, {"none", "IDLE", "CLARIFY"})
    /\ Remember(o, Session("CONFIRM", session[o].site))
    /\ Inject(o)
    /\ staged' = [staged EXCEPT ![o] = Change(session[o].site, told[o])]
    /\ UNCHANGED <<table, walk, tenants, call, changes, connected, told, moved, mishaps>>

\* Staging fails: the session is cleared.
AskChangeLost(o) ==
    /\ Conversing(o, {"none", "IDLE", "CLARIFY"}) /\ Mishap
    /\ Forget(o) /\ Inject(o)
    /\ UNCHANGED <<table, walk, tenants, staged, call, changes, connected, moved>>

\* A voice note is echoed first.
EchoVoice(o) ==
    /\ Conversing(o, {"none", "IDLE"})
    /\ Remember(o, Session("ECHO", session[o].site))
    /\ UNCHANGED <<table, walk, chosen, tenants, staged, call, changes, connected, told, moved, mishaps>>

\* The echo is answered: the session is cleared and the request routed as if there
\* had been none.  site_id joins the intent only after it was sent.
VoiceChange(o) ==
    /\ Conversing(o, {"ECHO"})
    /\ session' = [session EXCEPT ![o] = Session("CONFIRM", NoSite)]
    /\ told' = [told EXCEPT ![o] = NoSite]
    /\ staged' = [staged EXCEPT ![o] = Change(NoSite, NoSite)]
    /\ UNCHANGED <<table, walk, chosen, tenants, call, changes, connected, moved, mishaps>>

-----------------------------------------------------------------------------
(* Deciding and writing *)

\* YES - or, as the code has it, a routine change sent as decision=yes - releases
\* what is staged, and Track B resolves its site.  When that fails, the change is
\* staged again and nothing else happens.
Decide(o) ==
    /\ Conversing(o, {"none", "IDLE", "CLARIFY", "CONFIRM"})
    /\ staged[o] # NoChange /\ Resolve(o, staged[o].site) # NoSite
    /\ IF session[o].state = "CONFIRM" THEN UNCHANGED chosen ELSE Inject(o)
    /\ staged' = [staged EXCEPT ![o] = NoChange]
    /\ call' = [call EXCEPT ![o] = [kind |-> "write", site |-> Resolve(o, staged[o].site),
                                    change |-> staged[o]]]
    /\ UNCHANGED <<table, walk, tenants, session, changes, connected, told, moved, mishaps>>

Row(kind, site, meant) == [kind |-> kind, site |-> site, meant |-> meant]

LogChange(o) ==
    /\ Len(changes[o]) < MaxRows
    /\ changes' = [changes EXCEPT ![o] = Append(@, Row("change", call[o].site, call[o].change.meant))]

Written(o) ==
    /\ call[o].kind = "write" /\ LogChange(o)
    /\ Forget(o)
    /\ call' = [call EXCEPT ![o] = NoCall]
    /\ UNCHANGED <<table, walk, chosen, tenants, staged, connected, moved, mishaps>>

\* Written, but the answer is lost: the session stays.
WrittenUnheard(o) ==
    /\ call[o].kind = "write" /\ Mishap /\ LogChange(o)
    /\ call' = [call EXCEPT ![o] = NoCall]
    /\ UNCHANGED <<table, walk, chosen, tenants, session, staged, connected, told, moved>>

\* WordPress refuses: Track B stages the change again.
WriteFails(o) ==
    /\ call[o].kind = "write" /\ Mishap
    /\ staged' = [staged EXCEPT ![o] = call[o].change]
    /\ call' = [call EXCEPT ![o] = NoCall]
    /\ UNCHANGED <<table, walk, chosen, tenants, session, changes, connected, told, moved>>

\* NO; the discard may be lost.
DeclineChange(o) ==
    /\ Conversing(o, {"CONFIRM"})
    /\ Forget(o)
    /\ \/ staged' = [staged EXCEPT ![o] = NoChange] /\ UNCHANGED mishaps
       \/ Mishap /\ UNCHANGED staged
    /\ UNCHANGED <<table, walk, chosen, tenants, call, changes, connected, moved>>

\* The row UNDO takes.  most_recent asks for rows whose after-state names the site,
\* no after-state ever does, and it falls back to the newest row of the owner.
MostRecent(o) == changes[o][Len(changes[o])]

\* UNDO names the site in memory, and the row is reversed there.
UndoChange(o) ==
    /\ Conversing(o, {"none", "IDLE", "CLARIFY"})
    /\ changes[o] # <<>> /\ Len(changes[o]) <= MaxRows
    /\ Resolve(o, chosen[o]) # NoSite
    /\ changes' = [changes EXCEPT ![o] =
           Append(@, Row(IF chosen[o] = NoSite THEN "undo" ELSE "scoped undo",
                         Resolve(o, chosen[o]), MostRecent(o).site))]
    /\ UNCHANGED <<table, walk, chosen, tenants, session, staged, call, connected, told, moved, mishaps>>

-----------------------------------------------------------------------------
\* Another owner connects a site, also one that is somebody's, and it becomes her
\* active one unless that call is lost: what this owner's steps can see of it.
\* Bound: a site changes hands once before it does so here.
ConnectElsewhere(b, u) ==
    /\ ~Owns(b, u) /\ u \notin moved
    /\ table' \in {WithSite(b, u), Marked(WithSite(b, u), b, u)}
    /\ HandOver(b, u)
    /\ UNCHANGED <<walk, chosen, tenants, session, staged, call, changes, connected, told, mishaps>>

SessionExpires(o) ==
    /\ session[o] # NoSession
    /\ Forget(o)
    /\ UNCHANGED <<table, walk, chosen, tenants, staged, call, changes, connected, moved, mishaps>>

StagedExpires(o) ==
    /\ staged[o] # NoChange
    /\ staged' = [staged EXCEPT ![o] = NoChange]
    /\ UNCHANGED <<table, walk, chosen, tenants, session, call, changes, connected, told, moved, mishaps>>

\* Both programs restart.  A write under way may have happened: WrittenUnheard
\* before the restart.
RestartServices ==
    /\ Mishap
    /\ walk' = [o \in Clients |-> NoWalk]
    /\ chosen' = [o \in Clients |-> NoSite]
    /\ call' = [o \in Clients |-> NoCall]
    /\ UNCHANGED <<table, tenants, session, staged, changes, connected, told, moved>>

SitesNext ==
    \/ \E o \in Clients :
           \/ StartSetup(o) \/ GiveUsername(o) \/ CancelSetup(o) \/ GivePassword(o)
           \/ SetupRejected(o) \/ SetupAccepted(o) \/ SetupLost(o) \/ SetupAnswered(o)
           \/ SetActive(o) \/ SetActiveLost(o) \/ SiteChosen(o)
           \/ AskClarification(o) \/ AskChange(o) \/ AskChangeLost(o)
           \/ EchoVoice(o) \/ VoiceChange(o) \/ Decide(o)
           \/ Written(o) \/ WrittenUnheard(o) \/ WriteFails(o) \/ DeclineChange(o)
           \/ UndoChange(o) \/ SessionExpires(o) \/ StagedExpires(o)
           \/ \E u \in Urls : GiveUrl(o, u) \/ SwitchSite(o, u)
    \/ \E b \in Others, u \in Contested : ConnectElsewhere(b, u)
    \/ RestartServices

SitesSpec == SitesInit /\ [][SitesNext]_siteVars

-----------------------------------------------------------------------------
\* Whatever site a session, the memory or a staged change still names after sites
\* changed hands, services restarted and calls were lost: a change and an undo of
\* an owner only ever land on a site she proved her access to (main.py
\* _apply_with_services and undo_endpoint, onboarding.py onboard_site).
OnlyConnectedSites ==
    \A o \in Clients : \A i \in DOMAIN changes[o] : changes[o][i].site \in connected[o]

\* Re-entering the walkthrough at whatever was wrong never makes it submit without
\* a URL or a username (the `or ""` of _submit is never taken).
SubmittedComplete ==
    \A o \in Clients : call[o].kind = "onboard" => call[o].site # NoSite /\ call[o].named

\* At most one site of an owner is marked active, leaving aside those that came to
\* her with the mark of their previous owner (set_active_site, add_site).
OneMarkedSite ==
    \A o \in Clients : \A i, j \in RowsOf(o) :
        table[i].active /\ table[j].active /\ {table[i].url, table[j].url} \cap moved = {} => i = j

\* A typed change lands on the site the owner was last told her messages go to, or
\* nowhere: through clarifications, failures, staging again, switches while it waits
\* for its YES and restarts.  The promise ends with the session - with the next
\* success, NO, voice note or expiry - and an owner without a tenant record never
\* has one (routing.py _route, _apply_with_services).
ToldSiteWritten ==
    \A o \in Clients : \A i \in DOMAIN changes[o] :
        changes[o][i].kind = "change" => changes[o][i].meant \in {NoSite, changes[o][i].site}

\* "When *site_id* is given, the undo is scoped to that site so only changes for the
\* active site are considered" (trackb.py undo).
UndoStaysOnSite ==
    \A o \in Clients : \A i \in DOMAIN changes[o] :
        changes[o][i].kind = "scoped undo" => changes[o][i].meant = changes[o][i].site
=============================================================================
