----------------------------- MODULE SitesProofs -----------------------------
(***************************************************************************)
(* Proofs about Sites for every set of owners and URLs: an owner's changes *)
(* and undos only land on sites she proved her access to, the walkthrough  *)
(* never submits an incomplete form, one site of an owner is marked, a     *)
(* change goes where she was told, and all of it keeps its types.          *)
(*                                                                         *)
(* The invariant has three parts: of the table (each URL has one row, and  *)
(* its owner has proved her access), of the walkthrough and the call an    *)
(* owner waits for (what a form at its stage must hold), and of the change *)
(* log.  A write takes its site from the table, the log from the write.    *)
(***************************************************************************)
EXTENDS Sites, WellFoundedInduction, TLAPS

SiteRows == [url : Urls, owner : Clients \cup Others, active : BOOLEAN]

\* The table in order: known are the sites an owner proved her access to, away those
\* that changed hands.
Orderly(t, known, away) ==
    /\ t \in Seq(SiteRows)
    /\ \A i, j \in DOMAIN t : t[i].url = t[j].url => i = j
    /\ \A i \in DOMAIN t, o \in Clients : t[i].owner = o => t[i].url \in known[o]
    /\ \A i, j \in DOMAIN t :
           /\ t[i].owner \in Clients /\ t[i].owner = t[j].owner
           /\ t[i].active /\ t[j].active /\ t[i].url \notin away /\ t[j].url \notin away
           => i = j

TableOK == Orderly(table, connected, moved)

Walks == [stage : {"url", "username", "app_password"}, site_url : Urls \cup {NoSite},
          username : BOOLEAN]

FormOK(w) ==
    /\ w \in Walks
    /\ w.stage # "url" => w.site_url \in Urls
    /\ w.stage = "app_password" => w.username

Setup(c) == \E S : c \in [kind : {"onboard", "added"}, site : Urls \cup {NoSite},
                          named : BOOLEAN, prior : S, current : BOOLEAN]
Activation(c) == \E S, T : c \in [kind : {"activate", "chosen"}, site : S, prior : T]
Write(c) == \E S, T : c \in [kind : {"write"}, site : S, change : T]

CallOK(o) ==
    \/ call[o] = NoCall
    \/ Activation(call[o])
    \/ /\ Setup(call[o])
       /\ call[o].site \in Urls /\ call[o].named
       /\ call[o].current => FormOK(walk[o]) /\ walk[o].stage = "app_password"
    \/ Write(call[o]) /\ call[o].site \in connected[o]

CallsOK ==
    /\ DOMAIN walk = Clients /\ DOMAIN call = Clients
    /\ \A o \in Clients : (walk[o] = NoWalk \/ FormOK(walk[o])) /\ CallOK(o)

ChangesOK ==
    /\ DOMAIN changes = Clients
    /\ \A o \in Clients : \E S : changes[o] \in Seq(S)
    /\ OnlyConnectedSites

\* What a call is shows in its kind.
LEMMA CallKinds ==
    /\ NoCall.kind = "none"
    /\ \A c : Activation(c) => c.kind \in {"activate", "chosen"}
    /\ \A c : Setup(c) => c.kind \in {"onboard", "added"}
    /\ \A c : Write(c) => c.kind = "write"
<1>1. \A c : Activation(c) => c.kind \in {"activate", "chosen"}
  BY DEF Activation
<1>2. \A c : Setup(c) => c.kind \in {"onboard", "added"}
  BY DEF Setup
<1>3. \A c : Write(c) => c.kind = "write"
  BY DEF Write
<1> QED
  BY <1>1, <1>2, <1>3 DEF NoCall

-----------------------------------------------------------------------------
(* The table *)

\* add_site: each row keeps its URL and its marker, a new one has no marker.
LEMMA WithSiteRows ==
    ASSUME table \in Seq(SiteRows), NEW o \in Clients \cup Others, NEW u \in Urls
    PROVE  /\ WithSite(o, u) \in Seq(SiteRows)
           /\ \A i \in DOMAIN WithSite(o, u) :
                  \/ /\ i \in DOMAIN table
                     /\ WithSite(o, u)[i].url = table[i].url
                     /\ WithSite(o, u)[i].active = table[i].active
                     /\ WithSite(o, u)[i].owner = IF table[i].url = u THEN o ELSE table[i].owner
                  \/ /\ i = Len(table) + 1 /\ RowOf(u) = {}
                     /\ WithSite(o, u)[i] = [url |-> u, owner |-> o, active |-> FALSE]
<1>1. CASE RowOf(u) = {}
  <2> DEFINE row == [url |-> u, owner |-> o, active |-> FALSE]
  <2>1. row \in SiteRows
    BY DEF SiteRows
  <2>2. WithSite(o, u) = Append(table, row)
    BY <1>1 DEF WithSite
  <2>3. \A i \in DOMAIN table : table[i].url # u
    BY <1>1 DEF RowOf
  <2> HIDE DEF row
  <2>4. /\ Append(table, row) \in Seq(SiteRows)
        /\ \A i \in DOMAIN Append(table, row) :
               \/ i \in DOMAIN table /\ Append(table, row)[i] = table[i]
               \/ i = Len(table) + 1 /\ Append(table, row)[i] = row
    BY <2>1
  <2> QED
    BY <1>1, <2>2, <2>3, <2>4 DEF row
<1>2. CASE RowOf(u) # {}
  <2> DEFINE t == [i \in DOMAIN table |->
                      IF i \in RowOf(u) THEN [table[i] EXCEPT !.owner = o] ELSE table[i]]
  <2>1. WithSite(o, u) = t
    BY <1>2 DEF WithSite
  <2>2. \A i \in DOMAIN table :
            /\ t[i] \in SiteRows /\ t[i].url = table[i].url /\ t[i].active = table[i].active
            /\ t[i].owner = IF table[i].url = u THEN o ELSE table[i].owner
    <3> SUFFICES ASSUME NEW i \in DOMAIN table
                 PROVE  /\ t[i] \in SiteRows /\ t[i].url = table[i].url /\ t[i].active = table[i].active
                        /\ t[i].owner = IF table[i].url = u THEN o ELSE table[i].owner
      OBVIOUS
    <3>1. table[i] \in SiteRows
      OBVIOUS
    <3>2. [table[i] EXCEPT !.owner = o] \in SiteRows
      BY <3>1 DEF SiteRows
    <3> QED
      BY <3>1, <3>2 DEF RowOf, SiteRows
  <2>3. t \in Seq(SiteRows) /\ DOMAIN t = DOMAIN table
    <3>1. DOMAIN table = 1..Len(table) /\ Len(table) \in Nat
      OBVIOUS
    <3> QED
      BY <2>2, <3>1
  <2> QED
    BY <2>1, <2>2, <2>3
<1> QED
  BY <1>1, <1>2

\* set_active_site: only markers change.
LEMMA MarkedRows ==
    ASSUME NEW t \in Seq(SiteRows), NEW o, NEW u
    PROVE  /\ Marked(t, o, u) \in Seq(SiteRows) /\ DOMAIN Marked(t, o, u) = DOMAIN t
           /\ \A i \in DOMAIN t :
                  /\ Marked(t, o, u)[i].url = t[i].url /\ Marked(t, o, u)[i].owner = t[i].owner
                  /\ Marked(t, o, u)[i].active /\ t[i].url # u => t[i].owner # o /\ t[i].active
<1> DEFINE new == Marked(t, o, u)
<1>1. DOMAIN t = 1..Len(t) /\ Len(t) \in Nat
  OBVIOUS
<1>2. new = [i \in 1..Len(t) |-> new[i]]
  BY <1>1 DEF Marked
<1>3. ASSUME NEW i \in DOMAIN t
      PROVE  /\ new[i] \in SiteRows /\ new[i].url = t[i].url /\ new[i].owner = t[i].owner
             /\ new[i].active /\ t[i].url # u => t[i].owner # o /\ t[i].active
  <2>1. t[i] \in SiteRows
    OBVIOUS
  <2>2. /\ [t[i] EXCEPT !.active = TRUE] \in SiteRows
        /\ [t[i] EXCEPT !.active = FALSE] \in SiteRows
    BY <2>1 DEF SiteRows
  <2> QED
    BY <2>1, <2>2 DEF Marked, SiteRows
<1> HIDE DEF new
<1>4. new \in Seq(SiteRows) /\ DOMAIN new = DOMAIN t
  <2>1. new \in [1..Len(t) -> SiteRows]
    BY <1>1, <1>2, <1>3
  <2> QED
    BY <1>1, <2>1
<1> QED
  BY <1>3, <1>4 DEF new

\* A site Track B resolves for an owner is one of hers.
LEMMA ResolvedIsHers ==
    ASSUME table \in Seq(SiteRows), NEW o, NEW u, Resolve(o, u) # NoSite
    PROVE  \E i \in DOMAIN table : table[i].owner = o /\ table[i].url = Resolve(o, u)
<1>1. CASE u # NoSite
  BY <1>1 DEF Resolve, Owns, RowOf
<1>2. CASE u = NoSite
  <2>1. RowsOf(o) # {} /\ RowsOf(o) \in SUBSET Nat
    BY <1>2 DEF Resolve, FirstSite, RowsOf
  <2>2. \E i \in RowsOf(o) : \A j \in RowsOf(o) : i <= j
    <3> DEFINE less == OpToRel(<, Nat)
    <3>1. IsWellFoundedOn(less, Nat)
      BY NatLessThanWellFounded, Zenon
    <3>2. \A j, i \in Nat : j < i => <<j, i>> \in less
      BY DEF OpToRel
    <3> HIDE DEF less
    <3>3. PICK i \in RowsOf(o) : \A j \in RowsOf(o) : <<j, i>> \notin less
      BY <2>1, <3>1, WFMin
    <3>4. \A j \in RowsOf(o) : i \in Nat /\ j \in Nat /\ ~(j < i)
      BY <2>1, <3>2, <3>3
    <3> QED
      BY <3>4
  <2>3. PICK i \in RowsOf(o) : FirstSite(o) = table[i].url
    BY <2>1, <2>2 DEF FirstSite
  <2> QED
    BY <1>2, <2>3 DEF Resolve, RowsOf
<1> QED
  BY <1>1, <1>2

-----------------------------------------------------------------------------
\* add_site keeps the table in order: a site that changes hands is noted in moved.
LEMMA WithSiteKept ==
    ASSUME TableOK, NEW o \in Clients \cup Others, NEW u \in Urls, HandOver(o, u),
           \A c \in Clients : connected[c] \subseteq connected'[c],
           o \in Clients => u \in connected'[o]
    PROVE  Orderly(WithSite(o, u), connected', moved')
<1> DEFINE t == WithSite(o, u)
<1>1. table \in Seq(SiteRows)
  BY DEF TableOK, Orderly
<1>2. /\ t \in Seq(SiteRows)
      /\ \A i \in DOMAIN t :
             \/ /\ i \in DOMAIN table
                /\ t[i].url = table[i].url
                /\ t[i].active = table[i].active
                /\ t[i].owner = IF table[i].url = u THEN o ELSE table[i].owner
             \/ /\ i = Len(table) + 1 /\ RowOf(u) = {}
                /\ t[i] = [url |-> u, owner |-> o, active |-> FALSE]
  BY <1>1, WithSiteRows
<1> HIDE DEF t
<1>3. \A i \in DOMAIN table : RowOf(u) = {} => table[i].url # u
  BY DEF RowOf
<1>4. \A i, j \in DOMAIN t : t[i].url = t[j].url => i = j
  BY <1>2, <1>3 DEF TableOK, Orderly
<1>5. \A i \in DOMAIN t, c \in Clients : t[i].owner = c => t[i].url \in connected'[c]
  BY <1>2 DEF TableOK, Orderly
<1>6. ASSUME NEW i \in DOMAIN t, t[i].active, t[i].url \notin moved'
      PROVE  /\ i \in DOMAIN table /\ table[i].active /\ t[i].url = table[i].url
             /\ t[i].owner = table[i].owner
  <2>1. /\ i \in DOMAIN table /\ table[i].active /\ t[i].url = table[i].url
        /\ t[i].owner = IF table[i].url = u THEN o ELSE table[i].owner
    BY <1>2, <1>6
  <2>2. table[i].url = u => table[i].owner = o
    <3>1. SUFFICES ASSUME table[i].url = u PROVE Owns(o, u) /\ \A j \in RowOf(u) : j = i
      BY <2>1 DEF Owns
    <3>2. i \in RowOf(u) /\ u \notin moved'
      BY <1>6, <2>1, <3>1 DEF RowOf
    <3>3. \A j \in RowOf(u) : j = i
      BY <2>1, <3>1 DEF RowOf, TableOK, Orderly
    <3> QED
      BY <3>2, <3>3 DEF HandOver
  <2> QED
    BY <2>1, <2>2
<1>7. moved \subseteq moved'
  BY DEF HandOver
<1>8. \A i, j \in DOMAIN t :
          /\ t[i].owner \in Clients /\ t[i].owner = t[j].owner
          /\ t[i].active /\ t[j].active /\ t[i].url \notin moved' /\ t[j].url \notin moved'
          => i = j
  BY <1>6, <1>7 DEF TableOK, Orderly
<1> QED
  BY <1>2, <1>4, <1>5, <1>8 DEF Orderly, t

\* set_active_site marks one site of its owner, and clears no other owner's.
LEMMA MarkedKept ==
    ASSUME NEW t, NEW known, NEW away, Orderly(t, known, away),
           NEW o, NEW u, NEW k \in DOMAIN t, t[k].url = u, t[k].owner = o
    PROVE  Orderly(Marked(t, o, u), known, away)
<1> DEFINE new == Marked(t, o, u)
<1>1. t \in Seq(SiteRows)
  BY DEF Orderly
<1>2. /\ new \in Seq(SiteRows) /\ DOMAIN new = DOMAIN t
      /\ \A i \in DOMAIN t :
             /\ new[i].url = t[i].url /\ new[i].owner = t[i].owner
             /\ new[i].active /\ t[i].url # u => t[i].owner # o /\ t[i].active
  BY <1>1, MarkedRows
<1> HIDE DEF new
<1>3. ASSUME NEW i \in DOMAIN t, NEW j \in DOMAIN t,
             t[i].owner \in Clients, t[i].owner = t[j].owner,
             new[i].active, new[j].active, t[i].url \notin away, t[j].url \notin away
      PROVE  i = j
  <2>1. CASE t[i].owner = o
    BY <1>2, <1>3, <2>1 DEF Orderly
  <2>2. CASE t[i].owner # o
    <3>1. t[i].url # u /\ t[j].url # u
      BY <1>3, <2>2 DEF Orderly
    <3>2. t[i].active /\ t[j].active
      BY <1>2, <1>3, <3>1
    <3> QED
      BY <1>3, <3>2 DEF Orderly
  <2> QED
    BY <2>1, <2>2
<1> QED
  BY <1>2, <1>3 DEF Orderly, new

LEMMA HersInTheEnd ==
    ASSUME table \in Seq(SiteRows), NEW o \in Clients \cup Others, NEW u \in Urls
    PROVE  \E k \in DOMAIN WithSite(o, u) : WithSite(o, u)[k].url = u /\ WithSite(o, u)[k].owner = o
<1>1. CASE RowOf(u) = {}
  <2> DEFINE row == [url |-> u, owner |-> o, active |-> FALSE]
  <2>1. WithSite(o, u) = Append(table, row)
    BY <1>1 DEF WithSite
  <2>2. Len(table) + 1 \in DOMAIN Append(table, row) /\ Append(table, row)[Len(table) + 1] = row
    OBVIOUS
  <2> QED
    BY <2>1, <2>2
<1>2. CASE RowOf(u) # {}
  <2>1. PICK k \in DOMAIN table : table[k].url = u
    BY <1>2 DEF RowOf
  <2>2. table[k] \in SiteRows
    OBVIOUS
  <2>3. [table[k] EXCEPT !.owner = o].url = u /\ [table[k] EXCEPT !.owner = o].owner = o
    BY <2>1, <2>2 DEF SiteRows
  <2> QED
    BY <1>2, <2>1, <2>3 DEF WithSite, RowOf
<1> QED
  BY <1>1, <1>2

\* Every step keeps the table in order.
LEMMA TableKept ==
    ASSUME TableOK, CallsOK, DOMAIN connected = Clients, [SitesNext]_siteVars
    PROVE  TableOK' /\ (DOMAIN connected = Clients)' /\ \A c \in Clients : connected[c] \subseteq connected'[c]
<1>1. ASSUME UNCHANGED <<connected, moved>>, UNCHANGED table
      PROVE  TableOK' /\ (DOMAIN connected = Clients)' /\ \A c \in Clients : connected[c] \subseteq connected'[c]
  BY <1>1 DEF TableOK
<1>2. ASSUME NEW o \in Clients, SetupAccepted(o)
      PROVE  TableOK' /\ (DOMAIN connected = Clients)' /\ \A c \in Clients : connected[c] \subseteq connected'[c]
  <2>1. call[o].site \in Urls
    <3>1. call[o].kind = "onboard" /\ CallOK(o)
      BY <1>2 DEF SetupAccepted, CallsOK
    <3> QED
      BY <3>1, CallKinds DEF CallOK
  <2>2. /\ table' = WithSite(o, call[o].site) /\ HandOver(o, call[o].site)
        /\ connected' = [connected EXCEPT ![o] = @ \cup {call[o].site}]
    BY <1>2 DEF SetupAccepted
  <2>3. /\ DOMAIN connected' = Clients
        /\ \A c \in Clients : connected[c] \subseteq connected'[c]
        /\ call[o].site \in connected'[o]
    BY <2>2
  <2> QED
    BY <2>1, <2>2, <2>3, WithSiteKept DEF TableOK
<1>3. ASSUME NEW o \in Clients, SetActive(o)
      PROVE  TableOK' /\ (DOMAIN connected = Clients)' /\ \A c \in Clients : connected[c] \subseteq connected'[c]
  <2>1. UNCHANGED <<connected, moved>>
    BY <1>3 DEF SetActive
  <2>2. CASE ~Owns(o, call[o].site)
    BY <1>1, <1>3, <2>1, <2>2 DEF SetActive
  <2>3. CASE Owns(o, call[o].site)
    <3>1. table' = Marked(table, o, call[o].site)
      BY <1>3, <2>3 DEF SetActive
    <3>2. PICK k \in DOMAIN table : table[k].url = call[o].site /\ table[k].owner = o
      BY <2>3 DEF Owns, RowOf
    <3>3. Orderly(table', connected, moved)
      BY <3>1, <3>2, MarkedKept DEF TableOK
    <3> QED
      BY <2>1, <3>3 DEF TableOK
  <2> QED
    BY <2>2, <2>3
<1>4. ASSUME NEW b \in Others, NEW u \in Contested, ConnectElsewhere(b, u)
      PROVE  TableOK' /\ (DOMAIN connected = Clients)' /\ \A c \in Clients : connected[c] \subseteq connected'[c]
  <2>1. UNCHANGED connected /\ HandOver(b, u) /\ table' \in {WithSite(b, u), Marked(WithSite(b, u), b, u)}
    BY <1>4 DEF ConnectElsewhere
  <2>2. u \in Urls /\ b \notin Clients
    BY SiteAssumption
  <2>3. Orderly(WithSite(b, u), connected', moved')
    BY <2>1, <2>2, WithSiteKept
  <2>4. table \in Seq(SiteRows)
    BY DEF TableOK, Orderly
  <2>5. PICK k \in DOMAIN WithSite(b, u) : WithSite(b, u)[k].url = u /\ WithSite(b, u)[k].owner = b
    BY <2>2, <2>4, HersInTheEnd
  <2>6. Orderly(Marked(WithSite(b, u), b, u), connected', moved')
    BY <2>3, <2>5, MarkedKept
  <2> QED
    BY <2>1, <2>3, <2>6 DEF TableOK
<1>5. ASSUME ~\E o \in Clients : SetupAccepted(o) \/ SetActive(o),
             ~\E b \in Others, u \in Contested : ConnectElsewhere(b, u)
      PROVE  UNCHANGED <<table, connected, moved>>
  BY <1>5 DEF SitesNext, siteVars, StartSetup, GiveUrl, GiveUsername, CancelSetup, GivePassword,
     SetupRejected, SetupLost, SetupAnswered, SwitchSite, SetActiveLost, SiteChosen,
     AskClarification, AskChange, AskChangeLost, EchoVoice, VoiceChange, Decide, Written,
     WrittenUnheard, WriteFails, DeclineChange, UndoChange, SessionExpires, StagedExpires,
     RestartServices, Walk
<1> QED
  BY <1>1, <1>2, <1>3, <1>4, <1>5

-----------------------------------------------------------------------------
(* The walkthrough and the calls *)

LEMMA NoWalkIsNoForm == ~FormOK(NoWalk)
BY DEF NoWalk, FormOK, Walks

\* It is enough to look at the owner who moves.
LEMMA OneOwnerMoves ==
    ASSUME CallsOK, NEW o \in Clients,
           \A c \in Clients : connected[c] \subseteq connected'[c],
           UNCHANGED walk \/ \E w : walk' = [walk EXCEPT ![o] = w],
           UNCHANGED call \/ \E c : call' = [call EXCEPT ![o] = c],
           walk'[o] = NoWalk \/ FormOK(walk'[o]), CallOK(o)'
    PROVE  CallsOK'
<1>1. /\ DOMAIN walk' = Clients /\ DOMAIN call' = Clients
      /\ \A p \in Clients \ {o} : walk'[p] = walk[p] /\ call'[p] = call[p]
  BY DEF CallsOK
<1>2. ASSUME NEW p \in Clients \ {o} PROVE (walk'[p] = NoWalk \/ FormOK(walk'[p])) /\ CallOK(p)'
  BY <1>1, <1>2 DEF CallsOK, CallOK
<1> QED
  BY <1>1, <1>2 DEF CallsOK

\* The call goes on while the owner writes, if her form is none that was submitted.
LEMMA CallGoesOn ==
    ASSUME NEW o \in Clients, CallOK(o), call'[o] = call[o], connected[o] \subseteq connected'[o],
           walk'[o] = walk[o] \/ ~FormOK(walk[o]) \/ walk[o].stage # "app_password"
    PROVE  CallOK(o)'
BY DEF CallOK

\* An owner's form, step by step.
LEMMA FormKept ==
    ASSUME CallsOK, NEW o \in Clients, UNCHANGED connected,
           \/ StartSetup(o) \/ GiveUsername(o) \/ CancelSetup(o) \/ \E u \in Urls : GiveUrl(o, u)
    PROVE  CallsOK'
<1>0. /\ o \in DOMAIN walk /\ o \in DOMAIN call /\ CallOK(o)
      /\ walk[o] = NoWalk \/ FormOK(walk[o])
  BY DEF CallsOK
<1>1. CASE StartSetup(o)
  <2> DEFINE w == [stage |-> "url", site_url |-> NoSite, username |-> FALSE]
  <2>1. FormOK(w)
    BY DEF FormOK, Walks
  <2>2. walk' = [walk EXCEPT ![o] = w] /\ UNCHANGED call /\ walk[o] = NoWalk
    BY <1>1 DEF StartSetup, Walk
  <2>3. CallOK(o)'
    BY <1>0, <2>2, NoWalkIsNoForm, CallGoesOn
  <2> QED
    BY <1>0, <2>1, <2>2, <2>3, OneOwnerMoves
<1>2. ASSUME NEW u \in Urls, GiveUrl(o, u) PROVE CallsOK'
  <2> DEFINE w == [walk[o] EXCEPT !.site_url = u, !.stage = "username"]
  <2>1. FormOK(walk[o]) /\ walk[o].stage = "url"
    BY <1>0, <1>2 DEF GiveUrl
  <2>2. FormOK(w)
    BY <2>1 DEF FormOK, Walks
  <2>3. walk' = [walk EXCEPT ![o] = w] /\ UNCHANGED call
    BY <1>2 DEF GiveUrl, Walk
  <2>4. CallOK(o)'
    BY <1>0, <2>1, <2>3, CallGoesOn
  <2> QED
    BY <1>0, <2>2, <2>3, <2>4, OneOwnerMoves
<1>3. CASE GiveUsername(o)
  <2> DEFINE w == [walk[o] EXCEPT !.username = TRUE, !.stage = "app_password"]
  <2>1. FormOK(walk[o]) /\ walk[o].stage = "username"
    BY <1>0, <1>3 DEF GiveUsername
  <2>2. FormOK(w)
    BY <2>1 DEF FormOK, Walks
  <2>3. walk' = [walk EXCEPT ![o] = w] /\ UNCHANGED call
    BY <1>3 DEF GiveUsername, Walk
  <2>4. CallOK(o)'
    BY <1>0, <2>1, <2>3, CallGoesOn
  <2> QED
    BY <1>0, <2>2, <2>3, <2>4, OneOwnerMoves
<1>4. CASE CancelSetup(o)
  <2>1. walk' = [walk EXCEPT ![o] = NoWalk] /\ walk'[o] = NoWalk
    BY <1>0, <1>4 DEF CancelSetup, Walk
  <2>2. CASE call[o].kind \notin {"onboard", "added"}
    <3>1. UNCHANGED call /\ ~Setup(call[o])
      BY <1>4, <2>2, CallKinds DEF CancelSetup
    <3>2. CallOK(o)'
      BY <1>0, <3>1 DEF CallOK
    <3> QED
      BY <1>0, <2>1, <3>1, <3>2, OneOwnerMoves
  <2>3. CASE call[o].kind \in {"onboard", "added"}
    <3>1. Setup(call[o]) /\ call[o].site \in Urls /\ call[o].named
      BY <1>0, <2>3, CallKinds DEF CallOK
    <3> DEFINE c == [call[o] EXCEPT !.current = FALSE]
    <3>4. call' = [call EXCEPT ![o] = c] /\ call'[o] = c
      BY <1>0, <1>4, <2>3 DEF CancelSetup
    <3>5. Setup(c) /\ c.site \in Urls /\ c.named /\ ~c.current
      BY <3>1 DEF Setup
    <3>6. CallOK(o)'
      BY <3>4, <3>5 DEF CallOK
    <3> QED
      BY <2>1, <3>4, <3>6, OneOwnerMoves
  <2> QED
    BY <2>2, <2>3
<1> QED
  BY <1>1, <1>2, <1>3, <1>4

\* The form is submitted, and Track B answers or does not.
LEMMA SubmissionKept ==
    ASSUME CallsOK, NEW o \in Clients,
           \A c \in Clients : connected[c] \subseteq connected'[c],
           \/ GivePassword(o) \/ SetupRejected(o) \/ SetupAccepted(o)
           \/ SetupLost(o) \/ SetupAnswered(o)
    PROVE  CallsOK'
<1>0. /\ o \in DOMAIN walk /\ o \in DOMAIN call /\ CallOK(o)
      /\ walk[o] = NoWalk \/ FormOK(walk[o])
  BY DEF CallsOK
<1>1. CASE GivePassword(o)
  <2> DEFINE c == [kind |-> "onboard", site |-> walk[o].site_url, named |-> walk[o].username,
                   prior |-> session[o], current |-> TRUE]
  <2>1. FormOK(walk[o]) /\ walk[o].stage = "app_password"
    BY <1>0, <1>1 DEF GivePassword
  <2>2. call' = [call EXCEPT ![o] = c] /\ UNCHANGED walk
    BY <1>1 DEF GivePassword
  <2>3. Setup(c) /\ c.site \in Urls /\ c.named
    BY <2>1 DEF Setup, FormOK
  <2>4. CallOK(o)' /\ FormOK(walk'[o])
    BY <1>0, <2>1, <2>2, <2>3 DEF CallOK
  <2> QED
    BY <2>2, <2>4, OneOwnerMoves
<1>2. CASE SetupRejected(o) \/ SetupLost(o)
  <2>1. call' = [call EXCEPT ![o] = NoCall] /\ call'[o] = NoCall
    BY <1>0, <1>2 DEF SetupRejected, SetupLost
  <2>2. Setup(call[o]) /\ (call[o].current => FormOK(walk[o]) /\ walk[o].stage = "app_password")
    <3>1. call[o].kind \in {"onboard", "added"}
      BY <1>2 DEF SetupRejected, SetupLost
    <3> QED
      BY <1>0, <3>1, CallKinds DEF CallOK
  <2>3. \/ UNCHANGED walk
        \/ \E w : walk' = [walk EXCEPT ![o] = w] /\ (w = NoWalk \/ FormOK(w))
    <3>1. ASSUME call[o].current, NEW w \in Corrections(walk[o]) \cup {[walk[o] EXCEPT !.stage = "url"]}
          PROVE  FormOK(w)
      BY <2>2, <3>1 DEF Corrections, FormOK, Walks
    <3>2. CASE SetupRejected(o)
      <4>1. \/ walk' = [walk EXCEPT ![o] = walk[o]]
            \/ call[o].current /\ \E w \in Corrections(walk[o]) : walk' = [walk EXCEPT ![o] = w]
        BY <3>2 DEF SetupRejected, Walk
      <4> QED
        BY <1>0, <3>1, <4>1
    <3>3. CASE SetupLost(o)
      <4>1. \/ UNCHANGED walk
            \/ call[o].current /\ walk' = [walk EXCEPT ![o] = [walk[o] EXCEPT !.stage = "url"]]
        BY <3>3 DEF SetupLost
      <4> QED
        BY <3>1, <4>1
    <3> QED
      BY <1>2, <3>2, <3>3
  <2>4. walk'[o] = NoWalk \/ FormOK(walk'[o])
    BY <1>0, <2>3
  <2> QED
    BY <2>1, <2>3, <2>4, OneOwnerMoves DEF CallOK
<1>3. CASE SetupAccepted(o)
  <2>1. Setup(call[o]) /\ call[o].site \in Urls /\ call[o].named
        /\ (call[o].current => FormOK(walk[o]) /\ walk[o].stage = "app_password")
    <3>1. call[o].kind = "onboard"
      BY <1>3 DEF SetupAccepted
    <3> QED
      BY <1>0, <3>1, CallKinds DEF CallOK
  <2> DEFINE c == [call[o] EXCEPT !.kind = "added"]
  <2>2. call' = [call EXCEPT ![o] = c] /\ call'[o] = c /\ UNCHANGED walk
    BY <1>0, <1>3 DEF SetupAccepted
  <2>3. Setup(c) /\ c.site = call[o].site /\ c.named = call[o].named /\ c.current = call[o].current
    BY <2>1 DEF Setup
  <2>4. CallOK(o)'
    BY <2>1, <2>2, <2>3 DEF CallOK
  <2> QED
    BY <1>0, <2>2, <2>4, OneOwnerMoves
<1>4. CASE SetupAnswered(o)
  <2> DEFINE c == [kind |-> "activate", site |-> call[o].site, prior |-> call[o].prior]
  <2>1. /\ walk' = [walk EXCEPT ![o] = NoWalk] /\ walk'[o] = NoWalk
        /\ call' = [call EXCEPT ![o] = c] /\ call'[o] = c
    BY <1>0, <1>4 DEF SetupAnswered
  <2>2. Activation(c)
    BY DEF Activation
  <2> QED
    BY <2>1, <2>2, OneOwnerMoves DEF CallOK
<1> QED
  BY <1>1, <1>2, <1>3, <1>4

\* Choosing a site, writing to one, and what needs no call.
LEMMA OtherCallsKept ==
    ASSUME CallsOK, TableOK, NEW o \in Clients, UNCHANGED connected,
           \/ \E u \in Urls : SwitchSite(o, u)
           \/ SetActive(o) \/ SetActiveLost(o) \/ SiteChosen(o) \/ Decide(o)
           \/ Written(o) \/ WrittenUnheard(o) \/ WriteFails(o)
    PROVE  CallsOK'
<1>0. /\ o \in DOMAIN call /\ CallOK(o)
      /\ walk[o] = NoWalk \/ FormOK(walk[o])
  BY DEF CallsOK
<1>1. UNCHANGED walk
  BY DEF SwitchSite, SetActive, SetActiveLost, SiteChosen, Decide, Written, WrittenUnheard, WriteFails
<1>2. ASSUME NEW c, call' = [call EXCEPT ![o] = c],
             \/ c = NoCall \/ Activation(c)
             \/ Write(c) /\ c.site \in connected[o]
      PROVE  CallsOK'
  <2>1. call'[o] = c
    BY <1>0, <1>2
  <2>2. CallOK(o)'
    BY <1>2, <2>1 DEF CallOK
  <2> QED
    BY <1>0, <1>1, <1>2, <2>2, OneOwnerMoves
<1>3. ASSUME NEW u \in Urls, SwitchSite(o, u) PROVE CallsOK'
  <2> DEFINE c == [kind |-> "activate", site |-> u, prior |-> session[o]]
  <2>1. call' = [call EXCEPT ![o] = c] /\ Activation(c)
    BY <1>3 DEF SwitchSite, Activation
  <2> QED
    BY <1>2, <2>1
<1>4. CASE SetActive(o) \/ SetActiveLost(o)
  <2> DEFINE c == [call[o] EXCEPT !.kind = "chosen"]
  <2>1. call[o].kind = "activate" /\ call' = [call EXCEPT ![o] = c]
    BY <1>4 DEF SetActive, SetActiveLost
  <2>2. Activation(call[o])
    BY <1>0, <2>1, CallKinds DEF CallOK
  <2>3. Activation(c)
    BY <2>2 DEF Activation
  <2> QED
    BY <1>2, <2>1, <2>3
<1>5. CASE Decide(o)
  <2> DEFINE u == Resolve(o, staged[o].site)
             c == [kind |-> "write", site |-> u, change |-> staged[o]]
  <2>1. u # NoSite /\ call' = [call EXCEPT ![o] = c]
    BY <1>5 DEF Decide
  <2>2. u \in connected[o]
    BY <2>1, ResolvedIsHers DEF TableOK, Orderly
  <2>3. Write(c) /\ c.site = u
    BY DEF Write
  <2> QED
    BY <1>2, <2>1, <2>2, <2>3
<1>6. CASE SiteChosen(o) \/ Written(o) \/ WrittenUnheard(o) \/ WriteFails(o)
  <2>1. call' = [call EXCEPT ![o] = NoCall]
    BY <1>6 DEF SiteChosen, Written, WrittenUnheard, WriteFails
  <2> QED
    BY <1>2, <2>1
<1> QED
  BY <1>3, <1>4, <1>5, <1>6

LEMMA CallsKept ==
    ASSUME CallsOK, TableOK, [SitesNext]_siteVars,
           \A c \in Clients : connected[c] \subseteq connected'[c]
    PROVE  CallsOK'
<1>1. ASSUME UNCHANGED <<walk, call>> PROVE CallsOK'
  BY <1>1 DEF CallsOK, CallOK
<1>2. ASSUME NEW o \in Clients,
             \/ StartSetup(o) \/ GiveUsername(o) \/ CancelSetup(o) \/ \E u \in Urls : GiveUrl(o, u)
      PROVE  CallsOK'
  <2>1. UNCHANGED connected
    BY <1>2 DEF StartSetup, GiveUsername, CancelSetup, GiveUrl, Walk
  <2> QED
    BY <1>2, <2>1, FormKept
<1>3. ASSUME NEW o \in Clients,
             \/ GivePassword(o) \/ SetupRejected(o) \/ SetupAccepted(o)
             \/ SetupLost(o) \/ SetupAnswered(o)
      PROVE  CallsOK'
  BY <1>3, SubmissionKept
<1>4. ASSUME NEW o \in Clients,
             \/ \E u \in Urls : SwitchSite(o, u)
             \/ SetActive(o) \/ SetActiveLost(o) \/ SiteChosen(o) \/ Decide(o)
             \/ Written(o) \/ WrittenUnheard(o) \/ WriteFails(o)
      PROVE  CallsOK'
  <2>1. UNCHANGED connected
    BY <1>4 DEF SwitchSite, SetActive, SetActiveLost, SiteChosen, Decide, Written,
                WrittenUnheard, WriteFails
  <2> QED
    BY <1>4, <2>1, OtherCallsKept
<1>5. ASSUME NEW o \in Clients,
             \/ AskClarification(o) \/ AskChange(o) \/ AskChangeLost(o) \/ EchoVoice(o)
             \/ VoiceChange(o) \/ DeclineChange(o) \/ UndoChange(o)
             \/ SessionExpires(o) \/ StagedExpires(o)
      PROVE  CallsOK'
  BY <1>1, <1>5 DEF AskClarification, AskChange, AskChangeLost, EchoVoice, VoiceChange,
     DeclineChange, UndoChange, SessionExpires, StagedExpires
<1>6. ASSUME NEW b \in Others, NEW u \in Contested, ConnectElsewhere(b, u) PROVE CallsOK'
  BY <1>1, <1>6 DEF ConnectElsewhere
<1>7. CASE RestartServices
  BY <1>7 DEF RestartServices, CallsOK, CallOK
<1>8. CASE UNCHANGED siteVars
  BY <1>1, <1>8 DEF siteVars
<1> QED
  BY <1>2, <1>3, <1>4, <1>5, <1>6, <1>7, <1>8 DEF SitesNext

-----------------------------------------------------------------------------
(* The change log *)

LEMMA ChangesKept ==
    ASSUME ChangesOK, CallsOK, TableOK, [SitesNext]_siteVars, DOMAIN connected = Clients,
           \A c \in Clients : connected[c] \subseteq connected'[c]
    PROVE  ChangesOK'
<1>1. ASSUME UNCHANGED changes PROVE ChangesOK'
  BY <1>1 DEF ChangesOK, OnlyConnectedSites
<1>2. ASSUME NEW o \in Clients, NEW row, row.site \in connected[o],
             changes' = [changes EXCEPT ![o] = Append(@, row)]
      PROVE  ChangesOK'
  <2>1. /\ DOMAIN changes' = Clients /\ changes'[o] = Append(changes[o], row)
        /\ \A c \in Clients \ {o} : changes'[c] = changes[c]
    BY <1>2 DEF ChangesOK
  <2>2. PICK S : changes[o] \in Seq(S)
    BY DEF ChangesOK
  <2>3. changes[o] \in Seq(S \cup {row})
    BY <2>2
  <2>4. /\ Append(changes[o], row) \in Seq(S \cup {row})
        /\ \A i \in DOMAIN Append(changes[o], row) :
               \/ i \in DOMAIN changes[o] /\ Append(changes[o], row)[i] = changes[o][i]
               \/ Append(changes[o], row)[i] = row
    BY <2>3
  <2>5. \A i \in DOMAIN changes'[o] : changes'[o][i].site \in connected[o]
    BY <1>2, <2>1, <2>4 DEF ChangesOK, OnlyConnectedSites
  <2> QED
    BY <2>1, <2>4, <2>5 DEF ChangesOK, OnlyConnectedSites
<1>3. ASSUME NEW o \in Clients, Written(o) \/ WrittenUnheard(o) PROVE ChangesOK'
  <2> DEFINE row == Row("change", call[o].site, call[o].change.meant)
  <2>1. call[o].kind = "write" /\ changes' = [changes EXCEPT ![o] = Append(@, row)]
    BY <1>3 DEF Written, WrittenUnheard, LogChange
  <2>2. call[o].site \in connected[o]
    BY <2>1, CallKinds DEF CallsOK, CallOK
  <2>3. row.site = call[o].site
    BY DEF Row
  <2> QED
    BY <1>2, <2>1, <2>2, <2>3
<1>4. ASSUME NEW o \in Clients, UndoChange(o) PROVE ChangesOK'
  <2> DEFINE u == Resolve(o, chosen[o])
             row == Row(IF chosen[o] = NoSite THEN "undo" ELSE "scoped undo", u,
                        changes[o][Len(changes[o])].site)
  <2>1. u # NoSite /\ changes' = [changes EXCEPT ![o] = Append(@, row)]
    BY <1>4 DEF UndoChange, MostRecent
  <2>2. u \in connected[o]
    <3>1. PICK i \in DOMAIN table : table[i].owner = o /\ table[i].url = u
      <4>1. table \in Seq(SiteRows) /\ Resolve(o, chosen[o]) # NoSite
        BY <2>1 DEF TableOK, Orderly
      <4> QED
        BY <4>1, ResolvedIsHers
    <3> QED
      BY <3>1 DEF TableOK, Orderly
  <2>3. row.site = u
    BY DEF Row
  <2> QED
    BY <1>2, <2>1, <2>2, <2>3
<1>5. ASSUME ~\E o \in Clients : Written(o) \/ WrittenUnheard(o) \/ UndoChange(o)
      PROVE  UNCHANGED changes
  BY <1>5 DEF SitesNext, siteVars, StartSetup, GiveUrl, GiveUsername, CancelSetup, GivePassword,
     SetupRejected, SetupAccepted, SetupLost, SetupAnswered, SwitchSite, SetActive, SetActiveLost,
     SiteChosen, AskClarification, AskChange, AskChangeLost, EchoVoice, VoiceChange, Decide,
     WriteFails, DeclineChange, SessionExpires, StagedExpires, RestartServices,
     ConnectElsewhere, Walk
<1> QED
  BY <1>1, <1>3, <1>4, <1>5

-----------------------------------------------------------------------------
SitesInv == TableOK /\ CallsOK /\ ChangesOK /\ DOMAIN connected = Clients

LEMMA SitesInductive == SitesSpec => []SitesInv
<1>1. SitesInit => SitesInv
  <2> SUFFICES ASSUME SitesInit PROVE SitesInv
    OBVIOUS
  <2>1. TableOK
    BY DEF SitesInit, TableOK, Orderly
  <2>2. CallsOK
    BY DEF SitesInit, CallsOK, CallOK
  <2>3. ChangesOK
    <3>1. \A o \in Clients : changes[o] = <<>>
      BY DEF SitesInit
    <3>2. <<>> \in Seq({}) /\ DOMAIN <<>> = {}
      OBVIOUS
    <3> QED
      BY <3>1, <3>2 DEF SitesInit, ChangesOK, OnlyConnectedSites
  <2> QED
    BY <2>1, <2>2, <2>3 DEF SitesInit, SitesInv
<1>2. SitesInv /\ [SitesNext]_siteVars => SitesInv'
  BY TableKept, CallsKept, ChangesKept DEF SitesInv
<1> QED
  BY <1>1, <1>2, PTL DEF SitesSpec

\* Changes and undos of an owner only land on sites she proved her access to
\* (_apply_with_services, undo_endpoint, onboard_site).
THEOREM ChangesStayOnConnectedSites == SitesSpec => []OnlyConnectedSites
<1>1. SitesInv => OnlyConnectedSites
  BY DEF SitesInv, ChangesOK
<1> QED
  BY <1>1, SitesInductive, PTL

\* The walkthrough never submits without a URL or a username (_submit).
THEOREM FormsAreComplete == SitesSpec => []SubmittedComplete
<1>1. SitesInv => SubmittedComplete
  <2>1. ASSUME SitesInv, NEW o \in Clients, call[o].kind = "onboard"
        PROVE  call[o].site # NoSite /\ call[o].named
    <3>1. call[o].site \in Urls /\ call[o].named
      BY <2>1, CallKinds DEF SitesInv, CallsOK, CallOK
    <3> QED
      BY <3>1, SiteAssumption
  <2> QED
    BY <2>1 DEF SubmittedComplete
<1> QED
  BY <1>1, SitesInductive, PTL

\* One site of an owner is marked active, but for those that came with a mark
\* (set_active_site, add_site).
THEOREM OneSiteIsMarked == SitesSpec => []OneMarkedSite
<1>1. SitesInv => OneMarkedSite
  BY DEF SitesInv, TableOK, Orderly, OneMarkedSite, RowsOf
<1> QED
  BY <1>1, SitesInductive, PTL

-----------------------------------------------------------------------------
(* The site an owner was told *)

\* What she was told is in her session, and goes with the change from there.
Promised(o) ==
    /\ told[o] \in {NoSite, session[o].site}
    /\ staged[o].meant \in {NoSite, staged[o].site}
    /\ call[o].kind = "write" =>
           /\ call[o].change.meant \in {NoSite, call[o].change.site}
           /\ call[o].change.site \in {NoSite, call[o].site}

Promises ==
    /\ DOMAIN told = Clients /\ DOMAIN session = Clients /\ DOMAIN staged = Clients
    /\ \A o \in Clients : Promised(o)
    /\ ToldSiteWritten

PromiseVars == <<told, session, staged, call, changes>>

\* A step of one owner, as far as it matters here: her promise as it is afterwards,
\* and the row it logs, if any.
LEMMA OnePromiseMoves ==
    ASSUME Promises, ChangesOK, CallsOK, NEW o \in Clients,
           UNCHANGED told \/ \E x : told' = [told EXCEPT ![o] = x],
           UNCHANGED session \/ \E x : session' = [session EXCEPT ![o] = x],
           UNCHANGED staged \/ \E x : staged' = [staged EXCEPT ![o] = x],
           UNCHANGED call \/ \E x : call' = [call EXCEPT ![o] = x],
           \/ UNCHANGED changes
           \/ \E row : /\ changes' = [changes EXCEPT ![o] = Append(@, row)]
                       /\ row.kind = "change" => row.meant \in {NoSite, row.site},
           Promised(o)'
    PROVE  Promises'
<1>1. /\ DOMAIN told' = Clients /\ DOMAIN session' = Clients /\ DOMAIN staged' = Clients
      /\ \A p \in Clients \ {o} : /\ told'[p] = told[p] /\ session'[p] = session[p]
                                  /\ staged'[p] = staged[p] /\ call'[p] = call[p]
  BY DEF Promises, CallsOK
<1>2. \A p \in Clients : Promised(p)'
  BY <1>1 DEF Promises, Promised
<1>3. ToldSiteWritten'
  <2>1. CASE UNCHANGED changes
    BY <2>1 DEF Promises, ToldSiteWritten
  <2>2. ASSUME NEW row, changes' = [changes EXCEPT ![o] = Append(@, row)],
               row.kind = "change" => row.meant \in {NoSite, row.site}
        PROVE  ToldSiteWritten'
    <3>1. /\ changes'[o] = Append(changes[o], row)
          /\ \A p \in Clients \ {o} : changes'[p] = changes[p]
      BY <2>2 DEF ChangesOK
    <3>2. PICK S : changes[o] \in Seq(S)
      BY DEF ChangesOK
    <3>3. \A i \in DOMAIN Append(changes[o], row) :
              \/ i \in DOMAIN changes[o] /\ Append(changes[o], row)[i] = changes[o][i]
              \/ Append(changes[o], row)[i] = row
      BY <3>2
    <3> QED
      BY <2>2, <3>1, <3>3 DEF Promises, ToldSiteWritten
  <2> QED
    BY <2>1, <2>2
<1> QED
  BY <1>1, <1>2, <1>3 DEF Promises

\* Steps that neither tell her anything nor touch her change, and wait for no write.
LEMMA NothingPromised ==
    ASSUME Promises, ChangesOK, CallsOK, NEW o \in Clients,
           UNCHANGED <<told, session, staged, changes>>,
           UNCHANGED call \/ \E x : call' = [call EXCEPT ![o] = x] /\ x.kind # "write"
    PROVE  Promises'
<1>1. UNCHANGED call \/ call'[o].kind # "write"
  BY DEF CallsOK
<1>2. Promised(o)'
  BY <1>1 DEF Promises, Promised
<1> QED
  BY <1>2, OnePromiseMoves

LEMMA PromiseOfCalls ==
    ASSUME Promises, ChangesOK, CallsOK, NEW o \in Clients,
           \/ StartSetup(o) \/ GiveUsername(o) \/ CancelSetup(o) \/ \E u \in Urls : GiveUrl(o, u)
           \/ GivePassword(o) \/ SetupRejected(o) \/ SetupAccepted(o) \/ SetupLost(o)
           \/ SetupAnswered(o) \/ \E u \in Urls : SwitchSite(o, u)
           \/ SetActive(o) \/ SetActiveLost(o)
    PROVE  Promises'
<1>1. UNCHANGED <<told, session, staged, changes>>
  BY DEF StartSetup, GiveUsername, CancelSetup, GiveUrl, Walk, GivePassword, SetupRejected,
         SetupAccepted, SetupLost, SetupAnswered, SwitchSite, SetActive, SetActiveLost
<1>2. CASE StartSetup(o) \/ GiveUsername(o) \/ \E u \in Urls : GiveUrl(o, u)
  BY <1>1, <1>2, NothingPromised DEF StartSetup, GiveUsername, GiveUrl
<1>3. CASE CancelSetup(o) \/ SetupAccepted(o)
  <2>1. CASE UNCHANGED call
    BY <1>1, <2>1, NothingPromised
  <2>2. CASE ~UNCHANGED call
    <3>1. call[o].kind \in {"onboard", "added"}
      BY <1>3, <2>2 DEF CancelSetup, SetupAccepted
    <3>2. Setup(call[o])
      BY <3>1, CallKinds DEF CallsOK, CallOK
    <3>3. /\ [call[o] EXCEPT !.current = FALSE].kind \in {"onboard", "added"}
          /\ [call[o] EXCEPT !.kind = "added"].kind = "added"
      BY <3>2 DEF Setup
    <3>4. \/ call' = [call EXCEPT ![o] = [call[o] EXCEPT !.current = FALSE]]
          \/ call' = [call EXCEPT ![o] = [call[o] EXCEPT !.kind = "added"]]
      BY <1>3, <2>2 DEF CancelSetup, SetupAccepted
    <3> QED
      BY <1>1, <3>3, <3>4, NothingPromised
  <2> QED
    BY <2>1, <2>2
<1>4. CASE GivePassword(o)
  <2> DEFINE c == [kind |-> "onboard", site |-> walk[o].site_url, named |-> walk[o].username,
                   prior |-> session[o], current |-> TRUE]
  <2>1. call' = [call EXCEPT ![o] = c] /\ c.kind = "onboard"
    BY <1>4 DEF GivePassword
  <2> HIDE DEF c
  <2> QED
    BY <1>1, <2>1, NothingPromised
<1>5. CASE SetupRejected(o) \/ SetupLost(o)
  <2>1. call' = [call EXCEPT ![o] = NoCall]
    BY <1>5 DEF SetupRejected, SetupLost
  <2> QED
    BY <1>1, <2>1, CallKinds, NothingPromised
<1>6. CASE SetupAnswered(o) \/ \E u \in Urls : SwitchSite(o, u)
  <2> DEFINE c(u, p) == [kind |-> "activate", site |-> u, prior |-> p]
  <2>1. \E u, p : call' = [call EXCEPT ![o] = c(u, p)]
    BY <1>6 DEF SetupAnswered, SwitchSite
  <2>2. \A u, p : c(u, p).kind = "activate"
    OBVIOUS
  <2> HIDE DEF c
  <2> QED
    BY <1>1, <2>1, <2>2, NothingPromised
<1>7. CASE SetActive(o) \/ SetActiveLost(o)
  <2> DEFINE c == [call[o] EXCEPT !.kind = "chosen"]
  <2>1. call[o].kind = "activate" /\ call' = [call EXCEPT ![o] = c]
    BY <1>7 DEF SetActive, SetActiveLost
  <2>2. Activation(call[o])
    BY <2>1, CallKinds DEF CallsOK, CallOK
  <2>3. c.kind = "chosen"
    BY <2>2 DEF Activation
  <2> QED
    BY <1>1, <2>1, <2>3, NothingPromised
<1> QED
  BY <1>2, <1>3, <1>4, <1>5, <1>6, <1>7

LEMMA PromiseOfMessages ==
    ASSUME Promises, ChangesOK, CallsOK, NEW o \in Clients,
           \/ SiteChosen(o) \/ AskClarification(o) \/ AskChange(o) \/ AskChangeLost(o)
           \/ EchoVoice(o) \/ VoiceChange(o) \/ DeclineChange(o) \/ SessionExpires(o)
           \/ StagedExpires(o)
    PROVE  Promises'
<1>0. /\ o \in DOMAIN told /\ o \in DOMAIN session /\ o \in DOMAIN staged /\ o \in DOMAIN call
      /\ Promised(o)
  BY DEF Promises, CallsOK
<1>1. /\ \A st, u : Session(st, u).site = u
      /\ \A u, v : Change(u, v).site = u /\ Change(u, v).meant = v
      /\ NoChange.meant = NoSite
  BY DEF Session, Change, NoChange
<1>2. CASE SiteChosen(o)
  <2>1. /\ call' = [call EXCEPT ![o] = NoCall] /\ call'[o].kind = "none"
        /\ UNCHANGED <<staged, changes>>
    BY <1>0, <1>2, CallKinds DEF SiteChosen
  <2>2. CASE o \in tenants
    <3>1. PICK st : session' = [session EXCEPT ![o] = Session(st, call[o].site)]
      BY <1>2, <2>2 DEF SiteChosen, Remember
    <3>2. told' = [told EXCEPT ![o] = call[o].site]
      BY <1>2, <2>2 DEF SiteChosen
    <3>3. Promised(o)'
      BY <1>0, <1>1, <2>1, <3>1, <3>2 DEF Promised
    <3> QED
      BY <2>1, <3>1, <3>2, <3>3, OnePromiseMoves
  <2>3. CASE o \notin tenants
    <3>1. UNCHANGED <<session, told>>
      BY <1>2, <2>3 DEF SiteChosen, Remember
    <3>2. Promised(o)'
      BY <1>0, <2>1, <3>1 DEF Promised
    <3> QED
      BY <2>1, <3>1, <3>2, OnePromiseMoves
  <2> QED
    BY <2>2, <2>3
<1>3. CASE AskClarification(o) \/ AskChange(o) \/ EchoVoice(o)
  <2>1. UNCHANGED <<told, call, changes>>
    BY <1>3 DEF AskClarification, AskChange, EchoVoice
  <2>2. \/ UNCHANGED session
        \/ \E st : session' = [session EXCEPT ![o] = Session(st, session[o].site)]
    BY <1>3 DEF AskClarification, AskChange, EchoVoice, Remember
  <2>3. session'[o].site = session[o].site
    BY <1>0, <1>1, <2>2
  <2>4. UNCHANGED staged \/ staged' = [staged EXCEPT ![o] = Change(session[o].site, told[o])]
    BY <1>3 DEF AskClarification, AskChange, EchoVoice
  <2>5. staged'[o].meant \in {NoSite, staged'[o].site}
    BY <1>0, <1>1, <2>4 DEF Promised
  <2>6. Promised(o)'
    BY <1>0, <2>1, <2>3, <2>5 DEF Promised
  <2> QED
    BY <2>1, <2>2, <2>4, <2>6, OnePromiseMoves
<1>4. CASE \/ AskChangeLost(o) \/ VoiceChange(o) \/ DeclineChange(o) \/ SessionExpires(o)
           \/ StagedExpires(o)
  <2>1. UNCHANGED <<call, changes>>
    BY <1>4 DEF AskChangeLost, VoiceChange, DeclineChange, SessionExpires, StagedExpires
  <2>2. \/ told' = [told EXCEPT ![o] = NoSite] /\ \E x : session' = [session EXCEPT ![o] = x]
        \/ UNCHANGED <<told, session>>
    BY <1>4 DEF AskChangeLost, VoiceChange, DeclineChange, SessionExpires, StagedExpires, Forget
  <2>3. told'[o] \in {NoSite, session'[o].site}
    BY <1>0, <2>2 DEF Promised
  <2>4. \/ UNCHANGED staged
        \/ staged' = [staged EXCEPT ![o] = NoChange]
        \/ staged' = [staged EXCEPT ![o] = Change(NoSite, NoSite)]
    BY <1>4 DEF AskChangeLost, VoiceChange, DeclineChange, SessionExpires, StagedExpires
  <2>5. staged'[o].meant \in {NoSite, staged'[o].site}
    BY <1>0, <1>1, <2>4 DEF Promised
  <2>6. Promised(o)'
    BY <1>0, <2>1, <2>3, <2>5 DEF Promised
  <2> QED
    BY <2>1, <2>2, <2>4, <2>6, OnePromiseMoves
<1> QED
  BY <1>2, <1>3, <1>4

LEMMA PromiseOfWrites ==
    ASSUME Promises, ChangesOK, CallsOK, NEW o \in Clients,
           \/ Decide(o) \/ Written(o) \/ WrittenUnheard(o) \/ WriteFails(o) \/ UndoChange(o)
    PROVE  Promises'
<1>0. /\ o \in DOMAIN told /\ o \in DOMAIN session /\ o \in DOMAIN staged /\ o \in DOMAIN call
      /\ Promised(o)
  BY DEF Promises, CallsOK
<1>1. CASE Decide(o)
  <2> DEFINE u == Resolve(o, staged[o].site)
             c == [kind |-> "write", site |-> u, change |-> staged[o]]
  <2>1. /\ u # NoSite /\ UNCHANGED <<told, session, changes>>
        /\ staged' = [staged EXCEPT ![o] = NoChange]
        /\ call' = [call EXCEPT ![o] = c]
    BY <1>1 DEF Decide
  <2>2. staged[o].site \in {NoSite, u}
    BY <2>1 DEF Resolve
  <2>3. staged'[o].meant = NoSite
    BY <1>0, <2>1 DEF NoChange
  <2>4. call'[o] = c /\ c.change = staged[o] /\ c.site = u
    BY <1>0, <2>1
  <2> HIDE DEF c, u
  <2>5. Promised(o)'
    BY <1>0, <2>1, <2>2, <2>3, <2>4 DEF Promised
  <2> QED
    BY <2>1, <2>5, OnePromiseMoves
<1>2. CASE Written(o) \/ WrittenUnheard(o)
  <2> DEFINE row == Row("change", call[o].site, call[o].change.meant)
  <2>1. /\ call[o].kind = "write" /\ UNCHANGED staged
        /\ changes' = [changes EXCEPT ![o] = Append(@, row)]
        /\ call' = [call EXCEPT ![o] = NoCall]
    BY <1>2 DEF Written, WrittenUnheard, LogChange
  <2>2. \/ told' = [told EXCEPT ![o] = NoSite] /\ \E x : session' = [session EXCEPT ![o] = x]
        \/ UNCHANGED <<told, session>>
    BY <1>2 DEF Written, WrittenUnheard, Forget
  <2>3. row.meant \in {NoSite, row.site}
    BY <1>0, <2>1 DEF Promised, Row
  <2>4. told'[o] \in {NoSite, session'[o].site} /\ call'[o].kind = "none"
    BY <1>0, <2>1, <2>2, CallKinds DEF Promised
  <2>5. Promised(o)'
    BY <1>0, <2>1, <2>4 DEF Promised
  <2> HIDE DEF row
  <2> QED
    BY <2>1, <2>2, <2>3, <2>5, OnePromiseMoves
<1>3. CASE WriteFails(o)
  <2>1. /\ call[o].kind = "write" /\ UNCHANGED <<told, session, changes>>
        /\ staged' = [staged EXCEPT ![o] = call[o].change]
        /\ call' = [call EXCEPT ![o] = NoCall]
    BY <1>3 DEF WriteFails
  <2>2. staged'[o] = call[o].change /\ call'[o].kind = "none"
    BY <1>0, <2>1, CallKinds
  <2>3. Promised(o)'
    BY <1>0, <2>1, <2>2 DEF Promised
  <2> QED
    BY <2>1, <2>3, OnePromiseMoves
<1>4. CASE UndoChange(o)
  <2> DEFINE row == Row(IF chosen[o] = NoSite THEN "undo" ELSE "scoped undo",
                        Resolve(o, chosen[o]), changes[o][Len(changes[o])].site)
  <2>1. /\ UNCHANGED <<told, session, staged, call>>
        /\ changes' = [changes EXCEPT ![o] = Append(@, row)]
    BY <1>4 DEF UndoChange, MostRecent
  <2>2. row.kind # "change"
    BY DEF Row
  <2>3. Promised(o)'
    BY <1>0, <2>1 DEF Promised
  <2> HIDE DEF row
  <2> QED
    BY <2>1, <2>2, <2>3, OnePromiseMoves
<1> QED
  BY <1>1, <1>2, <1>3, <1>4

LEMMA PromisesKept ==
    ASSUME Promises, ChangesOK, CallsOK, [SitesNext]_siteVars
    PROVE  Promises'
<1>1. CASE UNCHANGED PromiseVars
  BY <1>1 DEF PromiseVars, Promises, Promised, ToldSiteWritten
<1>2. CASE RestartServices
  <2>1. /\ UNCHANGED <<told, session, staged, changes>>
        /\ \A o \in Clients : call'[o].kind = "none"
    BY <1>2, CallKinds DEF RestartServices
  <2> QED
    BY <2>1 DEF Promises, Promised, ToldSiteWritten
<1>3. CASE UNCHANGED siteVars \/ \E b \in Others, u \in Contested : ConnectElsewhere(b, u)
  BY <1>1, <1>3 DEF siteVars, PromiseVars, ConnectElsewhere
<1> QED
  BY <1>2, <1>3, PromiseOfCalls, PromiseOfMessages, PromiseOfWrites DEF SitesNext

\* A typed change lands on the site the owner was last told her messages go to, or
\* nowhere (routing._route, main._apply_with_services).
THEOREM ChangesGoWhereTold == SitesSpec => []ToldSiteWritten
<1>1. SitesInit => Promises
  <2> SUFFICES ASSUME SitesInit PROVE Promises
    OBVIOUS
  <2>1. /\ DOMAIN told = Clients /\ DOMAIN session = Clients /\ DOMAIN staged = Clients
        /\ \A o \in Clients : /\ told[o] = NoSite /\ staged[o] = NoChange /\ call[o] = NoCall
                             /\ changes[o] = <<>>
    BY DEF SitesInit
  <2>2. NoChange.meant = NoSite /\ DOMAIN <<>> = {}
    BY DEF NoChange
  <2> QED
    BY <2>1, <2>2, CallKinds DEF Promises, Promised, ToldSiteWritten
<1>2. SitesInv /\ Promises /\ [SitesNext]_siteVars => Promises'
  BY PromisesKept DEF SitesInv
<1>3. Promises => ToldSiteWritten
  BY DEF Promises
<1> QED
  BY <1>1, <1>2, <1>3, SitesInductive, PTL DEF SitesSpec

-----------------------------------------------------------------------------
(* Types *)

SiteOrNone == Urls \cup {NoSite}
Sessions == [state : {"none", "IDLE", "CLARIFY", "CONFIRM", "ECHO"}, site : SiteOrNone]
StagedChanges == [site : SiteOrNone, meant : SiteOrNone, live : BOOLEAN]

\* What an owner's call carries: the session it had read, or the change it writes.
Carried(o) ==
    /\ call[o].kind \in {"onboard", "added", "activate", "chosen"} =>
           call[o].site \in Urls /\ call[o].prior \in Sessions
    /\ call[o].kind = "write" => call[o].change \in StagedChanges

OwnerTyped(o) ==
    /\ chosen[o] \in SiteOrNone /\ told[o] \in SiteOrNone
    /\ session[o] \in Sessions /\ staged[o] \in StagedChanges
    /\ Carried(o)
    /\ Len(changes[o]) <= MaxRows + 1
    /\ connected[o] \subseteq Urls

OwnersTyped ==
    /\ DOMAIN chosen = Clients /\ DOMAIN told = Clients
    /\ DOMAIN session = Clients /\ DOMAIN staged = Clients
    /\ \A o \in Clients : OwnerTyped(o)

SharedTyped == tenants \subseteq Clients /\ moved \subseteq Urls /\ mishaps \in 0..MaxMishaps

\* A step of one owner leaves what the others have.
LEMMA OneOwnerRetyped ==
    ASSUME SitesInv, OwnersTyped, NEW o \in Clients,
           UNCHANGED chosen \/ \E x : chosen' = [chosen EXCEPT ![o] = x],
           UNCHANGED told \/ \E x : told' = [told EXCEPT ![o] = x],
           UNCHANGED session \/ \E x : session' = [session EXCEPT ![o] = x],
           UNCHANGED staged \/ \E x : staged' = [staged EXCEPT ![o] = x],
           UNCHANGED call \/ \E x : call' = [call EXCEPT ![o] = x],
           UNCHANGED changes \/ \E x : changes' = [changes EXCEPT ![o] = x],
           UNCHANGED connected \/ \E x : connected' = [connected EXCEPT ![o] = x],
           OwnerTyped(o)'
    PROVE  OwnersTyped'
<1>1. /\ DOMAIN chosen = Clients /\ DOMAIN told = Clients
      /\ DOMAIN session = Clients /\ DOMAIN staged = Clients
      /\ DOMAIN call = Clients /\ DOMAIN changes = Clients /\ DOMAIN connected = Clients
  BY DEF SitesInv, OwnersTyped, CallsOK, ChangesOK
<1>2. /\ DOMAIN chosen' = Clients /\ DOMAIN told' = Clients
      /\ DOMAIN session' = Clients /\ DOMAIN staged' = Clients
  BY <1>1
<1>3. \A p \in Clients \ {o} :
          /\ chosen'[p] = chosen[p] /\ told'[p] = told[p] /\ session'[p] = session[p]
          /\ staged'[p] = staged[p] /\ call'[p] = call[p]
          /\ changes'[p] = changes[p] /\ connected'[p] = connected[p]
  BY <1>1
<1>4. \A p \in Clients : OwnerTyped(p)'
  BY <1>3 DEF OwnersTyped, OwnerTyped, Carried
<1> QED
  BY <1>2, <1>4 DEF OwnersTyped

LEMMA SessionsTyped ==
    /\ NoSession \in Sessions /\ NoChange \in StagedChanges /\ NoSite \in SiteOrNone
    /\ \A st \in {"none", "IDLE", "CLARIFY", "CONFIRM", "ECHO"}, u \in SiteOrNone :
           Session(st, u) \in Sessions
    /\ \A s \in Sessions : s.state \in {"none", "IDLE", "CLARIFY", "CONFIRM", "ECHO"} /\ s.site \in SiteOrNone
    /\ \A u, v \in SiteOrNone : Change(u, v) \in StagedChanges
BY DEF Sessions, StagedChanges, SiteOrNone, NoSession, NoChange, Session, Change

\* The walkthrough and the calls to Track B.
LEMMA TypesOfCalls ==
    ASSUME SitesInv, OwnersTyped, NEW o \in Clients,
           \/ StartSetup(o) \/ GiveUsername(o) \/ CancelSetup(o) \/ \E u \in Urls : GiveUrl(o, u)
           \/ GivePassword(o) \/ SetupRejected(o) \/ SetupAccepted(o) \/ SetupLost(o)
           \/ SetupAnswered(o) \/ \E u \in Urls : SwitchSite(o, u)
           \/ SetActive(o) \/ SetActiveLost(o)
    PROVE  OwnersTyped'
<1>0. /\ o \in DOMAIN call /\ o \in DOMAIN connected /\ OwnerTyped(o)
      /\ CallOK(o) /\ (walk[o] = NoWalk \/ FormOK(walk[o]))
  BY DEF SitesInv, OwnersTyped, CallsOK
<1>1. UNCHANGED <<chosen, told, session, staged, changes>>
  BY DEF StartSetup, GiveUsername, CancelSetup, GiveUrl, Walk, GivePassword, SetupRejected,
         SetupAccepted, SetupLost, SetupAnswered, SwitchSite, SetActive, SetActiveLost
<1>2. ASSUME UNCHANGED connected, UNCHANGED call \/ \E x : call' = [call EXCEPT ![o] = x], Carried(o)'
      PROVE  OwnersTyped'
  <2>1. OwnerTyped(o)'
    BY <1>0, <1>1, <1>2 DEF OwnerTyped
  <2> QED
    BY <1>1, <1>2, <2>1, OneOwnerRetyped
<1>3. CASE UNCHANGED <<call, connected>>
  <2>1. Carried(o)'
    BY <1>0, <1>3 DEF OwnerTyped, Carried
  <2> QED
    BY <1>2, <1>3, <2>1
<1>4. CASE SetupRejected(o) \/ SetupLost(o)
  <2>1. call' = [call EXCEPT ![o] = NoCall] /\ UNCHANGED connected
    BY <1>4 DEF SetupRejected, SetupLost, Walk
  <2>2. Carried(o)'
    BY <1>0, <2>1, CallKinds DEF Carried
  <2> QED
    BY <1>2, <2>1, <2>2
<1>5. CASE CancelSetup(o) /\ ~UNCHANGED call
  <2> DEFINE c == [call[o] EXCEPT !.current = FALSE]
  <2>1. /\ call[o].kind \in {"onboard", "added"}
        /\ call' = [call EXCEPT ![o] = c] /\ UNCHANGED connected
    BY <1>5 DEF CancelSetup, Walk
  <2>2. Setup(call[o])
    BY <1>0, <2>1, CallKinds DEF CallOK
  <2>3. c.kind = call[o].kind /\ c.site = call[o].site /\ c.prior = call[o].prior
    BY <2>2 DEF Setup
  <2> HIDE DEF c
  <2>4. Carried(o)'
    BY <1>0, <2>1, <2>3 DEF OwnerTyped, Carried
  <2> QED
    BY <1>2, <2>1, <2>4
<1>6. CASE GivePassword(o)
  <2> DEFINE c == [kind |-> "onboard", site |-> walk[o].site_url, named |-> walk[o].username,
                   prior |-> session[o], current |-> TRUE]
  <2>1. /\ walk[o] # NoWalk /\ walk[o].stage = "app_password"
        /\ call' = [call EXCEPT ![o] = c] /\ UNCHANGED connected
    BY <1>6 DEF GivePassword
  <2>2. c.kind = "onboard" /\ c.site \in Urls /\ c.prior \in Sessions
    BY <1>0, <2>1 DEF OwnerTyped, FormOK
  <2> HIDE DEF c
  <2>3. Carried(o)'
    BY <1>0, <2>1, <2>2 DEF Carried
  <2> QED
    BY <1>2, <2>1, <2>3
<1>7. CASE SetupAccepted(o)
  <2> DEFINE c == [call[o] EXCEPT !.kind = "added"]
  <2>1. /\ call[o].kind = "onboard" /\ call' = [call EXCEPT ![o] = c]
        /\ connected' = [connected EXCEPT ![o] = @ \cup {call[o].site}]
    BY <1>7 DEF SetupAccepted
  <2>2. Setup(call[o])
    BY <1>0, <2>1, CallKinds DEF CallOK
  <2>3. c.kind = "added" /\ c.site = call[o].site /\ c.prior = call[o].prior
    BY <2>2 DEF Setup
  <2> HIDE DEF c
  <2>4. Carried(o)'
    BY <1>0, <2>1, <2>3 DEF OwnerTyped, Carried
  <2>5. connected'[o] \subseteq Urls
    BY <1>0, <2>1 DEF OwnerTyped, Carried
  <2>6. OwnerTyped(o)'
    BY <1>0, <1>1, <2>4, <2>5 DEF OwnerTyped
  <2> QED
    BY <1>1, <2>1, <2>6, OneOwnerRetyped
<1>8. CASE SetupAnswered(o) \/ \E u \in Urls : SwitchSite(o, u)
  <2> DEFINE c(u, p) == [kind |-> "activate", site |-> u, prior |-> p]
  <2>1. \E u \in Urls, p \in Sessions : call' = [call EXCEPT ![o] = c(u, p)] /\ UNCHANGED connected
    BY <1>0, <1>8 DEF SetupAnswered, SwitchSite, OwnerTyped, Carried
  <2>2. \A u, p : c(u, p).kind = "activate" /\ c(u, p).site = u /\ c(u, p).prior = p
    OBVIOUS
  <2> HIDE DEF c
  <2>3. PICK u \in Urls, p \in Sessions : call' = [call EXCEPT ![o] = c(u, p)] /\ UNCHANGED connected
    BY <2>1
  <2>4. Carried(o)'
    BY <1>0, <2>2, <2>3 DEF Carried
  <2> QED
    BY <1>2, <2>3, <2>4
<1>9. CASE SetActive(o) \/ SetActiveLost(o)
  <2> DEFINE c == [call[o] EXCEPT !.kind = "chosen"]
  <2>1. call[o].kind = "activate" /\ call' = [call EXCEPT ![o] = c] /\ UNCHANGED connected
    BY <1>9 DEF SetActive, SetActiveLost
  <2>2. Activation(call[o])
    BY <1>0, <2>1, CallKinds DEF CallOK
  <2>3. c.kind = "chosen" /\ c.site = call[o].site /\ c.prior = call[o].prior
    BY <2>2 DEF Activation
  <2> HIDE DEF c
  <2>4. Carried(o)'
    BY <1>0, <2>1, <2>3 DEF OwnerTyped, Carried
  <2> QED
    BY <1>2, <2>1, <2>4
<1> QED
  BY <1>3, <1>4, <1>5, <1>6, <1>7, <1>8, <1>9
     DEF StartSetup, GiveUsername, GiveUrl, CancelSetup, Walk

\* The conversation about a change.
LEMMA TypesOfMessages ==
    ASSUME SitesInv, OwnersTyped, NEW o \in Clients,
           \/ SiteChosen(o) \/ AskClarification(o) \/ AskChange(o) \/ AskChangeLost(o)
           \/ EchoVoice(o) \/ VoiceChange(o) \/ DeclineChange(o) \/ SessionExpires(o)
           \/ StagedExpires(o)
    PROVE  OwnersTyped'
<1>0. /\ o \in DOMAIN chosen /\ o \in DOMAIN told /\ o \in DOMAIN session
      /\ o \in DOMAIN staged /\ o \in DOMAIN call /\ OwnerTyped(o)
  BY DEF SitesInv, OwnersTyped, CallsOK
<1>1. UNCHANGED <<changes, connected>>
  BY DEF SiteChosen, AskClarification, AskChange, AskChangeLost, EchoVoice, VoiceChange,
         DeclineChange, SessionExpires, StagedExpires
<1>2. UNCHANGED call \/ call' = [call EXCEPT ![o] = NoCall]
  BY DEF SiteChosen, AskClarification, AskChange, AskChangeLost, EchoVoice, VoiceChange,
         DeclineChange, SessionExpires, StagedExpires
<1>3. Carried(o)'
  BY <1>0, <1>2, CallKinds DEF OwnerTyped, Carried
<1>4. ASSUME UNCHANGED chosen \/ \E x \in SiteOrNone : chosen' = [chosen EXCEPT ![o] = x],
             UNCHANGED told \/ \E x \in SiteOrNone : told' = [told EXCEPT ![o] = x],
             UNCHANGED session \/ \E x \in Sessions : session' = [session EXCEPT ![o] = x],
             UNCHANGED staged \/ \E x \in StagedChanges : staged' = [staged EXCEPT ![o] = x]
      PROVE  OwnersTyped'
  <2>1. /\ chosen'[o] \in SiteOrNone /\ told'[o] \in SiteOrNone
        /\ session'[o] \in Sessions /\ staged'[o] \in StagedChanges
    BY <1>0, <1>4 DEF OwnerTyped
  <2>2. OwnerTyped(o)'
    BY <1>0, <1>1, <1>3, <2>1 DEF OwnerTyped
  <2> QED
    BY <1>1, <1>2, <1>4, <2>2, OneOwnerRetyped
<1>5. CASE SiteChosen(o)
  <2>1. /\ call[o].site \in SiteOrNone /\ call[o].prior \in Sessions
    BY <1>0, <1>5 DEF SiteChosen, OwnerTyped, Carried, SiteOrNone
  <2>2. chosen' = [chosen EXCEPT ![o] = call[o].site] /\ UNCHANGED staged
    BY <1>5 DEF SiteChosen
  <2>3. UNCHANGED told \/ told' = [told EXCEPT ![o] = call[o].site]
    BY <1>5 DEF SiteChosen
  <2>4. PICK st \in {"none", "IDLE", "CLARIFY", "CONFIRM", "ECHO"} :
            UNCHANGED session \/ session' = [session EXCEPT ![o] = Session(st, call[o].site)]
    BY <1>5, <2>1, SessionsTyped DEF SiteChosen, Remember
  <2>5. Session(st, call[o].site) \in Sessions
    BY <2>1, SessionsTyped
  <2> QED
    BY <1>4, <2>1, <2>2, <2>3, <2>4, <2>5
<1>6. CASE AskClarification(o) \/ AskChange(o) \/ EchoVoice(o)
  <2>1. UNCHANGED told
    BY <1>6 DEF AskClarification, AskChange, EchoVoice
  <2>2. UNCHANGED chosen \/ chosen' = [chosen EXCEPT ![o] = session[o].site]
    BY <1>6 DEF AskClarification, AskChange, EchoVoice, Inject
  <2>3. PICK st \in {"CLARIFY", "CONFIRM", "ECHO"} :
            UNCHANGED session \/ session' = [session EXCEPT ![o] = Session(st, session[o].site)]
    BY <1>6 DEF AskClarification, AskChange, EchoVoice, Remember
  <2>4. UNCHANGED staged \/ staged' = [staged EXCEPT ![o] = Change(session[o].site, told[o])]
    BY <1>6 DEF AskClarification, AskChange, EchoVoice
  <2>5. /\ session[o].site \in SiteOrNone /\ Session(st, session[o].site) \in Sessions
        /\ Change(session[o].site, told[o]) \in StagedChanges
    BY <1>0, SessionsTyped DEF OwnerTyped
  <2> QED
    BY <1>4, <2>1, <2>2, <2>3, <2>4, <2>5
<1>7. CASE \/ AskChangeLost(o) \/ VoiceChange(o) \/ DeclineChange(o) \/ SessionExpires(o)
           \/ StagedExpires(o)
  <2>1. UNCHANGED chosen \/ chosen' = [chosen EXCEPT ![o] = session[o].site]
    BY <1>7 DEF AskChangeLost, VoiceChange, DeclineChange, SessionExpires, StagedExpires, Inject
  <2>2. UNCHANGED told \/ told' = [told EXCEPT ![o] = NoSite]
    BY <1>7 DEF AskChangeLost, VoiceChange, DeclineChange, SessionExpires, StagedExpires, Forget
  <2>3. \/ UNCHANGED session
        \/ session' = [session EXCEPT ![o] = NoSession]
        \/ session' = [session EXCEPT ![o] = Session("CONFIRM", NoSite)]
    BY <1>7 DEF AskChangeLost, VoiceChange, DeclineChange, SessionExpires, StagedExpires, Forget
  <2>4. \/ UNCHANGED staged
        \/ staged' = [staged EXCEPT ![o] = NoChange]
        \/ staged' = [staged EXCEPT ![o] = Change(NoSite, NoSite)]
    BY <1>7 DEF AskChangeLost, VoiceChange, DeclineChange, SessionExpires, StagedExpires
  <2>5. /\ session[o].site \in SiteOrNone /\ Session("CONFIRM", NoSite) \in Sessions
        /\ Change(NoSite, NoSite) \in StagedChanges
    BY <1>0, SessionsTyped DEF OwnerTyped
  <2> QED
    BY <1>4, <2>1, <2>2, <2>3, <2>4, <2>5, SessionsTyped
<1> QED
  BY <1>5, <1>6, <1>7

\* What is written and undone: a log grows by one row, and not beyond its bound.
LEMMA TypesOfWrites ==
    ASSUME SitesInv, OwnersTyped, NEW o \in Clients,
           \/ Decide(o) \/ Written(o) \/ WrittenUnheard(o) \/ WriteFails(o) \/ UndoChange(o)
    PROVE  OwnersTyped'
<1>0. /\ o \in DOMAIN chosen /\ o \in DOMAIN told /\ o \in DOMAIN session /\ o \in DOMAIN staged
      /\ o \in DOMAIN call /\ o \in DOMAIN changes /\ OwnerTyped(o)
  BY DEF SitesInv, OwnersTyped, CallsOK, ChangesOK
<1>1. UNCHANGED connected
  BY DEF Decide, Written, WrittenUnheard, WriteFails, UndoChange
<1>2. CASE Decide(o)
  <2> DEFINE c == [kind |-> "write", site |-> Resolve(o, staged[o].site), change |-> staged[o]]
  <2>1. /\ UNCHANGED <<told, session, changes>> /\ staged' = [staged EXCEPT ![o] = NoChange]
        /\ call' = [call EXCEPT ![o] = c]
    BY <1>2 DEF Decide
  <2>2. UNCHANGED chosen \/ chosen' = [chosen EXCEPT ![o] = session[o].site]
    BY <1>2 DEF Decide, Inject
  <2>3. c.kind = "write" /\ c.change = staged[o]
    OBVIOUS
  <2> HIDE DEF c
  <2>4. Carried(o)'
    BY <1>0, <2>1, <2>3 DEF OwnerTyped, Carried
  <2>5. chosen'[o] \in SiteOrNone /\ staged'[o] \in StagedChanges
    BY <1>0, <2>1, <2>2, SessionsTyped DEF OwnerTyped
  <2>6. OwnerTyped(o)'
    BY <1>0, <1>1, <2>1, <2>4, <2>5 DEF OwnerTyped
  <2> QED
    BY <1>1, <2>1, <2>2, <2>6, OneOwnerRetyped
<1>3. CASE Written(o) \/ WrittenUnheard(o)
  <2> DEFINE row == Row("change", call[o].site, call[o].change.meant)
  <2>1. /\ UNCHANGED <<chosen, staged>> /\ Len(changes[o]) < MaxRows
        /\ changes' = [changes EXCEPT ![o] = Append(@, row)]
        /\ call' = [call EXCEPT ![o] = NoCall]
    BY <1>3 DEF Written, WrittenUnheard, LogChange
  <2>2. UNCHANGED told \/ told' = [told EXCEPT ![o] = NoSite]
    BY <1>3 DEF Written, WrittenUnheard, Forget
  <2>3. UNCHANGED session \/ session' = [session EXCEPT ![o] = NoSession]
    BY <1>3 DEF Written, WrittenUnheard, Forget
  <2> HIDE DEF row
  <2>4. Len(changes'[o]) <= MaxRows + 1
    <3>1. PICK S : changes[o] \in Seq(S)
      BY DEF SitesInv, ChangesOK
    <3>2. Len(Append(changes[o], row)) = Len(changes[o]) + 1 /\ Len(changes[o]) \in Nat
      BY <3>1
    <3> QED
      BY <1>0, <2>1, <3>2, SiteAssumption
  <2>5. told'[o] \in SiteOrNone /\ session'[o] \in Sessions
    BY <1>0, <2>2, <2>3, SessionsTyped DEF OwnerTyped
  <2>6. Carried(o)'
    BY <1>0, <2>1, CallKinds DEF Carried
  <2>7. OwnerTyped(o)'
    BY <1>0, <1>1, <2>1, <2>4, <2>5, <2>6 DEF OwnerTyped
  <2> QED
    BY <1>1, <2>1, <2>2, <2>3, <2>7, OneOwnerRetyped
<1>4. CASE WriteFails(o)
  <2>1. /\ call[o].kind = "write" /\ UNCHANGED <<chosen, told, session, changes>>
        /\ staged' = [staged EXCEPT ![o] = call[o].change]
        /\ call' = [call EXCEPT ![o] = NoCall]
    BY <1>4 DEF WriteFails
  <2>2. staged'[o] \in StagedChanges
    BY <1>0, <2>1 DEF OwnerTyped, Carried
  <2>3. Carried(o)'
    BY <1>0, <2>1, CallKinds DEF Carried
  <2>4. OwnerTyped(o)'
    BY <1>0, <1>1, <2>1, <2>2, <2>3 DEF OwnerTyped
  <2> QED
    BY <1>1, <2>1, <2>4, OneOwnerRetyped
<1>5. CASE UndoChange(o)
  <2> DEFINE row == Row(IF chosen[o] = NoSite THEN "undo" ELSE "scoped undo",
                        Resolve(o, chosen[o]), MostRecent(o).site)
  <2>1. /\ UNCHANGED <<chosen, told, session, staged, call>> /\ Len(changes[o]) <= MaxRows
        /\ changes' = [changes EXCEPT ![o] = Append(@, row)]
    BY <1>5 DEF UndoChange
  <2> HIDE DEF row
  <2>2. Len(changes'[o]) <= MaxRows + 1
    <3>1. PICK S : changes[o] \in Seq(S)
      BY DEF SitesInv, ChangesOK
    <3>2. Len(Append(changes[o], row)) = Len(changes[o]) + 1 /\ Len(changes[o]) \in Nat
      BY <3>1
    <3> QED
      BY <1>0, <2>1, <3>2, SiteAssumption
  <2>3. OwnerTyped(o)'
    BY <1>0, <1>1, <2>1, <2>2 DEF OwnerTyped, Carried
  <2> QED
    BY <1>1, <2>1, <2>3, OneOwnerRetyped
<1> QED
  BY <1>2, <1>3, <1>4, <1>5

LEMMA OwnersTypedKept ==
    ASSUME SitesInv, OwnersTyped, [SitesNext]_siteVars
    PROVE  OwnersTyped'
<1>1. CASE UNCHANGED siteVars \/ \E b \in Others, u \in Contested : ConnectElsewhere(b, u)
  <2>1. UNCHANGED <<chosen, told, session, staged, call, changes, connected>>
    BY <1>1 DEF siteVars, ConnectElsewhere
  <2> QED
    BY <2>1 DEF OwnersTyped, OwnerTyped, Carried
<1>2. CASE RestartServices
  <2>1. /\ UNCHANGED <<told, session, staged, changes, connected>>
        /\ DOMAIN chosen' = Clients
        /\ \A o \in Clients : chosen'[o] = NoSite /\ call'[o].kind = "none"
    BY <1>2, CallKinds DEF RestartServices
  <2> QED
    BY <2>1, SessionsTyped DEF OwnersTyped, OwnerTyped, Carried
<1> QED
  BY <1>1, <1>2, TypesOfCalls, TypesOfMessages, TypesOfWrites DEF SitesNext

\* What is not one owner's: only SetupAnswered makes a tenant, a site changes hands
\* when somebody connects it, and a mishap counts within its bound.
LEMMA SharedTypedKept ==
    ASSUME SitesInv, OwnersTyped, SharedTyped, [SitesNext]_siteVars
    PROVE  SharedTyped'
<1>1. UNCHANGED tenants \/ \E o \in Clients : tenants' = tenants \cup {o}
  BY DEF SitesNext, siteVars, StartSetup, GiveUsername, CancelSetup, GiveUrl, Walk, GivePassword,
         SetupRejected, SetupAccepted, SetupLost, SetupAnswered, SwitchSite, SetActive,
         SetActiveLost, SiteChosen, AskClarification, AskChange, AskChangeLost, EchoVoice,
         VoiceChange, Decide, Written, WrittenUnheard, WriteFails, DeclineChange, UndoChange,
         SessionExpires, StagedExpires, ConnectElsewhere, RestartServices
<1>2. \/ UNCHANGED moved
      \/ \E o \in Clients : SetupAccepted(o)
      \/ \E b \in Others, u \in Contested : ConnectElsewhere(b, u)
  BY DEF SitesNext, siteVars, StartSetup, GiveUsername, CancelSetup, GiveUrl, Walk, GivePassword,
         SetupRejected, SetupLost, SetupAnswered, SwitchSite, SetActive,
         SetActiveLost, SiteChosen, AskClarification, AskChange, AskChangeLost, EchoVoice,
         VoiceChange, Decide, Written, WrittenUnheard, WriteFails, DeclineChange, UndoChange,
         SessionExpires, StagedExpires, RestartServices
<1>3. UNCHANGED mishaps \/ Mishap
  BY DEF SitesNext, siteVars, StartSetup, GiveUsername, CancelSetup, GiveUrl, Walk, GivePassword,
         SetupRejected, SetupAccepted, SetupLost, SetupAnswered, SwitchSite, SetActive,
         SetActiveLost, SiteChosen, AskClarification, AskChange, AskChangeLost, EchoVoice,
         VoiceChange, Decide, Written, WrittenUnheard, WriteFails, DeclineChange, UndoChange,
         SessionExpires, StagedExpires, ConnectElsewhere, RestartServices
<1>4. tenants' \subseteq Clients
  BY <1>1 DEF SharedTyped
<1>5. mishaps' \in 0..MaxMishaps
  BY <1>3, SiteAssumption DEF SharedTyped, Mishap
<1>6. moved' \subseteq Urls
  <2>1. ASSUME NEW o \in Clients, SetupAccepted(o) PROVE moved' \subseteq Urls
    <3>1. call[o].site \in Urls
      BY <2>1 DEF SetupAccepted, OwnersTyped, OwnerTyped, Carried
    <3>2. HandOver(o, call[o].site)
      BY <2>1 DEF SetupAccepted
    <3> QED
      BY <3>1, <3>2 DEF HandOver, SharedTyped
  <2>2. ASSUME NEW b \in Others, NEW u \in Contested, ConnectElsewhere(b, u) PROVE moved' \subseteq Urls
    BY <2>2, SiteAssumption DEF ConnectElsewhere, HandOver, SharedTyped
  <2> QED
    BY <1>2, <2>1, <2>2 DEF SharedTyped
<1> QED
  BY <1>4, <1>5, <1>6 DEF SharedTyped

LEMMA TypesFollow ==
    ASSUME SitesInv, OwnersTyped, SharedTyped
    PROVE  SitesTypeOK
<1>1. ASSUME NEW i \in DOMAIN table
      PROVE  table[i].url \in Urls /\ table[i].owner \in Clients \cup Others /\ table[i].active \in BOOLEAN
  <2>1. table[i] \in SiteRows
    BY DEF SitesInv, TableOK, Orderly
  <2> QED
    BY <2>1 DEF SiteRows
<1>2. ASSUME NEW o \in Clients, walk[o] # NoWalk
      PROVE  /\ walk[o].stage \in {"url", "username", "app_password"}
             /\ walk[o].site_url \in Urls \cup {NoSite} /\ walk[o].username \in BOOLEAN
  <2>1. walk[o] \in Walks
    BY <1>2 DEF SitesInv, CallsOK, FormOK
  <2> QED
    BY <2>1 DEF Walks
<1>3. ASSUME NEW o \in Clients
      PROVE  call[o].kind \in {"none", "onboard", "added", "activate", "chosen", "write"}
  BY CallKinds DEF SitesInv, CallsOK, CallOK
<1>4. ASSUME NEW o \in Clients
      PROVE  /\ chosen[o] \in Urls \cup {NoSite} /\ told[o] \in Urls \cup {NoSite}
             /\ session[o].state \in {"none", "IDLE", "CLARIFY", "CONFIRM", "ECHO"}
             /\ session[o].site \in Urls \cup {NoSite}
             /\ staged[o].site \in Urls \cup {NoSite} /\ staged[o].meant \in Urls \cup {NoSite}
             /\ Len(changes[o]) <= MaxRows + 1 /\ connected[o] \subseteq Urls
  <2>1. OwnerTyped(o)
    BY DEF OwnersTyped
  <2> QED
    BY <2>1 DEF OwnerTyped, Sessions, StagedChanges, SiteOrNone
<1> QED
  BY <1>1, <1>2, <1>3, <1>4 DEF SitesTypeOK, SharedTyped

\* Every owner's walkthrough, session, staged change, call and log, and the table of
\* sites, have the shape the two programs give them.
THEOREM SitesTyped == SitesSpec => []SitesTypeOK
<1>1. SitesInit => OwnersTyped /\ SharedTyped
  <2> SUFFICES ASSUME SitesInit PROVE OwnersTyped /\ SharedTyped
    OBVIOUS
  <2>1. /\ DOMAIN chosen = Clients /\ DOMAIN told = Clients
        /\ DOMAIN session = Clients /\ DOMAIN staged = Clients
        /\ \A o \in Clients : /\ chosen[o] = NoSite /\ told[o] = NoSite /\ session[o] = NoSession
                             /\ staged[o] = NoChange /\ call[o] = NoCall
                             /\ changes[o] = <<>> /\ connected[o] = {}
    BY DEF SitesInit
  <2>2. Len(<<>>) <= MaxRows + 1
    BY SiteAssumption
  <2>3. OwnersTyped
    BY <2>1, <2>2, CallKinds, SessionsTyped DEF OwnersTyped, OwnerTyped, Carried
  <2>4. SharedTyped
    BY SiteAssumption DEF SitesInit, SharedTyped
  <2> QED
    BY <2>3, <2>4
<1>2. SitesInv /\ OwnersTyped /\ SharedTyped /\ [SitesNext]_siteVars => (OwnersTyped /\ SharedTyped)'
  BY OwnersTypedKept, SharedTypedKept
<1>3. SitesInv /\ OwnersTyped /\ SharedTyped => SitesTypeOK
  BY TypesFollow
<1> QED
  BY <1>1, <1>2, <1>3, SitesInductive, PTL DEF SitesSpec
=============================================================================
