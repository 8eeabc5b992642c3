-------------------------- MODULE ConfirmationGate --------------------------
(***************************************************************************)
(* What Track B promises about a staged change (pending.py:10-16, "the     *)
(* only release valve"): every change handed to the gate is open for one   *)
(* owner, an owner has at most one open change, and an open change leaves  *)
(* the gate once and in one way: released to the write pipeline,           *)
(* discarded, or dropped (its window passed or a newer change of the same  *)
(* owner replaced it).  There is no clock, no Redis and no concurrency     *)
(* here: RedisPending is shown to implement this.                          *)
(***************************************************************************)
EXTENDS Naturals

CONSTANTS
    Owners,    \* owner_id values
    Changes,   \* change_id values ("pc-<uuid>"), each used for one staging
    NoChange   \* "nothing is open", not one of Changes

VARIABLES
    open,      \* open[o]: the change the owner may still decide on
    fate,      \* fate[c]: where the change is in its life
    releases   \* releases[c]: how often c was handed to the write pipeline

vars == <<open, fate, releases>>

Fates == {"new", "open", "released", "discarded", "dropped"}

TypeOK ==
    /\ open \in [Owners -> Changes \cup {NoChange}]
    /\ fate \in [Changes -> Fates]
    /\ releases \in [Changes -> Nat]

Init ==
    /\ open = [o \in Owners |-> NoChange]
    /\ fate = [c \in Changes |-> "new"]
    /\ releases = [c \in Changes |-> 0]

-----------------------------------------------------------------------------

\* A new change opens; whatever the owner had open before is dropped.
Offer(o, c) ==
    /\ fate[c] = "new"
    /\ open' = [open EXCEPT ![o] = c]
    /\ fate' = [d \in Changes |-> IF d = c THEN "open"
                                  ELSE IF d = open[o] THEN "dropped"
                                  ELSE fate[d]]
    /\ UNCHANGED releases

\* YES: the open change goes to the write pipeline, once.
Release(o) ==
    /\ open[o] # NoChange
    /\ open' = [open EXCEPT ![o] = NoChange]
    /\ fate' = [fate EXCEPT ![open[o]] = "released"]
    /\ releases' = [releases EXCEPT ![open[o]] = @ + 1]

\* NO: the open change is thrown away.
Discard(o) ==
    /\ open[o] # NoChange
    /\ open' = [open EXCEPT ![o] = NoChange]
    /\ fate' = [fate EXCEPT ![open[o]] = "discarded"]
    /\ UNCHANGED releases

\* Time passes or the process dies: the windows of some owners close.
Drop(owners) ==
    /\ \A o \in owners : open[o] # NoChange
    /\ open' = [o \in Owners |-> IF o \in owners THEN NoChange ELSE open[o]]
    /\ fate' = [c \in Changes |-> IF \E o \in owners : open[o] = c
                                  THEN "dropped" ELSE fate[c]]
    /\ UNCHANGED releases

Next ==
    \/ \E o \in Owners, c \in Changes : Offer(o, c)
    \/ \E o \in Owners : Release(o) \/ Discard(o)
    \/ \E owners \in SUBSET Owners : Drop(owners)

Spec == Init /\ [][Next]_vars
=============================================================================
