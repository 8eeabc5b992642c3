---------------------------- MODULE MessageFate ----------------------------
(***************************************************************************)
(* What the webhook promises of one WhatsApp message, whatever Meta         *)
(* redelivers and however often the process dies: it is claimed (the mark  *)
(* in processed_messages) before it is logged, logged before it is         *)
(* answered, no stage is ever left backwards, and the conversation sees it *)
(* at most once (main.py webhook, store.py, tenant_store.py: "duplicate    *)
(* webhook deliveries ... skip all processing").                           *)
(***************************************************************************)
EXTENDS Naturals

CONSTANT Messages

VARIABLES
    stage,   \* how far the message is known to have come
    handled  \* how often the conversation has seen it

fate == <<stage, handled>>

Init ==
    /\ stage = [m \in Messages |-> "unseen"]
    /\ handled = [m \in Messages |-> 0]

Advance(m, from, to) ==
    /\ stage[m] \in from
    /\ stage' = [stage EXCEPT ![m] = to]
    /\ UNCHANGED handled

Claim(m) == Advance(m, {"unseen"}, "claimed")
Log(m) == Advance(m, {"unseen", "claimed"}, "logged")

Handle(m) ==
    /\ stage[m] = "logged" /\ handled[m] = 0
    /\ handled' = [handled EXCEPT ![m] = 1]
    /\ UNCHANGED stage

Next == \E m \in Messages : Claim(m) \/ Log(m) \/ Handle(m)

Spec == Init /\ [][Next]_fate
=============================================================================
