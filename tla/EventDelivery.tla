--------------------------- MODULE EventDelivery ---------------------------
(***************************************************************************)
(* What the owner of a webhook may rely on about an event, whatever the    *)
(* interleaving of publish calls, redelivered attempts, lost locks,        *)
(* deletions and crashes: which events are queued for whom, and how a      *)
(* delivery ends.  It is the abstract specification that WebhookDelivery   *)
(* implements.                                                             *)
(*                                                                         *)
(* It has no slots, locks, rows or POSTs.  A delivery that is over stays   *)
(* over, one reported as completed was accepted by its receiver unless the *)
(* webhook is gone, and one is given up only after the last attempt or     *)
(* when an attempt met a final refusal.                                    *)
(***************************************************************************)
EXTENDS Naturals

CONSTANTS Hooks, Events, TypeOf, Choices, Attempts  \* as in WebhookDelivery

VARIABLES
    asked,    \* the types each webhook asks for; {} before it is registered
    gone,     \* webhooks that were deleted
    fate,     \* each webhook's delivery of each event
    tries,    \* attempts that were reported
    heard,    \* deliveries their receiver has accepted, if only in an attempt never reported
    refusing  \* deliveries with a finally refused attempt still to be reported

promiseVars == <<asked, gone, fate, tries, heard, refusing>>

PromiseInit ==
    /\ asked = [h \in Hooks |-> {}]
    /\ gone = {}
    /\ fate = [h \in Hooks |-> [e \in Events |-> "none"]]
    /\ tries = [h \in Hooks |-> [e \in Events |-> 0]]
    /\ heard = {}
    /\ refusing = {}

Registers(h) ==
    /\ asked[h] = {}
    /\ \E types \in (SUBSET Choices) \ {{}} : asked' = [asked EXCEPT ![h] = types]
    /\ UNCHANGED <<gone, fate, tries, heard, refusing>>

Deletes(h) ==
    /\ asked[h] # {}
    /\ gone' = gone \cup {h}
    /\ UNCHANGED <<asked, fate, tries, heard, refusing>>

\* An event is queued once, and only for webhooks that ask for its type.
Queued(e) ==
    /\ \E hs \in SUBSET {h \in Hooks : TypeOf[e] \in asked[h] /\ fate[h][e] = "none"} :
           fate' = [h \in Hooks |-> IF h \in hs THEN [fate[h] EXCEPT ![e] = "queued"] ELSE fate[h]]
    /\ UNCHANGED <<asked, gone, tries, heard, refusing>>

\* The attempt that is accepted or refused may be one whose report comes too
\* late to count.
Accepts(h, e) ==
    /\ fate[h][e] # "none"
    /\ heard' = heard \cup {<<h, e>>}
    /\ UNCHANGED <<asked, gone, fate, tries, refusing>>

Refuses(h, e) ==
    /\ fate[h][e] # "none"
    /\ refusing' = refusing \cup {<<h, e>>}
    /\ UNCHANGED <<asked, gone, fate, tries, heard>>

Forgets ==
    /\ refusing' \subseteq refusing
    /\ UNCHANGED <<asked, gone, fate, tries, heard>>

Reported(h, e, to) ==
    /\ fate[h][e] = "queued"
    /\ fate' = [fate EXCEPT ![h][e] = to]
    /\ tries' = [tries EXCEPT ![h][e] = @ + 1]
    /\ refusing' \subseteq refusing
    /\ UNCHANGED <<asked, gone, heard>>

Retries(h, e)   == tries[h][e] + 1 < Attempts /\ Reported(h, e, "queued")
Completes(h, e) == (<<h, e>> \in heard \/ h \in gone) /\ Reported(h, e, "completed")
GivesUp(h, e)   == (tries[h][e] + 1 = Attempts \/ <<h, e>> \in refusing) /\ Reported(h, e, "failed")

PromiseNext ==
    \/ Forgets
    \/ \E e \in Events : Queued(e)
    \/ \E h \in Hooks : Registers(h) \/ Deletes(h)
    \/ \E h \in Hooks, e \in Events : \/ Accepts(h, e) \/ Refuses(h, e)
                                      \/ Retries(h, e) \/ Completes(h, e) \/ GivesUp(h, e)

PromiseSpec == PromiseInit /\ [][PromiseNext]_promiseVars

=============================================================================
