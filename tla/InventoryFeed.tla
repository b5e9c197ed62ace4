---------------------------- MODULE InventoryFeed ----------------------------
(***************************************************************************)
(* What the inventory promises its callers, without lists, orders, workers *)
(* or back-off.  Docker's state is counted in versions; the feed shows one *)
(* of them at a time, never goes back to an older one, and calls itself    *)
(* fresh only after a new publication.  A caller that changed Docker and   *)
(* then asks for the inventory is shown its own change or gets an error    *)
(* (InventoryRefresher, crates/colui-app/src/inventory.rs).                *)
(***************************************************************************)
EXTENDS Naturals

CONSTANT Callers

VARIABLES
    daemon,        \* version of Docker's state
    shown,         \* version the published snapshot shows
    generation,    \* of the published snapshot; 0 before the first one
    fresh,         \* the snapshot claims to be fresh
    owed,          \* version that a caller made itself and must be shown
    reply          \* what the caller's last request returned

Unanswered == [kind |-> "unanswered", version |-> 0]
Failed == [kind |-> "failed", version |-> 0]
Shows(v) == [kind |-> "inventory", version |-> v]

feed == <<daemon, shown, generation, fresh, owed, reply>>

Init ==
    /\ daemon = 0
    /\ shown = 0
    /\ generation = 0
    /\ fresh = FALSE
    /\ owed = [c \in Callers |-> 0]
    /\ reply = [c \in Callers |-> Unanswered]

Change ==
    /\ daemon' = daemon + 1
    /\ UNCHANGED <<shown, generation, fresh, owed, reply>>

\* A caller starts a request, which may be about a change of its own.
Ask(c) ==
    /\ reply' = [reply EXCEPT ![c] = Unanswered]
    /\ \/ owed' = [owed EXCEPT ![c] = 0] /\ daemon' = daemon
       \/ owed' = [owed EXCEPT ![c] = daemon + 1] /\ daemon' = daemon + 1
    /\ UNCHANGED <<shown, generation, fresh>>

Publish ==
    /\ shown' \in shown .. daemon
    /\ generation' = generation + 1
    /\ fresh' = TRUE
    /\ UNCHANGED <<daemon, owed, reply>>

LoseTouch ==
    /\ fresh' = FALSE
    /\ UNCHANGED <<daemon, shown, generation, owed, reply>>

Answer(c) ==
    /\ reply[c] = Unanswered
    /\ \/ reply' = [reply EXCEPT ![c] = Failed]
       \/ \E v \in owed[c] .. shown : reply' = [reply EXCEPT ![c] = Shows(v)]
    /\ UNCHANGED <<daemon, shown, generation, fresh, owed>>

Next == \/ Change \/ Publish \/ LoseTouch
        \/ \E c \in Callers : Ask(c) \/ Answer(c)

Spec == Init /\ [][Next]_feed
=============================================================================
