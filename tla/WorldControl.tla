---------------------------- MODULE WorldControl ----------------------------
(***************************************************************************)
(* What stopping the world promises to the collectors, without counters,   *)
(* pages or futexes: a thread owns the stopped world only while no         *)
(* attached mutator runs, and while it owns it no mutator starts to run,   *)
(* attaches or detaches.  StopTheWorld.tla implements this.                *)
(***************************************************************************)
CONSTANTS Mutators, Threads, NoOne

VARIABLES
    attached,  \* the mutators of the mutator list
    running,   \* those that may execute managed code
    owner      \* the thread the world is stopped for, or NoOne

vars == <<attached, running, owner>>

Init ==
    /\ attached = {}
    /\ running = {}
    /\ owner = NoOne

Attach(m) ==
    /\ owner = NoOne /\ m \notin attached
    /\ attached' = attached \cup {m}
    /\ running' = running \cup {m}
    /\ owner' = owner

Detach(m) ==
    /\ owner = NoOne /\ m \in attached \ running
    /\ attached' = attached \ {m}
    /\ UNCHANGED <<running, owner>>

Run(m) ==
    /\ owner = NoOne /\ m \in attached \ running
    /\ running' = running \cup {m}
    /\ UNCHANGED <<attached, owner>>

Pause(m) ==
    /\ m \in running
    /\ running' = running \ {m}
    /\ UNCHANGED <<attached, owner>>

Stop(t) ==
    /\ owner = NoOne /\ running = {}
    /\ owner' = t
    /\ UNCHANGED <<attached, running>>

Start(t) ==
    /\ owner = t
    /\ owner' = NoOne
    /\ UNCHANGED <<attached, running>>

Next ==
    \/ \E m \in Mutators : Attach(m) \/ Detach(m) \/ Run(m) \/ Pause(m)
    \/ \E t \in Threads : Stop(t) \/ Start(t)

Spec == Init /\ [][Next]_vars
=============================================================================
