------------------------------ MODULE CapGraph -------------------------------
(***************************************************************************)
(* The capability graph of the relay switch, on top of the fabric          *)
(* registry.  The graph holds a cap when a healthy master offers it and    *)
(* the registry has its definition in memory; a cap offered before its     *)
(* definition arrived is asked for and left out.  Two kinds of task build  *)
(* the graph: one that changes what a master offers (a RelayNotify, a      *)
(* death, a probe that passed, a new master), and the listener that wakes  *)
(* when the registry's cache has moved.  Each reads the aggregate first    *)
(* and takes the graph's lock later; definitions land while it is held.    *)
(***************************************************************************)
EXTENDS FabricRegistry

CONSTANTS Masters, MaxChanges   \* bound: changes of what masters offer

Listener == "listener"
Builders == Masters \cup {Listener}

ASSUME GraphAssumption == Listener \notin Masters /\ MaxChanges \in Nat

VARIABLES
    offers,      \* [Masters -> SUBSET Caps]: what each healthy master advertises
    aggregate,   \* aggregate_capabilities
    graph,       \* the caps of live_cap_fab
    job,         \* [Builders -> where the task is in its rebuild, what it has read and found]
    basis,       \* the caps the graph was last built from (history)
    changes

graphVars == <<offers, aggregate, graph, job, basis, changes>>
vars == <<registryVars, graphVars>>

Resting == [pc |-> "idle", caps |-> {}, found |-> {}, changed |-> FALSE]

GraphInit ==
    /\ offers = [m \in Masters |-> {}] /\ aggregate = {} /\ graph = {} /\ basis = {}
    /\ job = [b \in Builders |-> Resting] /\ changes = 0

At(b, pc) == Running /\ job[b].pc = pc
Goto(b, pc) == job' = [job EXCEPT ![b].pc = pc]

\* What master m offers changes, and the task that saw it goes on to
\* rebuild_capabilities.
Offer(m, cs) ==
    /\ At(m, "idle") /\ changes < MaxChanges /\ changes' = changes + 1
    /\ cs # offers[m] /\ offers' = [offers EXCEPT ![m] = cs]
    /\ Goto(m, "collect")
    /\ UNCHANGED <<registryVars, aggregate, graph, basis>>

Collect(m) ==
    /\ At(m, "collect")
    /\ job' = [job EXCEPT ![m] = [@ EXCEPT !.pc = "compare", !.caps = UNION Range(offers)]]
    /\ UNCHANGED <<registryVars, offers, aggregate, graph, basis, changes>>

Compare(m) ==
    /\ At(m, "compare")
    /\ job' = [job EXCEPT ![m] = [@ EXCEPT !.pc = "put", !.changed = job[m].caps # aggregate]]
    /\ UNCHANGED <<registryVars, offers, aggregate, graph, basis, changes>>

Put(m) ==
    /\ At(m, "put")
    /\ aggregate' = job[m].caps
    /\ Goto(m, IF job[m].changed THEN "read" ELSE "idle")
    /\ UNCHANGED <<registryVars, offers, graph, basis, changes>>

\* The listener wakes: changed() marks the revision seen.
Wake ==
    /\ At(Listener, "idle") /\ unseen
    /\ unseen' = FALSE /\ Goto(Listener, "read")
    /\ UNCHANGED <<pin, disk, mem, loaded, queue, inQueue, task, starts, wipes>>
    /\ UNCHANGED <<offers, aggregate, graph, basis, changes>>

\* rebuild_live_cap_fab_from_current_capabilities reads the aggregate ...
Read(b) ==
    /\ At(b, "read")
    /\ job' = [job EXCEPT ![b] = [@ EXCEPT !.pc = "sync", !.caps = aggregate]]
    /\ UNCHANGED <<registryVars, offers, aggregate, graph, basis, changes>>

\* ... takes the graph's lock and looks its caps up; what has no definition
\* yet is asked for ...
Sync(b) ==
    /\ At(b, "sync") /\ \A o \in Builders : ~At(o, "build")
    /\ job' = [job EXCEPT ![b] = [@ EXCEPT !.pc = "build", !.found = {c \in job[b].caps : Cached(c)}]]
    /\ Hydrate({c \in job[b].caps : ~Cached(c)})
    /\ UNCHANGED <<pin, disk, mem, loaded, task, unseen, starts, wipes>>
    /\ UNCHANGED <<offers, aggregate, graph, basis, changes>>

Built(b) ==
    /\ graph' = job[b].found /\ basis' = job[b].caps
    /\ job' = [job EXCEPT ![b] = Resting]
    /\ UNCHANGED <<offers, aggregate, changes>>

\* Mutant: the rebuild marks seen whatever has come since it was woken.
BuildMarksSeen(b) ==
    /\ At(b, "build") /\ Built(b)
    /\ unseen' = FALSE
    /\ UNCHANGED <<pin, disk, mem, loaded, queue, inQueue, task, starts, wipes>>

\* ... and the graph is what it found.
Build(b) ==
    /\ At(b, "build") /\ Built(b)
    /\ UNCHANGED registryVars

-----------------------------------------------------------------------------
(* An exit is the whole process's.                                         *)

ProcessExit ==
    /\ Exit
    /\ offers' = [m \in Masters |-> {}] /\ aggregate' = {} /\ graph' = {} /\ basis' = {}
    /\ job' = [b \in Builders |-> Resting] /\ UNCHANGED changes

Changes(m) == (\E cs \in SUBSET Caps : Offer(m, cs)) \/ Collect(m) \/ Compare(m) \/ Put(m)

Next == \/ Works /\ UNCHANGED graphVars
        \/ ProcessExit \/ Wake
        \/ \E m \in Masters : Changes(m)
        \/ \E b \in Builders : Read(b) \/ Sync(b) \/ Build(b)

SwitchInit == Init /\ GraphInit

Spec == SwitchInit /\ [][Next]_vars

-----------------------------------------------------------------------------
TypeOK ==
    /\ RegistryTypeOK
    /\ offers \in [Masters -> SUBSET Caps] /\ aggregate \subseteq Caps /\ graph \subseteq Caps
    /\ basis \subseteq Caps /\ changes \in Nat
    /\ job \in [Builders -> [pc : {"idle", "collect", "compare", "put", "read", "sync", "build"},
                             caps : SUBSET Caps, found : SUBSET Caps, changed : BOOLEAN]]

AtRest == Running /\ ~unseen /\ \A b \in Builders : job[b].pc = "idle"

\* At rest the graph misses nothing the registry has of the caps it was last
\* built from: a definition that lands while the graph is being built wakes
\* the listener once more.
GraphHasWhatLanded == AtRest => graph = {c \in basis : Cached(c)}

\* "subsequent LiveCapFab refreshes will add it to the graph"
\* (live_cap_fab.rs): at rest the graph holds what is offered and defined now.
\* The code does not keep this when a rebuild that had read an older aggregate
\* is the last to take the graph's lock.
GraphOfTheAggregate == AtRest => graph = {c \in aggregate : Cached(c)}
=============================================================================
