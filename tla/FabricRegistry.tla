--------------------------- MODULE FabricRegistry ----------------------------
(***************************************************************************)
(* The fabric registry of one process: an in-memory cache of definitions   *)
(* in front of a directory shared by every process that ever runs, filled  *)
(* by callers that fetch on a miss and by one background consumer.         *)
(*                                                                         *)
(* A definition is a cap, which names the media definitions its arguments  *)
(* and output have, or a leaf: a media definition or an alias.  A process  *)
(* is pinned to one published manifest, which says which version of every  *)
(* definition belongs to the snapshot.  Every read before a network answer *)
(* and every use after it are separate steps; what runs between two awaits *)
(* is one.  The legacy pin 0, bodies that do not parse and registries that *)
(* serve another version than asked for are left out.                      *)
(***************************************************************************)
EXTENDS Naturals, Sequences, FiniteSets, SequencesExt

CONSTANTS
    Caps, Leaves,
    Refs,        \* [Caps -> Seq(Leaves)]: the media a cap names, in the order they are walked
    Pins,        \* the published manifest versions
    Manifest,    \* [Pins -> [Defs -> Nat]]: the version of a definition, 0 when not in the snapshot
    Getters,     \* the tasks that call get_cap, get_media_def, get_alias
    Syncers,     \* ... and those that call get_cached_cap, get_cached_media_def
    MaxStarts,   \* bound: how often a process is started on this directory
    MaxWipes     \* bound: how often another process clears the directory

Defs == Caps \cup Leaves
Consumer == "consumer"
Tasks == Getters \cup Syncers \cup {Consumer}

ASSUME RegistryAssumption ==
    /\ IsFiniteSet(Caps) /\ Caps \cap Leaves = {} /\ Pins \subseteq Nat \ {0}
    /\ Refs \in [Caps -> Seq(Leaves)]
    /\ Manifest \in [Pins -> [Defs -> Nat]]
    /\ Consumer \notin Getters \cup Syncers /\ Getters \cap Syncers = {}
    /\ MaxStarts \in Nat /\ MaxWipes \in Nat

VARIABLES
    pin,        \* the manifest this process is pinned to, 0 while none runs
    disk,       \* the files of the cache directory: a definition and its version
    mem,        \* [Defs -> Nat]: the version cached in memory, 0 when there is none
    loaded,     \* the definitions the constructor read from disk (history)
    queue,      \* the background consumer's channel
    inQueue,    \* fetch_in_queue, the set that keeps a key from being queued twice
    task,       \* [Tasks -> what the task is fetching]
    unseen,     \* the cache revision has moved since its subscriber last looked
    starts, wipes

registryVars == <<pin, disk, mem, loaded, queue, inQueue, task, unseen, starts, wipes>>

\* What a task fetches: the key it is after, and which of the key's media its
\* fetch has got to, 0 while the key's own body is awaited.
Idle == [key |-> {}, at |-> 0]
Fetching(u) == [key |-> {u}, at |-> 0]
Busy(t) == task[t].key # {}
MediaOf(u) == IF u \in Caps THEN Refs[u] ELSE <<>>
Nothing == [u \in Defs |-> 0]
Running == pin # 0
Pinned(u) == Manifest[pin][u]
Cached(u) == mem[u] # 0

Init ==
    /\ pin = 0 /\ disk = {} /\ mem = Nothing /\ loaded = {}
    /\ queue = <<>> /\ inQueue = {} /\ task = [t \in Tasks |-> Idle]
    /\ unseen = FALSE /\ starts = 0 /\ wipes = 0

-----------------------------------------------------------------------------
(* The life of a process.                                                  *)

\* load_all_cached_*: the walk keys what it finds by URN alone, so of two
\* versions of a definition the one read_dir gives last is the one kept.
Found(u) == {file[2] : file \in {e \in disk : e[1] = u}}
Walks == {f \in [Defs -> UNION {Found(u) : u \in Defs} \cup {0}] :
            \A u \in Defs : IF Found(u) = {} THEN f[u] = 0 ELSE f[u] \in Found(u)}

\* Mutant: what was read is kept whatever its version.
RetainAll(f, p) == f

\* ... and the constructor then drops what the manifest does not pin.
Retain(f, p) == [u \in Defs |-> IF f[u] = Manifest[p][u] THEN f[u] ELSE 0]

\* A process starts, pinned to p; with bypass_cache it reads nothing.
Start(p) ==
    /\ ~Running /\ starts < MaxStarts /\ starts' = starts + 1
    /\ pin' = p
    /\ \/ \E f \in Walks : mem' = Retain(f, p)
       \/ mem' = Nothing
    /\ loaded' = {u \in Defs : mem'[u] # 0}
    /\ UNCHANGED <<disk, queue, inQueue, task, unseen, wipes>>

\* It exits, or crashes: what it had in memory, in its channel and on the way
\* is gone.
Exit ==
    /\ Running /\ pin' = 0 /\ mem' = Nothing /\ loaded' = {}
    /\ queue' = <<>> /\ inQueue' = {} /\ task' = [t \in Tasks |-> Idle] /\ unseen' = FALSE
    /\ UNCHANGED <<disk, starts, wipes>>

\* `capdag cache clear' in a process of its own.
Wipe ==
    /\ wipes < MaxWipes /\ wipes' = wipes + 1
    /\ disk' = {}
    /\ UNCHANGED <<pin, mem, loaded, queue, inQueue, task, unseen, starts>>

-----------------------------------------------------------------------------
(* The queue.                                                              *)

\* enqueue_for_background_fetch, of several definitions in turn.
Enqueue(us) ==
    LET new == us \ inQueue
    IN /\ inQueue' = inQueue \cup new
       /\ \E s \in SetToSeqs(new) : queue' = queue \o s

\* request_cap_cache_hydration.
Hydrate(us) == Enqueue({u \in us : Pinned(u) # 0})

Take ==
    /\ Running /\ ~Busy(Consumer) /\ queue # <<>>
    /\ queue' = Tail(queue)
    /\ IF Cached(Head(queue))
         THEN inQueue' = inQueue \ {Head(queue)} /\ UNCHANGED task
         ELSE task' = [task EXCEPT ![Consumer] = Fetching(Head(queue))] /\ UNCHANGED inQueue
    /\ UNCHANGED <<pin, disk, mem, loaded, unseen, starts, wipes>>

\* A task is through with its fetch: the consumer forgets the key.
Released(t) == IF t = Consumer THEN inQueue \ task[t].key ELSE inQueue

-----------------------------------------------------------------------------
(* A fetch: fetch_one_cap_atomic, fetch_one_media_def, fetch_one_alias.    *)

\* A lookup that misses starts a fetch; a definition the manifest does not
\* name is not found, and one that is cached is returned.
Lookup(t, u) ==
    /\ Running /\ t # Consumer /\ ~Busy(t)
    /\ ~Cached(u) /\ Pinned(u) # 0
    /\ task' = [task EXCEPT ![t] = Fetching(u)]
    /\ UNCHANGED <<pin, disk, mem, loaded, queue, inQueue, unseen, starts, wipes>>

\* Mutant: the first medium that had to be fetched is taken for the last.
NextAfterFirst(media, m, at, k) ==
    IF at > 0 THEN k = Len(media) + 1
    ELSE (\A i \in 1 .. k - 1 : m[media[i]] # 0) /\ (k <= Len(media) => m[media[k]] = 0)

\* After the one at `at', the medium to fetch next is the k-th: those between
\* are cached already.  One past the last when all are.
NextMissing(media, m, at, k) ==
    /\ \A i \in at + 1 .. k - 1 : m[media[i]] # 0
    /\ k <= Len(media) => m[media[k]] = 0

\* Mutant: a media definition goes to memory and the file is left for later.
StoreCapFiles(us) ==
    /\ disk' = disk \cup {<<u, Pinned(u)>> : u \in us \cap Caps}
    /\ mem' = [u \in Defs |-> IF u \in us THEN Pinned(u) ELSE mem[u]]
    /\ loaded' = loaded \ us

\* The file under the pinned version, and the map.
Store(us) ==
    /\ disk' = disk \cup {<<u, Pinned(u)>> : u \in us}
    /\ mem' = [u \in Defs |-> IF u \in us THEN Pinned(u) ELSE mem[u]]
    /\ loaded' = loaded \ us

\* The body awaited arrives.  A leaf is stored at once: file, map, revision.
\* A cap is stored when the last of its media is in the cache.  Media that are
\* not in the snapshot have no body to wait for.
Body(t) ==
    \E u \in task[t].key :
      LET at == task[t].at
          media == MediaOf(u)
          awaited == IF at = 0 THEN u ELSE media[at]
          leaf == {awaited} \cap Leaves
          known == [v \in Defs |-> IF v \in leaf THEN Pinned(v) ELSE mem[v]]
      IN /\ Pinned(awaited) # 0
         /\ \E k \in at + 1 .. Len(media) + 1 :
              LET done == k > Len(media)
                  stored == IF done THEN leaf \cup {u} ELSE leaf
              IN /\ NextMissing(media, known, at, k)
                 /\ Store(stored) /\ unseen' = (unseen \/ stored # {})
                 /\ task' = [task EXCEPT ![t] = IF done THEN Idle ELSE [@ EXCEPT !.at = k]]
                 /\ inQueue' = IF done THEN Released(t) ELSE inQueue
         /\ UNCHANGED <<pin, queue, starts, wipes>>

\* The fetch ends with nothing: offline, an HTTP error, a media definition
\* that could not be had or is not in the snapshot, a directory that another
\* process removed -- or, for a synchronous lookup, the deadline of 500 ms,
\* which drops the future where it waits.  A synchronous lookup leaves the key
\* to the consumer; the consumer drops it.
Fail(t) ==
    /\ Busy(t)
    /\ task' = [task EXCEPT ![t] = Idle]
    /\ IF t \in Syncers THEN Enqueue(task[t].key)
       ELSE inQueue' = Released(t) /\ UNCHANGED queue
    /\ UNCHANGED <<pin, disk, mem, loaded, unseen, starts, wipes>>
-----------------------------------------------------------------------------
(* The registry by itself: whoever uses it may ask for any caps and look    *)
(* at the revision at any time.                                            *)

Ask ==
    /\ Running /\ \E us \in SUBSET Caps : Hydrate(us)
    /\ UNCHANGED <<pin, disk, mem, loaded, task, unseen, starts, wipes>>

Look ==
    /\ Running /\ unseen' = FALSE
    /\ UNCHANGED <<pin, disk, mem, loaded, queue, inQueue, task, starts, wipes>>

Works == \/ \E p \in Pins : Start(p)
         \/ Wipe \/ Take
         \/ \E t \in Tasks : Body(t) \/ Fail(t) \/ \E u \in Defs : Lookup(t, u)

RegistryNext == Works \/ Exit \/ Ask \/ Look

RegistrySpec == Init /\ [][RegistryNext]_registryVars

-----------------------------------------------------------------------------
RegistryTypeOK ==
    /\ pin \in Pins \cup {0} /\ mem \in [Defs -> Nat] /\ loaded \subseteq Defs
    /\ disk \subseteq Defs \X (Nat \ {0})
    /\ queue \in Seq(Defs) /\ inQueue \subseteq Defs
    /\ task \in [Tasks -> [key : SUBSET Defs, at : Nat]]
    /\ unseen \in BOOLEAN /\ starts \in Nat /\ wipes \in Nat

\* A cap that a fetch of this process put in memory has every one of its
\* media definitions there, whatever other tasks fetched, failed or timed
\* out meanwhile: the cap fetch of registry.rs is atomic.
FetchedCapsHaveMedia ==
    \A c \in Caps \ loaded : Cached(c) => \A i \in DOMAIN Refs[c] : Cached(Refs[c][i])

\* Wherever a process died, no cap file is in a directory that was never
\* cleared without a file for each of its media: media are written first.
MediaFilesFirst ==
    wipes = 0 => \A c \in Caps : Found(c) # {} =>
                    \A i \in DOMAIN Refs[c] : Found(Refs[c][i]) # {}

\* Nothing in memory is of another snapshot than the one the process is
\* pinned to, after any sequence of processes pinned to other ones.
OfThePinnedSnapshot == \A u \in Defs : Cached(u) => Running /\ mem[u] = Pinned(u)

\* fetch_in_queue is what is in the channel or in the consumer's hands, and
\* no key is in the channel twice: a request is dropped only when another one
\* for the same key is still to be served.
QueueTracksKeys ==
    /\ inQueue = Range(queue) \cup task[Consumer].key
    /\ IsInjective(queue) /\ Range(queue) \cap task[Consumer].key = {}

\* "any cap landing in the cap cache has every one of its referenced media
\* defs already in the media cache" (registry.rs:18): the code does not keep
\* this of caps read from disk after the snapshot changed one of their media.
CapsHaveTheirMedia == \A c \in Caps : Cached(c) => \A i \in DOMAIN Refs[c] : Cached(Refs[c][i])
=============================================================================
