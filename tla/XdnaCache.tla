------------------------------ MODULE XdnaCache ------------------------------
(***************************************************************************)
(* The content-addressed artifact cache of the XDNA compiler               *)
(* (rpc/xdna_cache.py), shared through the file system by the threads of   *)
(* several server processes.  get_or_build is taken apart into the system  *)
(* calls other processes can see: the check for a hit, the two locks, the  *)
(* renames, the file-by-file removal that _remove falls back to, and the   *)
(* snapshot that evict works from.  Eviction takes no lock.                *)
(*                                                                         *)
(* Directories have identities of their own (the serial number of the      *)
(* request that built them), because a path may come to name another       *)
(* directory between two calls.  What happens to a directory once it has   *)
(* been renamed to .trash-* concerns nobody and is left out, as are the    *)
(* .tmp-* directories before they are published.                           *)
(***************************************************************************)
EXTENDS Naturals, FiniteSets

CONSTANTS Workers, Procs,
          ProcOf,       \* the process each worker thread belongs to
          Keys, NoWorker,
          Limit,        \* entries to keep
          Outputs,      \* the files the compiler can produce
          ZeroSized,    \* those among them of size zero
          Produces,     \* the sets of files one compile may leave behind
          Required,     \* the files required(dir) names
          MaxRequests,  \* bound on the calls of get_or_build
          MaxCrashes    \* bound on the crashes

ASSUME ProcOfType == ProcOf \in [Workers -> Procs]
ASSUME NoWorkerFresh == NoWorker \notin Workers
ASSUME OutputsType == /\ Produces \subseteq SUBSET Outputs
                      /\ Required \subseteq Outputs /\ ZeroSized \subseteq Outputs
                      /\ Required \intersect ZeroSized = {}
ASSUME LimitsType == Limit \in Nat \ {0} /\ MaxRequests \in Nat /\ MaxCrashes \in Nat

\* entry.json, next to what the compiler produced.
Manifest == "entry.json"
Dirs == 1..MaxRequests
NoDir == 0

VARIABLES
    link,      \* link[k]: the directory at <root>/<k>
    files,     \* files[d]: what directory d still holds
    listed,    \* listed[d]: what d's manifest records
    mtime,     \* mtime[k]: last use of the entry under k
    thread_lock, flock,
    pc, key, serial,  \* per worker: where it is, its key, its request's number
    made,      \* made[w]: what w's compile left in its .tmp-* directory
    path,      \* path[w]: the key whose entry w is removing
    target,    \* target[w]: the directory w's rmtree has open
    victims,   \* victims[w]: what w's evict has yet to remove
    clock, requests, crashes

disk == <<link, files, listed, mtime, clock>>
locks == <<thread_lock, flock>>
local == <<key, serial, made, path, target, victims>>
counters == <<requests, crashes>>
vars == <<disk, locks, pc, local, counters>>

Locations == {"idle", "load", "touch", "lock", "flock", "exists", "rename", "rmtree",
              "rmfiles", "build", "publish", "scan", "evict"}

\* The types of the cache directory, its locks and the callers of get_or_build.
TypeOK ==
    /\ link \in [Keys -> Dirs \union {NoDir}]
    /\ files \in [Dirs -> SUBSET (Outputs \union {Manifest})]
    /\ listed \in [Dirs -> SUBSET Outputs]
    /\ mtime \in [Keys -> Nat]
    /\ thread_lock \in [Procs -> [Keys -> Workers \union {NoWorker}]]
    /\ flock \in [Keys -> Workers \union {NoWorker}]
    /\ pc \in [Workers -> Locations]
    /\ key \in [Workers -> Keys]
    /\ path \in [Workers -> Keys]
    /\ serial \in [Workers -> Dirs \union {NoDir}]
    /\ made \in [Workers -> SUBSET Outputs]
    /\ target \in [Workers -> Dirs \union {NoDir}]
    /\ victims \in [Workers -> SUBSET Keys]
    /\ clock \in Nat /\ requests \in 0..MaxRequests /\ crashes \in 0..MaxCrashes

Init ==
    /\ link = [k \in Keys |-> NoDir]
    /\ files = [d \in Dirs |-> {}]
    /\ listed = [d \in Dirs |-> {}]
    /\ mtime = [k \in Keys |-> 0]
    /\ thread_lock = [p \in Procs |-> [k \in Keys |-> NoWorker]]
    /\ flock = [k \in Keys |-> NoWorker]
    /\ pc = [w \in Workers |-> "idle"]
    /\ key \in {[w \in Workers |-> k] : k \in Keys}
    /\ path = key
    /\ serial = [w \in Workers |-> NoDir]
    /\ made = [w \in Workers |-> {}]
    /\ target = [w \in Workers |-> NoDir]
    /\ victims = [w \in Workers |-> {}]
    /\ clock = 0 /\ requests = 0 /\ crashes = 0

-----------------------------------------------------------------------------

\* load_entry's verdict on a directory: a readable manifest that records some
\* file, and every recorded file there and not empty.
Intact(d) ==
    /\ Manifest \in files[d]
    /\ listed[d] # {}
    /\ listed[d] \subseteq files[d]
    /\ listed[d] \intersect ZeroSized = {}

\* A name that neither rename can replace nor rmdir take away.
Occupied(k) == link[k] # NoDir /\ files[link[k]] # {}

\* Under the key lock?  Only get_or_build's inner block runs there.
Holds(w) == flock[key[w]] = w

Release(w) ==
    /\ flock' = [k \in Keys |-> IF flock[k] = w THEN NoWorker ELSE flock[k]]
    /\ thread_lock' = [p \in Procs |-> [k \in Keys |->
            IF thread_lock[p][k] = w THEN NoWorker ELSE thread_lock[p][k]]]

\* Where _remove returns to: the build under the lock, or the eviction loop.
AfterRemove(w) == IF Holds(w) THEN "build" ELSE "evict"

goto(w, l) == pc' = [pc EXCEPT ![w] = l]

-----------------------------------------------------------------------------
(* get_or_build                                                            *)

Request(w, k) ==
    /\ pc[w] = "idle"
    /\ requests < MaxRequests
    /\ requests' = requests + 1
    /\ serial' = [serial EXCEPT ![w] = requests + 1]
    /\ key' = [key EXCEPT ![w] = k]
    /\ goto(w, "load")
    /\ UNCHANGED <<disk, locks, made, path, target, victims, crashes>>

\* load_entry, before the lock and again under it.  It reads by path, so an
\* entry that goes away halfway reads like one that is not there.
LoadEntry(w) ==
    /\ pc[w] = "load"
    /\ goto(w, IF link[key[w]] # NoDir /\ Intact(link[key[w]]) THEN "touch"
               ELSE IF Holds(w) THEN "exists" ELSE "lock")
    /\ UNCHANGED <<disk, locks, local, counters>>

\* The utime of a hit (which fails quietly without a manifest), and the return.
Touch(w) ==
    /\ pc[w] = "touch"
    /\ IF link[key[w]] # NoDir /\ Manifest \in files[link[key[w]]]
       THEN clock' = clock + 1 /\ mtime' = [mtime EXCEPT ![key[w]] = clock + 1]
       ELSE UNCHANGED <<clock, mtime>>
    /\ Release(w)
    /\ goto(w, "idle")
    /\ UNCHANGED <<link, files, listed, local, counters>>

ThreadLock(w) ==
    /\ pc[w] = "lock"
    /\ thread_lock[ProcOf[w]][key[w]] = NoWorker
    /\ thread_lock' = [thread_lock EXCEPT ![ProcOf[w]][key[w]] = w]
    /\ goto(w, "flock")
    /\ UNCHANGED <<disk, flock, local, counters>>

\* Mutant of Flock: what was found before the lock is not looked up again.
FlockNoRecheck(w) ==
    /\ pc[w] = "flock"
    /\ flock[key[w]] = NoWorker
    /\ flock' = [flock EXCEPT ![key[w]] = w]
    /\ goto(w, "exists")
    /\ UNCHANGED <<disk, thread_lock, local, counters>>

\* Mutant of Flock: a shared lock.
FlockShared(w) ==
    /\ pc[w] = "flock"
    /\ flock' = [flock EXCEPT ![key[w]] = w]
    /\ goto(w, "load")
    /\ UNCHANGED <<disk, thread_lock, local, counters>>

Flock(w) ==
    /\ pc[w] = "flock"
    /\ flock[key[w]] = NoWorker
    /\ flock' = [flock EXCEPT ![key[w]] = w]
    /\ goto(w, "load")
    /\ UNCHANGED <<disk, thread_lock, local, counters>>

EntryExists(w) ==
    /\ pc[w] = "exists"
    /\ goto(w, IF link[key[w]] = NoDir THEN "build" ELSE "rename")
    /\ path' = [path EXCEPT ![w] = key[w]]
    /\ UNCHANGED <<disk, locks, key, serial, made, target, victims, counters>>

Build(w) ==
    /\ pc[w] = "build"
    /\ \E out \in Produces :
        /\ Required \subseteq out
        /\ made' = [made EXCEPT ![w] = out]
    /\ goto(w, "publish")
    /\ UNCHANGED <<disk, locks, key, serial, path, target, victims, counters>>

\* Mutant of BuildFails: the exception leaves the lock taken.
BuildFailsLocked(w) ==
    /\ pc[w] = "build"
    /\ goto(w, "idle")
    /\ UNCHANGED <<disk, locks, local, counters>>

\* The compiler raises, or a required file is missing: the .tmp-* directory is
\* removed, the locks are released and the exception goes to the caller.
BuildFails(w) ==
    /\ pc[w] = "build"
    /\ Release(w)
    /\ goto(w, "idle")
    /\ UNCHANGED <<disk, local, counters>>

\* Mutant of Publish: built in place, the manifest written last (so that a
\* crash before it is a directory without one).
PublishInPlace(w) ==
    LET d == serial[w] IN
    /\ pc[w] = "publish"
    /\ link' = [link EXCEPT ![key[w]] = d]
    /\ listed' = [listed EXCEPT ![d] = made[w]]
    /\ \/ /\ files[d] = {}
          /\ files' = [files EXCEPT ![d] = made[w]]
          /\ UNCHANGED <<clock, mtime, locks, pc>>
       \/ /\ files[d] # {}
          /\ files' = [files EXCEPT ![d] = made[w] \union {Manifest}]
          /\ clock' = clock + 1
          /\ mtime' = [mtime EXCEPT ![key[w]] = clock + 1]
          /\ Release(w)
          /\ goto(w, "scan")
    /\ UNCHANGED <<local, counters>>

\* Write the manifest, rename .tmp-* to the entry and leave the locks.  The
\* rename needs a free (or empty) name; CompilesOnlyWhenNeeded says it is free.
Publish(w) ==
    LET d == serial[w] IN
    /\ pc[w] = "publish"
    /\ ~Occupied(key[w])
    /\ link' = [link EXCEPT ![key[w]] = d]
    /\ files' = [files EXCEPT ![d] = made[w] \union {Manifest}]
    /\ listed' = [listed EXCEPT ![d] = made[w]]
    /\ clock' = clock + 1
    /\ mtime' = [mtime EXCEPT ![key[w]] = clock + 1]
    /\ Release(w)
    /\ goto(w, "scan")
    /\ UNCHANGED <<local, counters>>

-----------------------------------------------------------------------------
(* _remove: rename to .trash-*, or, when that fails, rmtree in place.       *)

Rename(w) ==
    /\ pc[w] = "rename"
    /\ link' = [link EXCEPT ![path[w]] = NoDir]
    /\ goto(w, IF link[path[w]] # NoDir THEN AfterRemove(w) ELSE "rmtree")
    /\ UNCHANGED <<files, listed, mtime, clock, locks, local, counters>>

\* rmtree opens whatever directory has the name now.
RmtreeOpen(w) ==
    /\ pc[w] = "rmtree"
    /\ target' = [target EXCEPT ![w] = link[path[w]]]
    /\ goto(w, IF link[path[w]] = NoDir THEN AfterRemove(w) ELSE "rmfiles")
    /\ UNCHANGED <<disk, locks, key, serial, made, path, victims, counters>>

RmtreeUnlink(w) ==
    /\ pc[w] = "rmfiles"
    /\ \E f \in files[target[w]] : files' = [files EXCEPT ![target[w]] = @ \ {f}]
    /\ UNCHANGED <<link, listed, mtime, clock, locks, pc, local, counters>>

\* The final rmdir is by name, and only takes an empty directory.
RmtreeRmdir(w) ==
    /\ pc[w] = "rmfiles"
    /\ files[target[w]] = {}
    /\ link' = [link EXCEPT ![path[w]] = IF Occupied(path[w]) THEN @ ELSE NoDir]
    /\ goto(w, AfterRemove(w))
    /\ UNCHANGED <<files, listed, mtime, clock, locks, local, counters>>

-----------------------------------------------------------------------------
(* evict(root, limit, keep=(key,))                                         *)

Entries == {k \in Keys : link[k] # NoDir}
Age(k) == IF Manifest \in files[link[k]] THEN mtime[k] ELSE 0

\* The least recently used entries beyond the limit; one without a manifest
\* counts as oldest.
Oldest(V) ==
    /\ Cardinality(V) = IF Cardinality(Entries) > Limit
                        THEN Cardinality(Entries) - Limit ELSE 0
    /\ \A v \in V, k \in Entries \ V : Age(v) <= Age(k)

Scan(w) ==
    /\ pc[w] = "scan"
    /\ \E V \in SUBSET Entries :
        Oldest(V) /\ victims' = [victims EXCEPT ![w] = V]
    /\ goto(w, "evict")
    /\ UNCHANGED <<disk, locks, key, serial, made, path, target, counters>>

EvictOne(w) ==
    /\ pc[w] = "evict"
    /\ \E v \in victims[w] :
        /\ victims' = [victims EXCEPT ![w] = @ \ {v}]
        /\ path' = [path EXCEPT ![w] = v]
        /\ goto(w, IF v = key[w] THEN "evict" ELSE "rename")
    /\ UNCHANGED <<disk, locks, key, serial, made, target, counters>>

\* get_or_build returns a miss.
EvictDone(w) ==
    /\ pc[w] = "evict"
    /\ victims[w] = {}
    /\ goto(w, "idle")
    /\ UNCHANGED <<disk, locks, local, counters>>

-----------------------------------------------------------------------------

\* A server process dies with all its threads; the kernel drops its locks.
Crash(p) ==
    LET dead == {w \in Workers : ProcOf[w] = p} IN
    /\ crashes < MaxCrashes
    /\ crashes' = crashes + 1
    /\ pc' = [w \in Workers |-> IF w \in dead THEN "idle" ELSE pc[w]]
    /\ flock' = [k \in Keys |-> IF flock[k] \in dead THEN NoWorker ELSE flock[k]]
    /\ thread_lock' = [thread_lock EXCEPT ![p] = [k \in Keys |-> NoWorker]]
    /\ UNCHANGED <<disk, local, requests>>

Step(w) ==
    \/ LoadEntry(w) \/ Touch(w) \/ ThreadLock(w) \/ Flock(w) \/ EntryExists(w)
    \/ Build(w) \/ BuildFails(w) \/ Publish(w)
    \/ Rename(w) \/ RmtreeOpen(w) \/ RmtreeUnlink(w) \/ RmtreeRmdir(w)
    \/ Scan(w) \/ EvictOne(w) \/ EvictDone(w)

Next ==
    \/ \E w \in Workers : Step(w) \/ \E k \in Keys : Request(w, k)
    \/ \E p \in Procs : Crash(p)

\* Threads run and compiles end; nobody has to call get_or_build or to crash.
Spec == Init /\ [][Next]_vars /\ \A w \in Workers : WF_vars(Step(w))

-----------------------------------------------------------------------------
(* Properties.                                                             *)

\* "a per-key flock": no two workers, of whichever processes, compile or
\* publish the same key at a time.
OneBuilder ==
    \A v, w \in Workers :
        pc[v] \in {"build", "publish"} /\ pc[w] \in {"build", "publish"} /\ key[v] = key[w]
            => v = w

\* "concurrent identical requests compile once": under the key lock an entry is
\* discarded and compiled again only when load_entry would reject it, and the
\* name is free by the time the compile's result is renamed to it.
CompilesOnlyWhenNeeded ==
    \A w \in Workers : Holds(w) =>
        /\ pc[w] \in {"exists", "rename"} =>
              link[key[w]] = NoDir \/ ~Intact(link[key[w]])
        /\ pc[w] \in {"rmtree", "build", "publish"} => link[key[w]] = NoDir

\* As long as no process dies, a directory under a real key holds everything
\* its manifest records unless somebody is removing it: evictions, overlapping
\* removals and compiles that fail leave nothing partial behind, and what a
\* fallback removal deletes in place is deleted to the end.
PartialOnlyAfterCrash ==
    crashes = 0 => \A k \in Keys : link[k] # NoDir =>
        \/ listed[link[k]] \union {Manifest} \subseteq files[link[k]]
        \/ \E w \in Workers : pc[w] = "rmfiles" /\ target[w] = link[k]

\* Every call of get_or_build returns or raises, whoever crashed with the lock.
Completes == \A w \in Workers : (pc[w] # "idle") ~> (pc[w] = "idle")
=============================================================================
