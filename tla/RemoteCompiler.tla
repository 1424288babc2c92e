--------------------------- MODULE RemoteCompiler ---------------------------
(***************************************************************************)
(* onnx-remote-compiler (remote_compiler.cpp): service processes that      *)
(* share one cache directory, each answering every compile request on a    *)
(* thread of its own.                                                      *)
(*                                                                         *)
(* A request looks into the cache, then takes the key's mutex, one of its  *)
(* process's compile slots and the key's lock directory, looks again under *)
(* each lock, compiles, publishes three files one rename at a time and     *)
(* trims the cache.  Each system call another process can see is a step.   *)
(*                                                                         *)
(* A file's content is the number of the compile it came from; the         *)
(* completion marker holds the numbers of the pair it was digested from.   *)
(***************************************************************************)
EXTENDS Naturals, Sequences, FiniteSets

CONSTANTS Workers,      \* request threads
          Processes,
          ProcessOf,    \* the process of each worker
          Keys,         \* cache keys
          Cached,       \* the keys an earlier service left in the cache
          Jobs,         \* --jobs
          Limit,        \* how many entries --max-cache-bytes has room for
          MaxAttempts,  \* attempts of CacheLock::acquire (600)
          MaxRequests,
          MaxCrashes,
          MaxErrors,    \* failing compiles and renames
          SlowCompiles, \* a compile may take longer than the grace period
          None

FileNames == {"artifact", "manifest", "complete"}
Files == <<"artifact", "manifest", "complete">>
Removals == <<"complete", "artifact", "manifest">>
Versions == 0 .. MaxRequests   \* a request compiles at most once
Pairs == Versions \X Versions
Nothing == [f \in FileNames |-> None]

\* The result of the n-th compile, with the digest publish_cache adds
Compiled(n) == [f \in FileNames |-> IF f = "complete" THEN <<n, n>> ELSE n]

ASSUME CompilerConstants ==
    /\ ProcessOf \in [Workers -> Processes]
    /\ Jobs \in Nat \ {0} /\ Limit \in Nat
    /\ MaxAttempts \in Nat \ {0} /\ MaxRequests \in Nat
    /\ MaxCrashes \in Nat /\ MaxErrors \in Nat /\ SlowCompiles \in BOOLEAN
    /\ IsFiniteSet(Workers) /\ IsFiniteSet(Keys) /\ Keys # {}
    /\ Cached \subseteq Keys
    /\ None \notin Workers \union Versions \union Pairs
    /\ None \notin [by : Workers, old : BOOLEAN]

VARIABLES
    pc,       \* pc[w]: where w's request is
    key,      \* key[w]: cache_key of the request
    look,     \* look[w]: which of the three calls of load_cached this is
    read,     \* read[w]: response.artifact and response.manifest
    todo,     \* todo[w]: the files w has still to rename or remove
    victims,  \* victims[w]: the entries enforce_cache_limit has still to remove
    attempt,  \* attempt[w]: attempts of CacheLock::acquire made
    owned,    \* owned[w]: CacheLock::owned_
    mutex,    \* mutex[p][k]: who holds process p's mutex of key k
    free,     \* free[p]: Slots::free_
    slot,     \* the workers that hold a slot
    disk,     \* disk[k]: the three files of key k
    lock,     \* lock[k]: the lock directory, who made it and whether it is old
    compiles, \* compiles started so far
    requests, crashes, errors,
    stolen    \* history: the keys whose lock was removed under a living owner

local == <<pc, key, look, read, todo, victims, attempt, owned>>
shared == <<mutex, free, slot, disk, lock>>
counts == <<compiles, requests, crashes, errors, stolen>>
vars == <<local, shared, counts>>

\* The key of a worker that has no request means nothing.
AnyKey == CHOOSE k \in Keys : TRUE
At(w, place) == pc[w] = place
Goto(w, place) == pc' = [pc EXCEPT ![w] = place]

\* What load_cached accepts
Valid(k) == /\ \A f \in FileNames : disk[k][f] # None
            /\ disk[k]["complete"] = <<disk[k]["artifact"], disk[k]["manifest"]>>

\* The lock of k belongs to a request that is still under way.
Held(k) == /\ lock[k] # None
           /\ owned[lock[k].by] /\ key[lock[k].by] = k

-----------------------------------------------------------------------------
(* Returning from compile(): the guards let go in reverse order. *)

\* ~CacheLock removes the directory, whoever made the one that is there now.
Return(w) ==
    LET p == ProcessOf[w] IN
    /\ Goto(w, "idle")
    /\ lock' = IF owned[w] THEN [lock EXCEPT ![key[w]] = None] ELSE lock
    /\ stolen' = IF owned[w] /\ Held(key[w]) /\ lock[key[w]].by # w
                 THEN stolen \union {key[w]} ELSE stolen
    /\ owned' = [owned EXCEPT ![w] = FALSE]
    /\ slot' = slot \ {w}
    /\ free' = IF w \in slot THEN [free EXCEPT ![p] = @ + 1] ELSE free
    /\ mutex' = IF mutex[p][key[w]] = w
                THEN [mutex EXCEPT ![p][key[w]] = None] ELSE mutex
    /\ attempt' = [attempt EXCEPT ![w] = 0]
    /\ look' = [look EXCEPT ![w] = 0]
    /\ read' = [read EXCEPT ![w] = Nothing]
    /\ key' = [key EXCEPT ![w] = AnyKey]

-----------------------------------------------------------------------------
(* load_cached *)

Request(w, k) ==
    /\ At(w, "idle") /\ requests < MaxRequests
    /\ requests' = requests + 1
    /\ key' = [key EXCEPT ![w] = k]
    /\ look' = [look EXCEPT ![w] = 1]
    /\ read' = [read EXCEPT ![w] = Nothing]
    /\ Goto(w, "exists")
    /\ UNCHANGED <<todo, victims, attempt, owned, shared, compiles, crashes, errors, stolen>>

\* After a miss: first the mutex, then a slot, then the compile.
Missed == <<"mutex", "slot", "compile">>

Exists(w) ==
    /\ At(w, "exists")
    /\ Goto(w, IF \E f \in FileNames : disk[key[w]][f] = None
               THEN Missed[look[w]] ELSE "artifact")
    /\ UNCHANGED <<key, look, read, todo, victims, attempt, owned, shared, counts>>

\* A file that is gone by now fails the read like a digest that does not match:
\* the third call removes such an entry.
Reject(w) ==
    /\ read' = [read EXCEPT ![w] = Nothing]
    /\ Goto(w, IF look[w] = 3 THEN "clean" ELSE Missed[look[w]])
    /\ todo' = [todo EXCEPT ![w] = IF look[w] = 3 THEN Removals ELSE <<>>]
    /\ UNCHANGED <<key, look, attempt, owned, mutex, free, slot, lock, stolen>>

ReadFile(w, f, then) ==
    /\ At(w, f)
    /\ \/ disk[key[w]][f] = None /\ Reject(w)
       \/ /\ disk[key[w]][f] # None
          /\ read' = [read EXCEPT ![w][f] = disk[key[w]][f]]
          /\ Goto(w, then)
          /\ UNCHANGED <<key, look, todo, attempt, owned, mutex, free, slot, lock, stolen>>
    /\ UNCHANGED <<victims, disk, compiles, requests, crashes, errors>>

\* Mutant: the marker is read and not compared.
MarkerAccepts(w, marker) == marker # None
Accepts(w, marker) ==
    marker # None /\ marker = <<read[w]["artifact"], read[w]["manifest"]>>

ReadMarker(w) ==
    /\ At(w, "complete")
    /\ \/ Accepts(w, disk[key[w]]["complete"]) /\ Return(w) /\ UNCHANGED todo
       \/ ~Accepts(w, disk[key[w]]["complete"]) /\ Reject(w)
    /\ UNCHANGED <<victims, disk, compiles, requests, crashes, errors>>

\* fs::remove, file by file; then the compile
Clean(w) ==
    /\ At(w, "clean")
    /\ disk' = [disk EXCEPT ![key[w]][Head(todo[w])] = None]
    /\ todo' = [todo EXCEPT ![w] = Tail(@)]
    /\ Goto(w, IF Len(todo[w]) = 1 THEN "compile" ELSE "clean")
    /\ UNCHANGED <<key, look, read, victims, attempt, owned,
                   mutex, free, slot, lock, counts>>

-----------------------------------------------------------------------------
(* The three locks *)

KeyMutex(w) ==
    /\ At(w, "mutex") /\ mutex[ProcessOf[w]][key[w]] = None
    /\ mutex' = [mutex EXCEPT ![ProcessOf[w]][key[w]] = w]
    /\ look' = [look EXCEPT ![w] = 2]
    /\ Goto(w, "exists")
    /\ UNCHANGED <<key, read, todo, victims, attempt, owned, free, slot, disk, lock, counts>>

AcquireSlot(w) ==
    /\ At(w, "slot") /\ free[ProcessOf[w]] > 0
    /\ free' = [free EXCEPT ![ProcessOf[w]] = @ - 1]
    /\ slot' = slot \union {w}
    /\ Goto(w, "lock")
    /\ UNCHANGED <<key, look, read, todo, victims, attempt, owned, mutex, disk, lock, counts>>

\* Mutant: the third look is skipped.
CreateLockOnly(w) ==
    /\ At(w, "lock") /\ attempt[w] < MaxAttempts /\ lock[key[w]] = None
    /\ lock' = [lock EXCEPT ![key[w]] = [by |-> w, old |-> FALSE]]
    /\ owned' = [owned EXCEPT ![w] = TRUE]
    /\ look' = [look EXCEPT ![w] = 3]
    /\ Goto(w, "compile")
    /\ UNCHANGED <<key, read, todo, victims, attempt, mutex, free, slot, disk, counts>>

\* Mutant: a directory that is there already is taken for one's own.
CreateLockAnyway(w) ==
    /\ At(w, "lock") /\ attempt[w] < MaxAttempts
    /\ lock' = [lock EXCEPT ![key[w]] = [by |-> w, old |-> FALSE]]
    /\ owned' = [owned EXCEPT ![w] = TRUE]
    /\ look' = [look EXCEPT ![w] = 3]
    /\ Goto(w, "exists")
    /\ UNCHANGED <<key, read, todo, victims, attempt, mutex, free, slot, disk, counts>>

CreateLock(w) ==
    /\ At(w, "lock") /\ attempt[w] < MaxAttempts /\ lock[key[w]] = None
    /\ lock' = [lock EXCEPT ![key[w]] = [by |-> w, old |-> FALSE]]
    /\ owned' = [owned EXCEPT ![w] = TRUE]
    /\ look' = [look EXCEPT ![w] = 3]
    /\ Goto(w, "exists")
    /\ UNCHANGED <<key, read, todo, victims, attempt, mutex, free, slot, disk, counts>>

LockTaken(w) ==
    /\ At(w, "lock") /\ attempt[w] < MaxAttempts /\ lock[key[w]] # None
    /\ Goto(w, "stat")
    /\ UNCHANGED <<key, look, read, todo, victims, attempt, owned, shared, counts>>

\* Mutant: waiting for a lock that is there does not count as an attempt.
StatUncounted(w) ==
    /\ At(w, "stat")
    /\ Goto(w, IF lock[key[w]] # None /\ lock[key[w]].old THEN "steal" ELSE "lock")
    /\ UNCHANGED <<key, look, read, todo, victims, attempt, owned, shared, counts>>

\* last_write_time: an old directory is to be removed, for any other w sleeps.
Stat(w) ==
    /\ At(w, "stat")
    /\ IF lock[key[w]] # None /\ lock[key[w]].old
       THEN Goto(w, "steal") /\ attempt' = attempt
       ELSE Goto(w, "lock") /\ attempt' = [attempt EXCEPT ![w] = @ + 1]
    /\ UNCHANGED <<key, look, read, todo, victims, owned, shared, counts>>

\* remove_all takes what has the name by now.
Steal(w) ==
    /\ At(w, "steal")
    /\ lock' = [lock EXCEPT ![key[w]] = None]
    /\ stolen' = IF Held(key[w]) THEN stolen \union {key[w]} ELSE stolen
    /\ attempt' = [attempt EXCEPT ![w] = @ + 1]
    /\ Goto(w, "lock")
    /\ UNCHANGED <<key, look, read, todo, victims, owned, mutex, free, slot, disk,
                   compiles, requests, crashes, errors>>

LockTimeout(w) ==
    /\ At(w, "lock") /\ attempt[w] >= MaxAttempts
    /\ Return(w)
    /\ UNCHANGED <<todo, victims, disk, compiles, requests, crashes, errors>>

-----------------------------------------------------------------------------
(* Compiling and publishing *)

Compile(w) ==
    /\ At(w, "compile")
    /\ compiles' = compiles + 1
    /\ read' = [read EXCEPT ![w] = Compiled(compiles + 1)]
    /\ todo' = [todo EXCEPT ![w] = Files]
    /\ Goto(w, "publish")
    /\ UNCHANGED <<key, look, victims, attempt, owned, shared,
                   requests, crashes, errors, stolen>>

\* Mutant: a failing compile returns without its slot.
CompileFailsWithSlot(w) ==
    /\ At(w, "compile") /\ errors < MaxErrors
    /\ errors' = errors + 1
    /\ Goto(w, "idle")
    /\ lock' = IF owned[w] THEN [lock EXCEPT ![key[w]] = None] ELSE lock
    /\ owned' = [owned EXCEPT ![w] = FALSE]
    /\ mutex' = [mutex EXCEPT ![ProcessOf[w]][key[w]] = None]
    /\ attempt' = [attempt EXCEPT ![w] = 0] /\ look' = [look EXCEPT ![w] = 0]
    /\ slot' = slot \ {w}
    /\ UNCHANGED <<key, read, todo, victims, free, disk, compiles, requests, crashes, stolen>>

CompileFails(w) ==
    /\ At(w, "compile") /\ errors < MaxErrors
    /\ errors' = errors + 1
    /\ Return(w)
    /\ UNCHANGED <<todo, victims, disk, compiles, requests, crashes>>

Publish(w) ==
    /\ At(w, "publish")
    /\ disk' = [disk EXCEPT ![key[w]][Head(todo[w])] = read[w][Head(todo[w])]]
    /\ todo' = [todo EXCEPT ![w] = Tail(@)]
    /\ Goto(w, IF Len(todo[w]) = 1 THEN "trim" ELSE "publish")
    /\ UNCHANGED <<key, look, read, victims, attempt, owned,
                   mutex, free, slot, lock, counts>>

\* A rename that fails leaves the files renamed before it.
PublishFails(w) ==
    /\ At(w, "publish") /\ errors < MaxErrors
    /\ errors' = errors + 1
    /\ todo' = [todo EXCEPT ![w] = <<>>]
    /\ Return(w)
    /\ UNCHANGED <<victims, disk, compiles, requests, crashes>>

-----------------------------------------------------------------------------
(* enforce_cache_limit, under no lock of the entries it removes *)

Listed == {k \in Keys : \A f \in FileNames : disk[k][f] # None}

\* The oldest entries beyond the limit; any may be the oldest.
Trim(w) ==
    /\ At(w, "trim")
    /\ \/ Cardinality(Listed) <= Limit /\ Return(w) /\ UNCHANGED <<victims, todo>>
       \/ /\ Cardinality(Listed) > Limit
          /\ \E old \in SUBSET Listed :
               /\ Cardinality(old) = Cardinality(Listed) - Limit
               /\ victims' = [victims EXCEPT ![w] = old]
          /\ todo' = [todo EXCEPT ![w] = Removals]
          /\ Goto(w, "evict")
          /\ UNCHANGED <<key, look, read, attempt, owned, mutex, free, slot, lock, stolen>>
    /\ UNCHANGED <<disk, compiles, requests, crashes, errors>>

Evict(w) ==
    /\ At(w, "evict")
    /\ LET k    == CHOOSE v \in victims[w] : TRUE
           last == Len(todo[w]) = 1
       IN  /\ disk' = [disk EXCEPT ![k][Head(todo[w])] = None]
           /\ victims' = IF last THEN [victims EXCEPT ![w] = @ \ {k}] ELSE victims
           /\ todo' = [todo EXCEPT ![w] = IF last /\ victims[w] # {k} THEN Removals ELSE Tail(@)]
           /\ IF last /\ victims[w] = {k} THEN Return(w)
              ELSE UNCHANGED <<pc, key, look, read, attempt, owned, mutex, free, slot, lock, stolen>>
    /\ UNCHANGED <<compiles, requests, crashes, errors>>

-----------------------------------------------------------------------------
(* The machine around the service *)

\* A process dies and is started again: what it held in memory is gone, what
\* it left in the directory is not.
Crash(p) ==
    LET gone == {w \in Workers : ProcessOf[w] = p}
        Reset(f, v) == [w \in Workers |-> IF w \in gone THEN v ELSE f[w]]
    IN  /\ crashes < MaxCrashes /\ \E w \in gone : pc[w] # "idle"
        /\ crashes' = crashes + 1
        /\ pc' = Reset(pc, "idle") /\ look' = Reset(look, 0)
        /\ read' = Reset(read, Nothing) /\ todo' = Reset(todo, <<>>)
        /\ victims' = Reset(victims, {}) /\ attempt' = Reset(attempt, 0)
        /\ owned' = Reset(owned, FALSE)
        /\ mutex' = [mutex EXCEPT ![p] = [k \in Keys |-> None]]
        /\ free' = [free EXCEPT ![p] = Jobs]
        /\ slot' = slot \ gone
        /\ key' = Reset(key, AnyKey)
        /\ UNCHANGED <<disk, lock, compiles, requests, errors, stolen>>

\* Ten minutes pass.
Age(k) ==
    /\ lock[k] # None /\ ~lock[k].old
    /\ SlowCompiles \/ ~Held(k)
    /\ lock' = [lock EXCEPT ![k].old = TRUE]
    /\ UNCHANGED <<local, mutex, free, slot, disk, counts>>

-----------------------------------------------------------------------------
Init ==
    /\ pc = [w \in Workers |-> "idle"]
    /\ key = [w \in Workers |-> AnyKey]
    /\ look = [w \in Workers |-> 0]
    /\ read = [w \in Workers |-> Nothing]
    /\ todo = [w \in Workers |-> <<>>] /\ victims = [w \in Workers |-> {}]
    /\ attempt = [w \in Workers |-> 0] /\ owned = [w \in Workers |-> FALSE]
    /\ mutex = [p \in Processes |-> [k \in Keys |-> None]]
    /\ free = [p \in Processes |-> Jobs] /\ slot = {}
    /\ disk = [k \in Keys |-> IF k \in Cached THEN Compiled(0) ELSE Nothing]
    /\ lock = [k \in Keys |-> None]
    /\ compiles = 0 /\ requests = 0 /\ crashes = 0 /\ errors = 0
    /\ stolen = {}

\* What the service does for a request; errors are not its doing.
Serve(w) ==
    \/ Exists(w) \/ ReadFile(w, "artifact", "manifest") \/ ReadFile(w, "manifest", "complete")
    \/ ReadMarker(w) \/ Clean(w)
    \/ KeyMutex(w) \/ AcquireSlot(w) \/ CreateLock(w) \/ LockTaken(w) \/ Stat(w)
    \/ Steal(w) \/ LockTimeout(w)
    \/ Compile(w) \/ Publish(w) \/ Trim(w) \/ Evict(w)

Next == \/ \E w \in Workers : \/ Serve(w) \/ CompileFails(w) \/ PublishFails(w)
                              \/ \E k \in Keys : Request(w, k)
        \/ \E p \in Processes : Crash(p)
        \/ \E k \in Keys : Age(k)

\* Every thread runs, and the compiler command ends.
Spec == Init /\ [][Next]_vars /\ \A w \in Workers : WF_vars(Serve(w))

-----------------------------------------------------------------------------
Places == {"idle", "exists", "artifact", "manifest", "complete", "clean", "mutex", "slot",
           "lock", "stat", "steal", "compile", "publish", "trim", "evict"}

\* A file may be missing; a marker holds two numbers, the others one.
Contents(c) ==
    /\ DOMAIN c = FileNames
    /\ c["complete"] \in Pairs \union {None}
    /\ \A f \in FileNames \ {"complete"} : c[f] \in Versions \union {None}

\* The slots of a process are conserved: no path through compile() keeps one.
TypeOK ==
    /\ pc \in [Workers -> Places] /\ key \in [Workers -> Keys]
    /\ look \in [Workers -> 0 .. 3] /\ (\A w \in Workers : Contents(read[w]))
    /\ todo \in [Workers -> Seq(FileNames)] /\ victims \in [Workers -> SUBSET Keys]
    /\ attempt \in [Workers -> 0 .. MaxAttempts] /\ owned \in [Workers -> BOOLEAN]
    /\ mutex \in [Processes -> [Keys -> Workers \union {None}]]
    /\ free \in [Processes -> 0 .. Jobs] /\ slot \subseteq Workers
    /\ \A p \in Processes :
         free[p] + Cardinality({w \in slot : ProcessOf[w] = p}) = Jobs
    /\ \A k \in Keys : Contents(disk[k])
    /\ lock \in [Keys -> [by : Workers, old : BOOLEAN] \union {None}]
    /\ compiles \in 0 .. MaxRequests /\ requests \in 0 .. MaxRequests
    /\ crashes \in 0 .. MaxCrashes /\ errors \in 0 .. MaxErrors
    /\ stolen \subseteq Keys

\* "A second service instance cannot observe a partial or mixed artifact/manifest
\* pair": what load_cached accepts comes from one compile, although the files
\* are renamed and removed one by one while it reads them.
NeverMixed ==
    \A w \in Workers :
        pc[w] = "complete" /\ Accepts(w, disk[key[w]]["complete"])
            => /\ read[w]["artifact"] # None
               /\ read[w]["artifact"] = read[w]["manifest"]

\* In the part of compile() a key's locks protect
Critical(w) == pc[w] \in {"clean", "compile", "publish"}

\* One process never compiles a key twice at a time, and two processes only
\* after a lock was removed under its owner.
CompilesAlone ==
    \A v, w \in Workers :
        v # w /\ Critical(v) /\ Critical(w) /\ key[v] = key[w]
            => ProcessOf[v] # ProcessOf[w] /\ key[w] \in stolen

\* A request that waited for another's compile reuses the artifact: under the
\* locks, no valid entry is thrown away or compiled again.
WaitsAndReuses ==
    \A w \in Workers :
        pc[w] \in {"clean", "compile"} /\ key[w] \notin stolen => ~Valid(key[w])

\* Every request is answered, whoever else crashes or is slow: no request
\* waits for a dead process's lock, nobody keeps a slot or a mutex.
Answered == \A w \in Workers : pc[w] # "idle" ~> pc[w] = "idle"
=============================================================================
