------------------------- MODULE RemoteCompilerProofs -------------------------
(***************************************************************************)
(* What the compiler service's cache promises, for any number of services, *)
(* request threads, keys and compile slots, with crashes, failing renames, *)
(* evictions and stale locks at any point: a request compiles a key alone  *)
(* unless its lock directory was taken from it, it never compiles what is  *)
(* there, no mixed pair is accepted, and no compile slot is lost or made   *)
(* up.                                                                     *)
(***************************************************************************)
EXTENDS RemoteCompiler, FiniteSetTheorems, TLAPS

\* What a file may hold, whatever the number of requests
Stuff == Nat \union (Nat \X Nat) \union {None}

Reading == {"exists", "artifact", "manifest", "complete"}

\* The types the argument needs
Shape ==
    /\ pc \in [Workers -> Places] /\ key \in [Workers -> Keys]
    /\ look \in [Workers -> 0 .. 3] /\ owned \in [Workers -> BOOLEAN]
    /\ read \in [Workers -> [FileNames -> Stuff]]
    /\ mutex \in [Processes -> [Keys -> Workers \union {None}]]
    /\ disk \in [Keys -> [FileNames -> Stuff]]
    /\ lock \in [Keys -> [by : Workers, old : BOOLEAN] \union {None}]
    /\ compiles \in Nat /\ stolen \subseteq Keys
    /\ \A w \in Workers : pc[w] \in Reading => look[w] \in 1 .. 3

Waiting == {"slot", "lock", "stat", "steal"}
Locked == {"clean", "compile", "publish", "trim", "evict"}

\* From its second look on a request holds its key's mutex.
MutexInv ==
    \A w \in Workers :
        pc[w] \in Waiting \union Locked \/ (pc[w] \in Reading /\ look[w] # 1)
            => mutex[ProcessOf[w]][key[w]] = w

\* From its third look on it owns its key's lock directory, and the directory
\* that is there is its own unless one was removed under a living owner.
OwnInv ==
    /\ \A w \in Workers :
         pc[w] \in Locked \/ (pc[w] \in Reading /\ look[w] = 3) => owned[w]
    /\ \A w \in Workers : pc[w] = "idle" => ~owned[w]
    /\ \A w \in Workers : owned[w] /\ key[w] \notin stolen
         => lock[key[w]] # None /\ lock[key[w]].by = w

\* What an owner has read of its entry is still there or was evicted, and it
\* cleans or compiles only what is not valid.
ReuseAt(w) ==
    key[w] \notin stolen =>
        /\ look[w] = 3 /\ pc[w] \in {"manifest", "complete"} =>
             disk[key[w]]["artifact"] \in {read[w]["artifact"], None}
        /\ look[w] = 3 /\ pc[w] = "complete" =>
             disk[key[w]]["manifest"] \in {read[w]["manifest"], None}
        /\ pc[w] \in {"clean", "compile"} => ~Valid(key[w])

ReuseInv == \A w \in Workers : ReuseAt(w)

Twin(c) == \E n \in Nat : c = <<n, n>>

\* Every marker is the digest of a pair from one compile.
MarkerInv ==
    /\ \A k \in Keys : disk[k]["complete"] # None => Twin(disk[k]["complete"])
    /\ \A w \in Workers : pc[w] = "publish" => Twin(read[w]["complete"])
    /\ \A w \in Workers : pc[w] \in {"manifest", "complete"} => read[w]["artifact"] # None

-----------------------------------------------------------------------------

\* What an entry may hold
LEMMA Holdings ==
    /\ None \in Stuff /\ Nothing \in [FileNames -> Stuff]
    /\ \A n \in Nat : Compiled(n + 1) \in [FileNames -> Stuff]
BY DEF Stuff, Nothing, Compiled

\* A key to fall back on
LEMMA SomeKey ==
    ASSUME Shape, NEW w \in Workers
    PROVE  key[w] \in Keys /\ AnyKey \in Keys
BY DEF Shape, AnyKey

\* Where a miss leads
LEMMA MissedAt ==
    ASSUME Shape, NEW w \in Workers, pc[w] \in Reading
    PROVE  \/ look[w] = 1 /\ Missed[look[w]] = "mutex"
           \/ look[w] = 2 /\ Missed[look[w]] = "slot"
           \/ look[w] = 3 /\ Missed[look[w]] = "compile"
<1>1. look[w] = 1 \/ look[w] = 2 \/ look[w] = 3
  BY DEF Shape
<1>2. Missed[1] = "mutex" /\ Missed[2] = "slot" /\ Missed[3] = "compile"
  BY DEF Missed
<1> QED
  BY <1>1, <1>2

\* The directory a request makes
LEMMA FreshLock ==
    ASSUME NEW w \in Workers
    PROVE  /\ [by |-> w, old |-> FALSE] \in [by : Workers, old : BOOLEAN]
           /\ [by |-> w, old |-> FALSE].by = w
           /\ [by |-> w, old |-> FALSE] # None
<1>1. [by |-> w, old |-> FALSE] \in [by : Workers, old : BOOLEAN]
  OBVIOUS
<1>2. [by |-> w, old |-> FALSE].by = w
  OBVIOUS
<1>3. None \notin [by : Workers, old : BOOLEAN]
  BY CompilerConstants
<1> QED
  BY <1>1, <1>2, <1>3

\* What Return(w) keeps of the types
Returned ==
    /\ pc \in [Workers -> Places] /\ key \in [Workers -> Keys]
    /\ look \in [Workers -> 0 .. 3] /\ owned \in [Workers -> BOOLEAN]
    /\ read \in [Workers -> [FileNames -> Stuff]]
    /\ mutex \in [Processes -> [Keys -> Workers \union {None}]]
    /\ lock \in [Keys -> [by : Workers, old : BOOLEAN] \union {None}]
    /\ stolen \subseteq Keys
    /\ \A w \in Workers : pc[w] \in Reading => look[w] \in 1 .. 3

\* Returning keeps the types.
LEMMA ReturnShape ==
    ASSUME Shape, NEW w \in Workers, Return(w)
    PROVE  Returned'
<1>1. key[w] \in Keys /\ AnyKey \in Keys
  BY SomeKey
<1>2. Nothing \in [FileNames -> Stuff]
  BY Holdings
<1>3. pc' \in [Workers -> Places] /\ \A v \in Workers : pc'[v] \in Reading => look'[v] \in 1 .. 3
  BY DEF Shape, Return, Goto, Places, Reading
<1>4. key' \in [Workers -> Keys] /\ look' \in [Workers -> 0 .. 3] /\ owned' \in [Workers -> BOOLEAN]
  BY <1>1 DEF Shape, Return
<1>5. read' \in [Workers -> [FileNames -> Stuff]]
  BY <1>2 DEF Shape, Return
<1>6. mutex' \in [Processes -> [Keys -> Workers \union {None}]]
  BY <1>1, CompilerConstants DEF Shape, Return
<1>7. lock' \in [Keys -> [by : Workers, old : BOOLEAN] \union {None}] /\ stolen' \subseteq Keys
  BY <1>1 DEF Shape, Return
<1> QED
  BY <1>3, <1>4, <1>5, <1>6, <1>7 DEF Returned

\* So does rejecting an entry.
LEMMA RejectShape ==
    ASSUME Shape, NEW w \in Workers, pc[w] \in Reading, Reject(w)
    PROVE  Returned'
<1>1. Missed[look[w]] \in {"mutex", "slot", "compile"}
  BY MissedAt
<1>2. pc' \in [Workers -> Places] /\ \A v \in Workers : pc'[v] \in Reading => look'[v] \in 1 .. 3
  BY <1>1 DEF Shape, Reject, Goto, Places, Reading
<1>3. read' \in [Workers -> [FileNames -> Stuff]]
  BY Holdings DEF Shape, Reject
<1> QED
  BY <1>2, <1>3 DEF Shape, Reject, Returned

\* Every step keeps the types.
LEMMA ShapeKept ==
    ASSUME Shape, [Next]_vars
    PROVE  Shape'
<1> USE CompilerConstants DEF Shape, Places, Reading, Returned
<1>1. ASSUME NEW w \in Workers, Exists(w) PROVE Shape'
  BY <1>1, MissedAt, Holdings DEF Exists, At, Goto, local, shared, counts
<1>2. ASSUME NEW w \in Workers, ReadFile(w, "artifact", "manifest") PROVE Shape'
  <2>1. disk' = disk /\ compiles' = compiles
    BY <1>2 DEF ReadFile
  <2>2. CASE Reject(w)
    BY <1>2, <2>1, <2>2, RejectShape DEF ReadFile, At
  <2>3. CASE ~Reject(w)
    <3>1. PICK f \in FileNames, place \in {"manifest", "complete"} :
            /\ read' = [read EXCEPT ![w][f] = disk[key[w]][f]]
            /\ pc' = [pc EXCEPT ![w] = place] /\ pc[w] \in Reading
            /\ UNCHANGED <<key, look, owned, mutex, lock, stolen>>
      BY <1>2, <2>3 DEF ReadFile, Goto, At, FileNames
    <3>2. read' \in [Workers -> [FileNames -> Stuff]]
      BY <3>1
    <3>3. pc' \in [Workers -> Places] /\ \A v \in Workers : pc'[v] \in Reading => look'[v] \in 1 .. 3
      BY <3>1
    <3> QED
      BY <2>1, <3>1, <3>2, <3>3
  <2> QED
    BY <2>2, <2>3
<1>3. ASSUME NEW w \in Workers, ReadFile(w, "manifest", "complete") PROVE Shape'
  <2>1. disk' = disk /\ compiles' = compiles
    BY <1>3 DEF ReadFile
  <2>2. CASE Reject(w)
    BY <1>3, <2>1, <2>2, RejectShape DEF ReadFile, At
  <2>3. CASE ~Reject(w)
    <3>1. PICK f \in FileNames, place \in {"manifest", "complete"} :
            /\ read' = [read EXCEPT ![w][f] = disk[key[w]][f]]
            /\ pc' = [pc EXCEPT ![w] = place] /\ pc[w] \in Reading
            /\ UNCHANGED <<key, look, owned, mutex, lock, stolen>>
      BY <1>3, <2>3 DEF ReadFile, Goto, At, FileNames
    <3>2. read' \in [Workers -> [FileNames -> Stuff]]
      BY <3>1
    <3>3. pc' \in [Workers -> Places] /\ \A v \in Workers : pc'[v] \in Reading => look'[v] \in 1 .. 3
      BY <3>1
    <3> QED
      BY <2>1, <3>1, <3>2, <3>3
  <2> QED
    BY <2>2, <2>3
<1>4. ASSUME NEW w \in Workers, ReadMarker(w) PROVE Shape'
  <2>1. disk' = disk /\ compiles' = compiles
    BY <1>4 DEF ReadMarker
  <2> QED
    BY <1>4, <2>1, RejectShape, ReturnShape DEF ReadMarker, At
<1>5. ASSUME NEW w \in Workers, Clean(w) PROVE Shape'
  BY <1>5, Holdings DEF Clean, At, Goto, local, shared, counts
<1>6. ASSUME NEW w \in Workers, KeyMutex(w) PROVE Shape'
  BY <1>6, Holdings DEF KeyMutex, At, Goto, local, shared, counts
<1>7. ASSUME NEW w \in Workers, AcquireSlot(w) PROVE Shape'
  BY <1>7, Holdings DEF AcquireSlot, At, Goto, local, shared, counts
<1>8. ASSUME NEW w \in Workers, CreateLock(w) PROVE Shape'
  BY <1>8, Holdings DEF CreateLock, At, Goto, local, shared, counts
<1>9. ASSUME NEW w \in Workers, LockTaken(w) PROVE Shape'
  <2>1. /\ pc' = [pc EXCEPT ![w] = "stat"]
        /\ UNCHANGED <<key, look, read, owned, mutex, disk, lock, compiles, stolen>>
    BY <1>9 DEF LockTaken, At, Goto, shared, counts
  <2> QED
    BY <2>1
<1>10. ASSUME NEW w \in Workers, Stat(w) PROVE Shape'
  BY <1>10, Holdings DEF Stat, At, Goto, local, shared, counts
<1>11. ASSUME NEW w \in Workers, Steal(w) PROVE Shape'
  BY <1>11, Holdings DEF Steal, At, Goto, local, shared, counts
<1>12. ASSUME NEW w \in Workers, LockTimeout(w) PROVE Shape'
  BY <1>12, ReturnShape, Holdings DEF LockTimeout, At, Goto, local, shared, counts
<1>13. ASSUME NEW w \in Workers, Compile(w) PROVE Shape'
  BY <1>13, Holdings DEF Compile, At, Goto, local, shared, counts
<1>14. ASSUME NEW w \in Workers, Publish(w) PROVE Shape'
  <2>1. disk' \in [Keys -> [FileNames -> Stuff]]
    <3>1. CASE Head(todo[w]) \in FileNames
      BY <1>14, <3>1 DEF Publish
    <3>2. CASE Head(todo[w]) \notin FileNames
      BY <1>14, <3>2 DEF Publish
    <3> QED
      BY <3>1, <3>2
  <2> QED
    BY <1>14, <2>1 DEF Publish, At, Goto, counts
<1>15. ASSUME NEW w \in Workers, Trim(w) PROVE Shape'
  BY <1>15, ReturnShape, Holdings DEF Trim, At, Goto, local, shared, counts
<1>16. ASSUME NEW w \in Workers, Evict(w) PROVE Shape'
  <2>1. disk' \in [Keys -> [FileNames -> Stuff]] /\ compiles' \in Nat
    BY <1>16, Holdings DEF Evict
  <2>2. CASE Return(w)
    BY <2>1, <2>2, ReturnShape
  <2>3. CASE UNCHANGED <<pc, key, look, read, attempt, owned, mutex, free, slot, lock, stolen>>
    BY <2>1, <2>3
  <2> QED
    BY <1>16, <2>2, <2>3 DEF Evict
<1>17. ASSUME NEW w \in Workers, CompileFails(w) PROVE Shape'
  BY <1>17, ReturnShape, Holdings DEF CompileFails, At, Goto, local, shared, counts
<1>18. ASSUME NEW w \in Workers, PublishFails(w) PROVE Shape'
  BY <1>18, ReturnShape, Holdings DEF PublishFails, At, Goto, local, shared, counts
<1>19. ASSUME NEW w \in Workers, NEW k \in Keys, Request(w, k) PROVE Shape'
  BY <1>19, SomeKey, Holdings DEF Request, At, Goto, local, shared, counts
<1>20. ASSUME NEW p \in Processes, Crash(p) PROVE Shape'
  <2>1. PICK w \in Workers : TRUE
    BY <1>20 DEF Crash
  <2>2. AnyKey \in Keys /\ Nothing \in [FileNames -> Stuff]
    BY <2>1, SomeKey, Holdings
  <2>3. read' \in [Workers -> [FileNames -> Stuff]] /\ key' \in [Workers -> Keys]
    BY <1>20, <2>2 DEF Crash
  <2>4. mutex' \in [Processes -> [Keys -> Workers \union {None}]]
    BY <1>20 DEF Crash
  <2>5. pc' \in [Workers -> Places] /\ owned' \in [Workers -> BOOLEAN]
    BY <1>20 DEF Crash
  <2>6. look' \in [Workers -> 0 .. 3]
    BY <1>20 DEF Crash
  <2>7. \A v \in Workers : pc'[v] \in Reading => look'[v] \in 1 .. 3
    BY <1>20 DEF Crash
  <2> QED
    BY <1>20, <2>3, <2>4, <2>5, <2>6, <2>7 DEF Crash
<1>21. ASSUME NEW k \in Keys, Age(k) PROVE Shape'
  BY <1>21, Holdings DEF Age, At, Goto, local, shared, counts
<1>22. CASE UNCHANGED vars
  BY <1>22 DEF vars, local, shared, counts
<1> QED
  BY <1>1, <1>2, <1>3, <1>4, <1>5, <1>6, <1>7, <1>8, <1>9, <1>10, <1>11,
     <1>12, <1>13, <1>14, <1>15, <1>16, <1>17, <1>18, <1>19, <1>20, <1>21, <1>22
     DEF Next, Serve

\* Returning lets go of one's own mutex only.
LEMMA ReturnMutex ==
    ASSUME Shape, MutexInv, NEW w \in Workers, Return(w)
    PROVE  MutexInv'
<1> QED
  BY CompilerConstants DEF Shape, MutexInv, Reading, Waiting, Locked, Return, Goto

\* Rejecting keeps the mutex.
LEMMA RejectMutex ==
    ASSUME Shape, MutexInv, NEW w \in Workers, pc[w] \in Reading, Reject(w)
    PROVE  MutexInv'
<1>1. /\ \/ look[w] = 1 /\ pc'[w] = "mutex"
         \/ look[w] = 2 /\ pc'[w] = "slot"
         \/ look[w] = 3 /\ pc'[w] = "clean"
      /\ \A v \in Workers \ {w} : pc'[v] = pc[v]
      /\ UNCHANGED <<key, look, owned, mutex, lock, stolen>>
  BY MissedAt DEF Shape, Reject, Goto
<1> QED
  BY <1>1 DEF MutexInv, Reading, Waiting, Locked

\* Every step keeps the mutexes.
LEMMA MutexKept ==
    ASSUME Shape, MutexInv, [Next]_vars
    PROVE  MutexInv'
<1> USE CompilerConstants DEF Shape, MutexInv, Reading, Waiting, Locked
<1>1. ASSUME NEW w \in Workers, Exists(w) PROVE MutexInv'
  <2>1. /\ pc[w] = "exists" /\ UNCHANGED <<key, look, owned, mutex, lock, stolen>>
        /\ \A v \in Workers \ {w} : pc'[v] = pc[v]
        /\ pc'[w] = "artifact" \/ pc'[w] = Missed[look[w]]
    BY <1>1 DEF Exists, At, Goto, shared, counts
  <2>2. \/ look[w] = 1 /\ Missed[look[w]] = "mutex"
        \/ look[w] = 2 /\ Missed[look[w]] = "slot"
        \/ look[w] = 3 /\ Missed[look[w]] = "compile"
    BY <2>1, MissedAt
  <2>3. \/ pc'[w] = "artifact"
        \/ look[w] = 1 /\ pc'[w] = "mutex"
        \/ look[w] = 2 /\ pc'[w] = "slot"
        \/ look[w] = 3 /\ pc'[w] = "compile"
    BY <2>1, <2>2
  <2> QED
    BY <2>1, <2>3
<1>2. ASSUME NEW w \in Workers, ReadFile(w, "artifact", "manifest") PROVE MutexInv'
  <2>1. CASE Reject(w)
    BY <1>2, <2>1, RejectMutex DEF ReadFile, At
  <2>2. CASE ~Reject(w)
    <3>1. /\ pc[w] \in {"artifact", "manifest"} /\ pc'[w] \in {"manifest", "complete"}
          /\ \A v \in Workers \ {w} : pc'[v] = pc[v]
          /\ UNCHANGED <<key, look, owned, mutex, lock, stolen>>
      BY <1>2, <2>2 DEF ReadFile, Goto, At
    <3> QED
      BY <3>1
  <2> QED
    BY <2>1, <2>2
<1>3. ASSUME NEW w \in Workers, ReadFile(w, "manifest", "complete") PROVE MutexInv'
  <2>1. CASE Reject(w)
    BY <1>3, <2>1, RejectMutex DEF ReadFile, At
  <2>2. CASE ~Reject(w)
    <3>1. /\ pc[w] \in {"artifact", "manifest"} /\ pc'[w] \in {"manifest", "complete"}
          /\ \A v \in Workers \ {w} : pc'[v] = pc[v]
          /\ UNCHANGED <<key, look, owned, mutex, lock, stolen>>
      BY <1>3, <2>2 DEF ReadFile, Goto, At
    <3> QED
      BY <3>1
  <2> QED
    BY <2>1, <2>2
<1>4. ASSUME NEW w \in Workers, ReadMarker(w) PROVE MutexInv'
  BY <1>4, RejectMutex, ReturnMutex DEF ReadMarker, At
<1>5. ASSUME NEW w \in Workers, Clean(w) PROVE MutexInv'
  BY <1>5 DEF Clean, At, Goto, local, shared, counts
<1>6. ASSUME NEW w \in Workers, KeyMutex(w) PROVE MutexInv'
  BY <1>6 DEF KeyMutex, At, Goto, local, shared, counts
<1>7. ASSUME NEW w \in Workers, AcquireSlot(w) PROVE MutexInv'
  BY <1>7 DEF AcquireSlot, At, Goto, local, shared, counts
<1>8. ASSUME NEW w \in Workers, CreateLock(w) PROVE MutexInv'
  BY <1>8 DEF CreateLock, At, Goto, local, shared, counts
<1>9. ASSUME NEW w \in Workers, LockTaken(w) PROVE MutexInv'
  BY <1>9 DEF LockTaken, At, Goto, local, shared, counts
<1>10. ASSUME NEW w \in Workers, Stat(w) PROVE MutexInv'
  BY <1>10 DEF Stat, At, Goto, local, shared, counts
<1>11. ASSUME NEW w \in Workers, Steal(w) PROVE MutexInv'
  BY <1>11 DEF Steal, At, Goto, local, shared, counts
<1>12. ASSUME NEW w \in Workers, LockTimeout(w) PROVE MutexInv'
  BY <1>12, ReturnMutex DEF LockTimeout, At, Goto, local, shared, counts
<1>13. ASSUME NEW w \in Workers, Compile(w) PROVE MutexInv'
  BY <1>13 DEF Compile, At, Goto, local, shared, counts
<1>14. ASSUME NEW w \in Workers, Publish(w) PROVE MutexInv'
  BY <1>14 DEF Publish, At, Goto, local, shared, counts
<1>15. ASSUME NEW w \in Workers, Trim(w) PROVE MutexInv'
  BY <1>15, ReturnMutex DEF Trim, At, Goto, local, shared, counts
<1>16. ASSUME NEW w \in Workers, Evict(w) PROVE MutexInv'
  BY <1>16, ReturnMutex DEF Evict, At, Goto, local, shared, counts
<1>17. ASSUME NEW w \in Workers, CompileFails(w) PROVE MutexInv'
  BY <1>17, ReturnMutex DEF CompileFails, At, Goto, local, shared, counts
<1>18. ASSUME NEW w \in Workers, PublishFails(w) PROVE MutexInv'
  BY <1>18, ReturnMutex DEF PublishFails, At, Goto, local, shared, counts
<1>19. ASSUME NEW w \in Workers, NEW k \in Keys, Request(w, k) PROVE MutexInv'
  BY <1>19 DEF Request, At, Goto, local, shared, counts
<1>20. ASSUME NEW p \in Processes, Crash(p) PROVE MutexInv'
  BY <1>20 DEF Crash, At, Goto, local, shared, counts
<1>21. ASSUME NEW k \in Keys, Age(k) PROVE MutexInv'
  BY <1>21 DEF Age, At, Goto, local, shared, counts
<1>22. CASE UNCHANGED vars
  BY <1>22 DEF vars, local, shared, counts
<1> QED
  BY <1>1, <1>2, <1>3, <1>4, <1>5, <1>6, <1>7, <1>8, <1>9, <1>10, <1>11,
     <1>12, <1>13, <1>14, <1>15, <1>16, <1>17, <1>18, <1>19, <1>20, <1>21, <1>22
     DEF Next, Serve

\* Returning removes a living owner's directory only into stolen.
LEMMA ReturnOwn ==
    ASSUME Shape, OwnInv, NEW w \in Workers, Return(w)
    PROVE  OwnInv'
<1> QED
  BY CompilerConstants DEF Shape, OwnInv, Reading, Locked, Held, Return, Goto

\* Rejecting keeps the directory.
LEMMA RejectOwn ==
    ASSUME Shape, OwnInv, NEW w \in Workers, pc[w] \in Reading, Reject(w)
    PROVE  OwnInv'
<1>1. /\ \/ look[w] = 1 /\ pc'[w] = "mutex"
         \/ look[w] = 2 /\ pc'[w] = "slot"
         \/ look[w] = 3 /\ pc'[w] = "clean"
      /\ \A v \in Workers \ {w} : pc'[v] = pc[v]
      /\ UNCHANGED <<key, look, owned, mutex, lock, stolen>>
  BY MissedAt DEF Shape, Reject, Goto
<1> QED
  BY <1>1 DEF OwnInv, Reading, Locked

\* Every step keeps the ownership of the lock directories.
LEMMA OwnKept ==
    ASSUME Shape, OwnInv, [Next]_vars
    PROVE  OwnInv'
<1> USE CompilerConstants DEF Shape, OwnInv, Reading, Locked, Held
<1>1. ASSUME NEW w \in Workers, Exists(w) PROVE OwnInv'
  <2>1. /\ pc[w] = "exists" /\ UNCHANGED <<key, look, owned, mutex, lock, stolen>>
        /\ \A v \in Workers \ {w} : pc'[v] = pc[v]
        /\ pc'[w] = "artifact" \/ pc'[w] = Missed[look[w]]
    BY <1>1 DEF Exists, At, Goto, shared, counts
  <2>2. \/ look[w] = 1 /\ Missed[look[w]] = "mutex"
        \/ look[w] = 2 /\ Missed[look[w]] = "slot"
        \/ look[w] = 3 /\ Missed[look[w]] = "compile"
    BY <2>1, MissedAt
  <2>3. \/ pc'[w] = "artifact"
        \/ look[w] = 1 /\ pc'[w] = "mutex"
        \/ look[w] = 2 /\ pc'[w] = "slot"
        \/ look[w] = 3 /\ pc'[w] = "compile"
    BY <2>1, <2>2
  <2> QED
    BY <2>1, <2>3
<1>2. ASSUME NEW w \in Workers, ReadFile(w, "artifact", "manifest") PROVE OwnInv'
  <2>1. CASE Reject(w)
    BY <1>2, <2>1, RejectOwn DEF ReadFile, At
  <2>2. CASE ~Reject(w)
    <3>1. /\ pc[w] \in {"artifact", "manifest"} /\ pc'[w] \in {"manifest", "complete"}
          /\ \A v \in Workers \ {w} : pc'[v] = pc[v]
          /\ UNCHANGED <<key, look, owned, mutex, lock, stolen>>
      BY <1>2, <2>2 DEF ReadFile, Goto, At
    <3> QED
      BY <3>1
  <2> QED
    BY <2>1, <2>2
<1>3. ASSUME NEW w \in Workers, ReadFile(w, "manifest", "complete") PROVE OwnInv'
  <2>1. CASE Reject(w)
    BY <1>3, <2>1, RejectOwn DEF ReadFile, At
  <2>2. CASE ~Reject(w)
    <3>1. /\ pc[w] \in {"artifact", "manifest"} /\ pc'[w] \in {"manifest", "complete"}
          /\ \A v \in Workers \ {w} : pc'[v] = pc[v]
          /\ UNCHANGED <<key, look, owned, mutex, lock, stolen>>
      BY <1>3, <2>2 DEF ReadFile, Goto, At
    <3> QED
      BY <3>1
  <2> QED
    BY <2>1, <2>2
<1>4. ASSUME NEW w \in Workers, ReadMarker(w) PROVE OwnInv'
  BY <1>4, RejectOwn, ReturnOwn DEF ReadMarker, At
<1>5. ASSUME NEW w \in Workers, Clean(w) PROVE OwnInv'
  BY <1>5 DEF Clean, At, Goto, local, shared, counts
<1>6. ASSUME NEW w \in Workers, KeyMutex(w) PROVE OwnInv'
  BY <1>6 DEF KeyMutex, At, Goto, local, shared, counts
<1>7. ASSUME NEW w \in Workers, AcquireSlot(w) PROVE OwnInv'
  BY <1>7 DEF AcquireSlot, At, Goto, local, shared, counts
<1>8. ASSUME NEW w \in Workers, CreateLock(w) PROVE OwnInv'
  <2> DEFINE mine == [by |-> w, old |-> FALSE]
  <2>1. mine.by = w /\ mine # None
    BY FreshLock
  <2>2. lock' = [lock EXCEPT ![key[w]] = mine]
    BY <1>8 DEF CreateLock
  <2> HIDE DEF mine
  <2>3. /\ pc' = [pc EXCEPT ![w] = "exists"] /\ look' = [look EXCEPT ![w] = 3]
        /\ owned' = [owned EXCEPT ![w] = TRUE]
        /\ UNCHANGED <<key, stolen>> /\ lock[key[w]] = None
    BY <1>8 DEF CreateLock, Goto, counts
  <2>4. \A v \in Workers : /\ pc'[v] \in Locked \/ (pc'[v] \in Reading /\ look'[v] = 3) => owned'[v]
                           /\ pc'[v] = "idle" => ~owned'[v]
    BY <2>3
  <2>5. ASSUME NEW v \in Workers, owned'[v], key'[v] \notin stolen'
        PROVE  lock'[key'[v]] # None /\ lock'[key'[v]].by = v
    <3>1. CASE v = w
      BY <2>1, <2>2, <2>3, <3>1
    <3>2. CASE v # w
      <4>1. owned[v] /\ key[v] \notin stolen
        BY <2>3, <2>5, <3>2
      <4>2. key[v] # key[w]
        BY <2>3, <4>1
      <4> QED
        BY <2>2, <2>3, <4>1, <4>2
    <3> QED
      BY <3>1, <3>2
  <2> QED
    BY <2>4, <2>5
<1>9. ASSUME NEW w \in Workers, LockTaken(w) PROVE OwnInv'
  BY <1>9 DEF LockTaken, At, Goto, local, shared, counts
<1>10. ASSUME NEW w \in Workers, Stat(w) PROVE OwnInv'
  BY <1>10 DEF Stat, At, Goto, local, shared, counts
<1>11. ASSUME NEW w \in Workers, Steal(w) PROVE OwnInv'
  BY <1>11 DEF Steal, At, Goto, local, shared, counts
<1>12. ASSUME NEW w \in Workers, LockTimeout(w) PROVE OwnInv'
  BY <1>12, ReturnOwn DEF LockTimeout, At, Goto, local, shared, counts
<1>13. ASSUME NEW w \in Workers, Compile(w) PROVE OwnInv'
  BY <1>13 DEF Compile, At, Goto, local, shared, counts
<1>14. ASSUME NEW w \in Workers, Publish(w) PROVE OwnInv'
  BY <1>14 DEF Publish, At, Goto, local, shared, counts
<1>15. ASSUME NEW w \in Workers, Trim(w) PROVE OwnInv'
  BY <1>15, ReturnOwn DEF Trim, At, Goto, local, shared, counts
<1>16. ASSUME NEW w \in Workers, Evict(w) PROVE OwnInv'
  BY <1>16, ReturnOwn DEF Evict, At, Goto, local, shared, counts
<1>17. ASSUME NEW w \in Workers, CompileFails(w) PROVE OwnInv'
  BY <1>17, ReturnOwn DEF CompileFails, At, Goto, local, shared, counts
<1>18. ASSUME NEW w \in Workers, PublishFails(w) PROVE OwnInv'
  BY <1>18, ReturnOwn DEF PublishFails, At, Goto, local, shared, counts
<1>19. ASSUME NEW w \in Workers, NEW k \in Keys, Request(w, k) PROVE OwnInv'
  BY <1>19 DEF Request, At, Goto, local, shared, counts
<1>20. ASSUME NEW p \in Processes, Crash(p) PROVE OwnInv'
  BY <1>20 DEF Crash, At, Goto, local, shared, counts
<1>21. ASSUME NEW k \in Keys, Age(k) PROVE OwnInv'
  <2>1. /\ lock[k] \in [by : Workers, old : BOOLEAN]
        /\ lock' = [lock EXCEPT ![k] = [lock[k] EXCEPT !.old = TRUE]]
    BY <1>21 DEF Age
  <2>2. /\ [lock[k] EXCEPT !.old = TRUE] \in [by : Workers, old : BOOLEAN]
        /\ [lock[k] EXCEPT !.old = TRUE].by = lock[k].by
    BY <2>1
  <2>3. \A v \in Workers : lock[key[v]] # None =>
          lock'[key[v]] # None /\ lock'[key[v]].by = lock[key[v]].by
    BY <2>1, <2>2
  <2> QED
    BY <1>21, <2>3 DEF Age, local, counts
<1>22. CASE UNCHANGED vars
  BY <1>22 DEF vars, local, shared, counts
<1> QED
  BY <1>1, <1>2, <1>3, <1>4, <1>5, <1>6, <1>7, <1>8, <1>9, <1>10, <1>11,
     <1>12, <1>13, <1>14, <1>15, <1>16, <1>17, <1>18, <1>19, <1>20, <1>21, <1>22
     DEF Next, Serve

\* Two owners of one key know that a lock was stolen.
LEMMA OneOwner ==
    ASSUME Shape, OwnInv, NEW v \in Workers, NEW w \in Workers,
           owned[v], owned[w], key[v] = key[w], key[w] \notin stolen
    PROVE  v = w
BY DEF OwnInv

\* No step forgets a theft.
LEMMA StolenStays ==
    ASSUME [Next]_vars
    PROVE  stolen \subseteq stolen'
<1>1. ASSUME NEW w \in Workers, Return(w) \/ Reject(w) PROVE stolen \subseteq stolen'
  BY <1>1 DEF Return, Reject
<1>2. ASSUME NEW w \in Workers,
             \/ Exists(w) \/ Clean(w) \/ KeyMutex(w) \/ AcquireSlot(w) \/ CreateLock(w)
             \/ LockTaken(w) \/ Stat(w) \/ Steal(w) \/ Compile(w) \/ Publish(w)
      PROVE  stolen \subseteq stolen'
  BY <1>2 DEF Exists, Clean, KeyMutex, AcquireSlot, CreateLock, LockTaken, Stat, Steal, Compile,
              Publish, counts
<1>3. ASSUME NEW w \in Workers,
             \/ ReadFile(w, "artifact", "manifest") \/ ReadFile(w, "manifest", "complete")
             \/ ReadMarker(w) \/ LockTimeout(w) \/ CompileFails(w) \/ PublishFails(w)
             \/ Trim(w) \/ Evict(w)
      PROVE  stolen \subseteq stolen'
  BY <1>1, <1>3 DEF ReadFile, ReadMarker, LockTimeout, CompileFails, PublishFails, Trim, Evict
<1>4. ASSUME NEW w \in Workers, NEW k \in Keys, Request(w, k) PROVE stolen \subseteq stolen'
  BY <1>4 DEF Request
<1>5. ASSUME NEW p \in Processes, Crash(p) PROVE stolen \subseteq stolen'
  BY <1>5 DEF Crash
<1>6. ASSUME NEW k \in Keys, Age(k) PROVE stolen \subseteq stolen'
  BY <1>6 DEF Age, counts
<1>7. CASE UNCHANGED vars
  BY <1>7 DEF vars, counts
<1> QED
  BY <1>2, <1>3, <1>4, <1>5, <1>6, <1>7 DEF Next, Serve

\* Files only disappear.
Loses == \A k \in Keys : \A f \in FileNames : disk'[k][f] \in {disk[k][f], None}

\* What another request does to files of an entry does not invalidate what this
\* one knows as long as it only removes them.
LEMMA ReuseOthers ==
    ASSUME Shape, Shape', ReuseInv, Loses, stolen \subseteq stolen',
           NEW v \in Workers, pc'[v] = pc[v], key'[v] = key[v], look'[v] = look[v],
           read'[v] = read[v]
    PROVE  ReuseAt(v)'
<1> DEFINE d == disk[key[v]]
           e == disk'[key[v]]
<1>1. key[v] \in Keys /\ \A f \in FileNames : e[f] \in {d[f], None}
  BY DEF Shape, Loses
<1>2. /\ e["artifact"] \in {d["artifact"], None} /\ e["manifest"] \in {d["manifest"], None}
      /\ e["complete"] \in {d["complete"], None}
  BY <1>1 DEF FileNames
<1>3. ~Valid(key[v]) => ~Valid(key[v])'
  BY <1>1, <1>2 DEF Valid, FileNames
<1> QED
  BY <1>2, <1>3 DEF ReuseInv, ReuseAt

\* What everybody but w sees of a step of w
Apart(w) == \A v \in Workers \ {w} :
    /\ pc'[v] = pc[v] /\ key'[v] = key[v] /\ look'[v] = look[v] /\ read'[v] = read[v]

\* A step of w that only removes files
LEMMA ReuseFrom ==
    ASSUME Shape, Shape', ReuseInv, [Next]_vars, NEW w \in Workers, Apart(w), Loses, ReuseAt(w)'
    PROVE  ReuseInv'
<1>1. ASSUME NEW v \in Workers, v # w PROVE ReuseAt(v)'
  BY <1>1, ReuseOthers, StolenStays DEF Apart
<1> QED
  BY <1>1 DEF ReuseInv

\* Returning leaves nothing to know.
LEMMA ReturnReuse ==
    ASSUME Shape, Shape', ReuseInv, [Next]_vars, NEW w \in Workers, Return(w), Loses
    PROVE  ReuseInv'
<1>1. Apart(w)
  BY DEF Shape, Return, Goto, Apart
<1>2. ReuseAt(w)'
  BY DEF Shape, Return, Goto, ReuseAt
<1> QED
  BY <1>1, <1>2, ReuseFrom

\* A request that has just rejected its entry under the lock knows it is invalid.
LEMMA RejectReuse ==
    ASSUME Shape, Shape', ReuseInv, [Next]_vars, NEW w \in Workers, Reject(w), disk' = disk,
           pc[w] \in Reading, look[w] = 3 /\ key[w] \notin stolen => ~Valid(key[w])
    PROVE  ReuseInv'
<1>1. Apart(w) /\ Loses
  BY DEF Shape, Reject, Goto, Apart, Loses
<1>2. key'[w] = key[w] /\ stolen' = stolen /\ look'[w] = look[w]
  BY DEF Reject
<1>3. pc'[w] \in {"mutex", "slot", "compile", "clean"}
      /\ (pc'[w] \in {"compile", "clean"} => look[w] = 3)
  BY MissedAt DEF Shape, Reject, Goto
<1>4. Valid(key[w])' <=> Valid(key[w])
  BY <1>2 DEF Valid
<1> QED
  BY <1>1, <1>2, <1>3, <1>4, ReuseFrom DEF ReuseAt

\* Every step keeps what owners know of their entries.
LEMMA ReuseKept ==
    ASSUME Shape, Shape', OwnInv, ReuseInv, [Next]_vars
    PROVE  ReuseInv'
<1> USE CompilerConstants
<1>1. ASSUME NEW w \in Workers, Exists(w) PROVE ReuseInv'
  <2>1. Apart(w) /\ Loses
    BY <1>1 DEF Shape, Exists, Goto, Apart, Loses, shared
  <2>2. CASE \E f \in FileNames : disk[key[w]][f] = None
    <3>1. ~Valid(key[w])'
      BY <1>1, <2>2 DEF Exists, Valid, shared
    <3>2. pc'[w] \notin {"manifest", "complete"}
      BY <1>1, <2>2, MissedAt DEF Shape, Exists, At, Goto, Reading
    <3> QED
      BY <2>1, <3>1, <3>2, ReuseFrom DEF ReuseAt
  <2>3. CASE ~ \E f \in FileNames : disk[key[w]][f] = None
    <3>1. pc'[w] = "artifact"
      BY <1>1, <2>3 DEF Shape, Exists, Goto
    <3> QED
      BY <2>1, <3>1, ReuseFrom DEF ReuseAt
  <2> QED
    BY <2>2, <2>3
<1>2. ASSUME NEW w \in Workers, ReadFile(w, "artifact", "manifest") PROVE ReuseInv'
  <2>1. pc[w] = "artifact" /\ disk' = disk /\ pc[w] \in Reading
    BY <1>2 DEF ReadFile, At, Reading
  <2>2. CASE disk[key[w]]["artifact"] = None
    <3>1. ~Valid(key[w])
      BY <2>2 DEF Valid, FileNames
    <3> QED
      BY <1>2, <2>1, <2>2, <3>1, RejectReuse DEF ReadFile
  <2>3. CASE disk[key[w]]["artifact"] # None
    <3>1. /\ read' = [read EXCEPT ![w]["artifact"] = disk[key[w]]["artifact"]]
          /\ pc' = [pc EXCEPT ![w] = "manifest"] /\ UNCHANGED <<key, look, stolen>>
      BY <1>2, <2>3 DEF ReadFile, Goto
    <3>2. Apart(w) /\ Loses
      BY <2>1, <3>1 DEF Shape, Apart, Loses
    <3>3. read'[w]["artifact"] = disk[key[w]]["artifact"]
      BY <3>1 DEF Shape, FileNames
    <3> QED
      BY <2>1, <3>1, <3>2, <3>3, ReuseFrom DEF Shape, ReuseInv, ReuseAt
  <2> QED
    BY <2>2, <2>3
<1>3. ASSUME NEW w \in Workers, ReadFile(w, "manifest", "complete") PROVE ReuseInv'
  <2>1. pc[w] = "manifest" /\ disk' = disk /\ pc[w] \in Reading
    BY <1>3 DEF ReadFile, At, Reading
  <2>2. CASE disk[key[w]]["manifest"] = None
    <3>1. ~Valid(key[w])
      BY <2>2 DEF Valid, FileNames
    <3> QED
      BY <1>3, <2>1, <2>2, <3>1, RejectReuse DEF ReadFile
  <2>3. CASE disk[key[w]]["manifest"] # None
    <3>1. /\ read' = [read EXCEPT ![w]["manifest"] = disk[key[w]]["manifest"]]
          /\ pc' = [pc EXCEPT ![w] = "complete"] /\ UNCHANGED <<key, look, stolen>>
      BY <1>3, <2>3 DEF ReadFile, Goto
    <3>2. Apart(w) /\ Loses
      BY <2>1, <3>1 DEF Shape, Apart, Loses
    <3>3. read'[w]["manifest"] = disk[key[w]]["manifest"] /\ read'[w]["artifact"] = read[w]["artifact"]
      BY <3>1 DEF Shape, FileNames
    <3> QED
      BY <2>1, <3>1, <3>2, <3>3, ReuseFrom DEF Shape, ReuseInv, ReuseAt
  <2> QED
    BY <2>2, <2>3
<1>4. ASSUME NEW w \in Workers, ReadMarker(w) PROVE ReuseInv'
  <2>1. pc[w] = "complete" /\ disk' = disk /\ pc[w] \in Reading
    BY <1>4 DEF ReadMarker, At, Reading
  <2>2. CASE Return(w)
    BY <2>1, <2>2, ReturnReuse DEF Loses
  <2>3. CASE Reject(w) /\ ~Accepts(w, disk[key[w]]["complete"])
    <3>1. look[w] = 3 /\ key[w] \notin stolen => ~Valid(key[w])
      BY <2>1, <2>3 DEF ReuseInv, ReuseAt, Accepts, Valid, FileNames
    <3> QED
      BY <2>1, <2>3, <3>1, RejectReuse
  <2> QED
    BY <1>4, <2>2, <2>3 DEF ReadMarker
<1>5. ASSUME NEW w \in Workers, Clean(w) PROVE ReuseInv'
  <2>1. Loses /\ Apart(w)
    BY <1>5 DEF Shape, Clean, Goto, Apart, Loses
  <2>2. ASSUME NEW f \in FileNames PROVE disk'[key[w]][f] \in {disk[key[w]][f], None}
    BY <2>1 DEF Shape, Loses
  <2>3. pc[w] = "clean" /\ pc'[w] \in {"compile", "clean"} /\ UNCHANGED <<key, look, read, stolen>>
    BY <1>5 DEF Shape, Clean, At, Goto, counts
  <2>4. /\ disk'[key[w]]["artifact"] \in {disk[key[w]]["artifact"], None}
        /\ disk'[key[w]]["manifest"] \in {disk[key[w]]["manifest"], None}
        /\ disk'[key[w]]["complete"] \in {disk[key[w]]["complete"], None}
    BY <2>2 DEF FileNames
  <2>5. ~Valid(key[w]) => ~Valid(key[w])'
    BY <2>2, <2>3, <2>4 DEF Valid, FileNames
  <2>6. ReuseAt(w)'
    BY <2>3, <2>5 DEF ReuseInv, ReuseAt
  <2> QED
    BY <2>1, <2>6, ReuseFrom
<1>6. ASSUME NEW w \in Workers, KeyMutex(w) PROVE ReuseInv'
  <2>1. Apart(w) /\ Loses
    BY <1>6 DEF Shape, KeyMutex, Goto, Apart, Loses, shared
  <2>2. ReuseAt(w)'
    BY <1>6 DEF Shape, KeyMutex, At, Goto, ReuseAt
  <2> QED
    BY <2>1, <2>2, ReuseFrom
<1>7. ASSUME NEW w \in Workers, AcquireSlot(w) PROVE ReuseInv'
  <2>1. Apart(w) /\ Loses
    BY <1>7 DEF Shape, AcquireSlot, Goto, Apart, Loses, shared
  <2>2. ReuseAt(w)'
    BY <1>7 DEF Shape, AcquireSlot, At, Goto, ReuseAt
  <2> QED
    BY <2>1, <2>2, ReuseFrom
<1>8. ASSUME NEW w \in Workers, CreateLock(w) PROVE ReuseInv'
  <2>1. Apart(w) /\ Loses
    BY <1>8 DEF Shape, CreateLock, Goto, Apart, Loses, shared
  <2>2. ReuseAt(w)'
    BY <1>8 DEF Shape, CreateLock, At, Goto, ReuseAt
  <2> QED
    BY <2>1, <2>2, ReuseFrom
<1>9. ASSUME NEW w \in Workers, LockTaken(w) PROVE ReuseInv'
  <2>1. Apart(w) /\ Loses
    BY <1>9 DEF Shape, LockTaken, Goto, Apart, Loses, shared
  <2>2. ReuseAt(w)'
    BY <1>9 DEF Shape, LockTaken, At, Goto, ReuseAt
  <2> QED
    BY <2>1, <2>2, ReuseFrom
<1>10. ASSUME NEW w \in Workers, Stat(w) PROVE ReuseInv'
  <2>1. Apart(w) /\ Loses
    BY <1>10 DEF Shape, Stat, Goto, Apart, Loses, shared
  <2>2. ReuseAt(w)'
    BY <1>10 DEF Shape, Stat, At, Goto, ReuseAt
  <2> QED
    BY <2>1, <2>2, ReuseFrom
<1>11. ASSUME NEW w \in Workers, Steal(w) PROVE ReuseInv'
  <2>1. Apart(w) /\ Loses
    BY <1>11 DEF Shape, Steal, Goto, Apart, Loses, shared
  <2>2. ReuseAt(w)'
    BY <1>11 DEF Shape, Steal, At, Goto, ReuseAt
  <2> QED
    BY <2>1, <2>2, ReuseFrom
<1>12. ASSUME NEW w \in Workers, LockTimeout(w) PROVE ReuseInv'
  <2>1. Return(w) /\ disk' = disk
    BY <1>12 DEF LockTimeout
  <2> QED
    BY <2>1, ReturnReuse DEF Loses
<1>13. ASSUME NEW w \in Workers, Compile(w) PROVE ReuseInv'
  <2>1. Apart(w) /\ Loses
    BY <1>13 DEF Shape, Compile, Goto, Apart, Loses, shared
  <2>2. ReuseAt(w)'
    BY <1>13 DEF Shape, Compile, At, Goto, ReuseAt
  <2> QED
    BY <2>1, <2>2, ReuseFrom
<1>14. ASSUME NEW w \in Workers, Publish(w) PROVE ReuseInv'
  <2>1. /\ pc[w] = "publish" /\ pc'[w] \in {"trim", "publish"} /\ owned[w]
        /\ UNCHANGED <<key, look, read, stolen>>
    BY <1>14 DEF Shape, Publish, At, Goto, counts, OwnInv, Locked
  <2>2. ReuseAt(w)'
    BY <2>1 DEF ReuseAt
  <2>3. ASSUME NEW v \in Workers, v # w PROVE ReuseAt(v)'
    <3>1. pc'[v] = pc[v]
      BY <1>14, <2>3 DEF Shape, Publish, Goto
    <3>2. CASE key[v] = key[w] /\ key[v] \notin stolen
      <4>1. ~owned[v]
        BY <2>1, <2>3, <3>2, OneOwner
      <4>2. ~(pc[v] \in Locked) /\ ~(pc[v] \in Reading /\ look[v] = 3)
        BY <4>1 DEF OwnInv
      <4> QED
        BY <2>1, <3>1, <4>2 DEF ReuseAt, Locked, Reading
    <3>3. CASE key[v] # key[w]
      <4>1. disk'[key[v]] = disk[key[v]]
        BY <1>14, <3>3 DEF Shape, Publish
      <4>2. Valid(key[v])' <=> Valid(key[v])
        BY <2>1, <4>1 DEF Valid
      <4> QED
        BY <2>1, <3>1, <4>1, <4>2 DEF ReuseInv, ReuseAt
    <3>4. CASE key[v] \in stolen
      BY <2>1, <3>4 DEF ReuseAt
    <3> QED
      BY <3>2, <3>3, <3>4
  <2> QED
    BY <2>2, <2>3 DEF ReuseInv
<1>15. ASSUME NEW w \in Workers, Trim(w) PROVE ReuseInv'
  <2>1. disk' = disk
    BY <1>15 DEF Trim
  <2>2. CASE Return(w)
    BY <2>1, <2>2, ReturnReuse DEF Loses
  <2>3. CASE ~Return(w)
    <3>1. pc' = [pc EXCEPT ![w] = "evict"] /\ UNCHANGED <<key, look, read, stolen>>
      BY <1>15, <2>3 DEF Trim, Goto
    <3>2. Apart(w) /\ Loses
      BY <2>1, <3>1 DEF Shape, Apart, Loses
    <3>3. ReuseAt(w)'
      BY <3>1 DEF Shape, ReuseAt
    <3> QED
      BY <3>2, <3>3, ReuseFrom
  <2> QED
    BY <2>2, <2>3
<1>16. ASSUME NEW w \in Workers, Evict(w) PROVE ReuseInv'
  <2>1. Loses
    BY <1>16 DEF Shape, Evict, Loses
  <2>2. CASE Return(w)
    BY <2>1, <2>2, ReturnReuse
  <2>3. CASE UNCHANGED <<pc, key, look, read, attempt, owned, mutex, free, slot, lock, stolen>>
    <3>1. Apart(w)
      BY <2>3 DEF Apart
    <3>2. ReuseAt(w)'
      BY <1>16, <2>3 DEF Evict, At, ReuseAt
    <3> QED
      BY <2>1, <3>1, <3>2, ReuseFrom
  <2> QED
    BY <1>16, <2>2, <2>3 DEF Evict
<1>17. ASSUME NEW w \in Workers, CompileFails(w) PROVE ReuseInv'
  <2>1. Return(w) /\ disk' = disk
    BY <1>17 DEF CompileFails
  <2> QED
    BY <2>1, ReturnReuse DEF Loses
<1>18. ASSUME NEW w \in Workers, PublishFails(w) PROVE ReuseInv'
  <2>1. Return(w) /\ disk' = disk
    BY <1>18 DEF PublishFails
  <2> QED
    BY <2>1, ReturnReuse DEF Loses
<1>19. ASSUME NEW w \in Workers, NEW k \in Keys, Request(w, k) PROVE ReuseInv'
  <2>1. Apart(w) /\ Loses
    BY <1>19 DEF Shape, Request, Goto, Apart, Loses, shared
  <2>2. ReuseAt(w)'
    BY <1>19 DEF Shape, Request, At, Goto, ReuseAt
  <2> QED
    BY <2>1, <2>2, ReuseFrom
<1>20. ASSUME NEW p \in Processes, Crash(p) PROVE ReuseInv'
  <2>1. ASSUME NEW v \in Workers PROVE ReuseAt(v)'
    <3>1. CASE ProcessOf[v] = p
      BY <1>20, <3>1 DEF Crash, ReuseAt
    <3>2. CASE ProcessOf[v] # p
      <4>1. pc'[v] = pc[v] /\ key'[v] = key[v] /\ look'[v] = look[v] /\ read'[v] = read[v]
        BY <1>20, <3>2 DEF Crash
      <4>2. Loses /\ stolen' = stolen
        BY <1>20 DEF Crash, Loses
      <4> QED
        BY <4>1, <4>2, ReuseOthers
    <3> QED
      BY <3>1, <3>2
  <2> QED
    BY <2>1 DEF ReuseInv
<1>21. ASSUME NEW k \in Keys, Age(k) PROVE ReuseInv'
  <2>1. Loses /\ UNCHANGED <<pc, key, look, read, stolen>>
    BY <1>21 DEF Age, Loses, local, counts
  <2> QED
    BY <2>1, ReuseOthers DEF ReuseInv
<1>22. CASE UNCHANGED vars
  <2>1. Loses /\ UNCHANGED <<pc, key, look, read, stolen>>
    BY <1>22 DEF vars, Loses, local, shared, counts
  <2> QED
    BY <2>1, ReuseOthers DEF ReuseInv
<1> QED
  BY <1>1, <1>2, <1>3, <1>4, <1>5, <1>6, <1>7, <1>8, <1>9, <1>10, <1>11,
     <1>12, <1>13, <1>14, <1>15, <1>16, <1>17, <1>18, <1>19, <1>20, <1>21, <1>22
     DEF Next, Serve

\* Returning publishes nothing and reads nothing.
LEMMA ReturnMarker ==
    ASSUME Shape, MarkerInv, NEW w \in Workers, Return(w), disk' = disk \/ Loses
    PROVE  MarkerInv'
<1>1. ASSUME NEW k \in Keys, disk'[k]["complete"] # None PROVE Twin(disk'[k]["complete"])
  BY <1>1 DEF MarkerInv, Loses, FileNames
<1>2. /\ pc'[w] = "idle" /\ \A v \in Workers \ {w} : pc'[v] = pc[v] /\ read'[v] = read[v]
  BY DEF Shape, Return, Goto
<1> QED
  BY <1>1, <1>2 DEF MarkerInv

\* Neither does rejecting an entry.
LEMMA RejectMarker ==
    ASSUME Shape, MarkerInv, NEW w \in Workers, pc[w] \in Reading, Reject(w), disk' = disk
    PROVE  MarkerInv'
<1>1. /\ pc'[w] \in {"mutex", "slot", "compile", "clean"}
      /\ \A v \in Workers \ {w} : pc'[v] = pc[v] /\ read'[v] = read[v]
  BY MissedAt DEF Shape, Reject, Goto
<1> QED
  BY <1>1 DEF MarkerInv

\* Every step keeps the markers truthful.
LEMMA MarkerKept ==
    ASSUME Shape, MarkerInv, [Next]_vars
    PROVE  MarkerInv'
<1> USE CompilerConstants DEF Shape, MarkerInv, Reading
<1>1. ASSUME NEW w \in Workers, Exists(w) PROVE MarkerInv'
  BY <1>1, MissedAt DEF Exists, At, Goto, local, shared, counts
<1>2. ASSUME NEW w \in Workers, ReadFile(w, "artifact", "manifest") PROVE MarkerInv'
  <2>1. disk' = disk
    BY <1>2 DEF ReadFile
  <2>2. CASE Reject(w)
    BY <1>2, <2>1, <2>2, RejectMarker DEF ReadFile, At
  <2>3. CASE ~Reject(w)
    <3>1. PICK f \in {"artifact", "manifest"} :
            /\ disk[key[w]][f] # None /\ pc[w] = f
            /\ read' = [read EXCEPT ![w][f] = disk[key[w]][f]]
            /\ pc' = [pc EXCEPT ![w] = IF f = "artifact" THEN "manifest" ELSE "complete"]
      BY <1>2, <2>3 DEF ReadFile, Goto, At
    <3>2. read'[w]["artifact"] # None
      BY <3>1 DEF FileNames
    <3>3. pc'[w] \in {"manifest", "complete"} /\ \A v \in Workers \ {w} : pc'[v] = pc[v] /\ read'[v] = read[v]
      BY <3>1
    <3> QED
      BY <2>1, <3>2, <3>3
  <2> QED
    BY <2>2, <2>3
<1>3. ASSUME NEW w \in Workers, ReadFile(w, "manifest", "complete") PROVE MarkerInv'
  <2>1. disk' = disk
    BY <1>3 DEF ReadFile
  <2>2. CASE Reject(w)
    BY <1>3, <2>1, <2>2, RejectMarker DEF ReadFile, At
  <2>3. CASE ~Reject(w)
    <3>1. PICK f \in {"artifact", "manifest"} :
            /\ disk[key[w]][f] # None /\ pc[w] = f
            /\ read' = [read EXCEPT ![w][f] = disk[key[w]][f]]
            /\ pc' = [pc EXCEPT ![w] = IF f = "artifact" THEN "manifest" ELSE "complete"]
      BY <1>3, <2>3 DEF ReadFile, Goto, At
    <3>2. read'[w]["artifact"] # None
      BY <3>1 DEF FileNames
    <3>3. pc'[w] \in {"manifest", "complete"} /\ \A v \in Workers \ {w} : pc'[v] = pc[v] /\ read'[v] = read[v]
      BY <3>1
    <3> QED
      BY <2>1, <3>2, <3>3
  <2> QED
    BY <2>2, <2>3
<1>4. ASSUME NEW w \in Workers, ReadMarker(w) PROVE MarkerInv'
  <2>1. disk' = disk
    BY <1>4 DEF ReadMarker
  <2> QED
    BY <1>4, <2>1, RejectMarker, ReturnMarker DEF ReadMarker, At
<1>5. ASSUME NEW w \in Workers, Clean(w) PROVE MarkerInv'
  <2>1. Loses /\ read' = read /\ pc'[w] \in {"clean", "compile"} /\ \A v \in Workers \ {w} : pc'[v] = pc[v]
    BY <1>5 DEF Clean, Goto, Loses
  <2>2. \A k \in Keys : disk'[k]["complete"] # None => Twin(disk'[k]["complete"])
    BY <2>1 DEF Loses, FileNames
  <2> QED
    BY <2>1, <2>2
<1>6. ASSUME NEW w \in Workers, KeyMutex(w) PROVE MarkerInv'
  BY <1>6 DEF KeyMutex, At, Goto, local, shared, counts
<1>7. ASSUME NEW w \in Workers, AcquireSlot(w) PROVE MarkerInv'
  BY <1>7 DEF AcquireSlot, At, Goto, local, shared, counts
<1>8. ASSUME NEW w \in Workers, CreateLock(w) PROVE MarkerInv'
  BY <1>8 DEF CreateLock, At, Goto, local, shared, counts
<1>9. ASSUME NEW w \in Workers, LockTaken(w) PROVE MarkerInv'
  BY <1>9 DEF LockTaken, At, Goto, local, shared, counts
<1>10. ASSUME NEW w \in Workers, Stat(w) PROVE MarkerInv'
  BY <1>10 DEF Stat, At, Goto, local, shared, counts
<1>11. ASSUME NEW w \in Workers, Steal(w) PROVE MarkerInv'
  BY <1>11 DEF Steal, At, Goto, local, shared, counts
<1>12. ASSUME NEW w \in Workers, LockTimeout(w) PROVE MarkerInv'
  BY <1>12, ReturnMarker DEF LockTimeout, At, Goto, local, shared, counts
<1>13. ASSUME NEW w \in Workers, Compile(w) PROVE MarkerInv'
  <2>1. /\ pc'[w] = "publish" /\ disk' = disk /\ read'[w] = Compiled(compiles + 1)
        /\ \A v \in Workers \ {w} : pc'[v] = pc[v] /\ read'[v] = read[v]
    BY <1>13 DEF Compile, Goto, shared
  <2>2. Compiled(compiles + 1)["complete"] = <<compiles + 1, compiles + 1>>
    BY DEF Compiled, FileNames
  <2>3. Twin(read'[w]["complete"])
    BY <2>1, <2>2 DEF Twin
  <2> QED
    BY <2>1, <2>3
<1>14. ASSUME NEW w \in Workers, Publish(w) PROVE MarkerInv'
  <2>1. /\ read' = read /\ pc[w] = "publish" /\ pc'[w] \in {"publish", "trim"}
        /\ \A v \in Workers \ {w} : pc'[v] = pc[v]
    BY <1>14 DEF Publish, Goto, At
  <2>2. ASSUME NEW k \in Keys PROVE disk'[k]["complete"] \in {disk[k]["complete"], read[w]["complete"]}
    <3>1. CASE Head(todo[w]) = "complete"
      BY <1>14, <3>1 DEF Publish, FileNames
    <3>2. CASE Head(todo[w]) # "complete"
      BY <1>14, <3>2 DEF Publish, FileNames
    <3> QED
      BY <3>1, <3>2
  <2> QED
    BY <2>1, <2>2
<1>15. ASSUME NEW w \in Workers, Trim(w) PROVE MarkerInv'
  BY <1>15, ReturnMarker DEF Trim, At, Goto, local, shared, counts
<1>16. ASSUME NEW w \in Workers, Evict(w) PROVE MarkerInv'
  <2>1. Loses
    <3>1. PICK k \in Keys \union {CHOOSE v \in victims[w] : TRUE}, f \in {Head(todo[w])} :
            disk' = [disk EXCEPT ![k][f] = None]
      BY <1>16 DEF Evict
    <3> QED
      BY <3>1 DEF Loses
  <2>2. CASE Return(w)
    BY <2>1, <2>2, ReturnMarker
  <2>3. CASE UNCHANGED <<pc, key, look, read, attempt, owned, mutex, free, slot, lock, stolen>>
    <3>1. \A k \in Keys : disk'[k]["complete"] # None => Twin(disk'[k]["complete"])
      BY <2>1 DEF Loses, FileNames
    <3> QED
      BY <2>3, <3>1
  <2> QED
    BY <1>16, <2>2, <2>3 DEF Evict
<1>17. ASSUME NEW w \in Workers, CompileFails(w) PROVE MarkerInv'
  BY <1>17, ReturnMarker DEF CompileFails, At, Goto, local, shared, counts
<1>18. ASSUME NEW w \in Workers, PublishFails(w) PROVE MarkerInv'
  BY <1>18, ReturnMarker DEF PublishFails, At, Goto, local, shared, counts
<1>19. ASSUME NEW w \in Workers, NEW k \in Keys, Request(w, k) PROVE MarkerInv'
  BY <1>19 DEF Request, At, Goto, local, shared, counts
<1>20. ASSUME NEW p \in Processes, Crash(p) PROVE MarkerInv'
  BY <1>20 DEF Crash, At, Goto, local, shared, counts
<1>21. ASSUME NEW k \in Keys, Age(k) PROVE MarkerInv'
  BY <1>21 DEF Age, At, Goto, local, shared, counts
<1>22. CASE UNCHANGED vars
  BY <1>22 DEF vars, local, shared, counts
<1> QED
  BY <1>1, <1>2, <1>3, <1>4, <1>5, <1>6, <1>7, <1>8, <1>9, <1>10, <1>11,
     <1>12, <1>13, <1>14, <1>15, <1>16, <1>17, <1>18, <1>19, <1>20, <1>21, <1>22
     DEF Next, Serve

-----------------------------------------------------------------------------

\* The inductive invariant
CompilerInv == Shape /\ MutexInv /\ OwnInv /\ ReuseInv /\ MarkerInv

\* Initially nothing is held, read or stored.
LEMMA CompilerStarts ==
    ASSUME Init
    PROVE  CompilerInv
<1>1. Nothing \in [FileNames -> Stuff] /\ AnyKey \in Keys
  BY Holdings, CompilerConstants DEF AnyKey
<1>2. \A w \in Workers : pc[w] = "idle" /\ ~owned[w]
  BY DEF Init
<1>3. Compiled(0) \in [FileNames -> Stuff] /\ Compiled(0)["complete"] = <<0, 0>>
  BY DEF Compiled, Stuff, FileNames
<1>4. Shape
  BY <1>1, <1>2, <1>3 DEF Init, Shape, Places, Reading
<1>5. MutexInv /\ OwnInv
  BY <1>2 DEF MutexInv, OwnInv, Reading, Waiting, Locked
<1>6. ReuseInv
  BY <1>2 DEF ReuseInv, ReuseAt
<1>7. \A k \in Keys : disk[k]["complete"] = None \/ Twin(disk[k]["complete"])
  BY <1>3 DEF Init, Nothing, FileNames, Twin
<1>8. MarkerInv
  BY <1>2, <1>7 DEF MarkerInv
<1> QED
  BY <1>4, <1>5, <1>6, <1>8 DEF CompilerInv

\* The invariant of the compiler service, with the implications that make it useful
THEOREM CompilerSafe == Spec => []CompilerInv
<1>1. Init => CompilerInv
  BY CompilerStarts
<1>2. CompilerInv /\ [Next]_vars => CompilerInv'
  BY ShapeKept, MutexKept, OwnKept, ReuseKept, MarkerKept DEF CompilerInv
<1> QED
  BY <1>1, <1>2, PTL DEF Spec

\* Two requests are in the protected part of compile() for one key only after a
\* lock directory was removed under its owner, and never within one process.
THEOREM CompilerAlone == Spec => []CompilesAlone
<1>1. CompilerInv => CompilesAlone
  <2> SUFFICES ASSUME CompilerInv, NEW v \in Workers, NEW w \in Workers,
                      v # w, Critical(v), Critical(w), key[v] = key[w]
               PROVE  ProcessOf[v] # ProcessOf[w] /\ key[w] \in stolen
    BY DEF CompilesAlone
  <2>1. mutex[ProcessOf[v]][key[v]] = v /\ mutex[ProcessOf[w]][key[w]] = w
    BY DEF CompilerInv, MutexInv, Critical, Locked
  <2>2. owned[v] /\ owned[w]
    BY DEF CompilerInv, OwnInv, Critical, Locked
  <2> QED
    BY <2>1, <2>2, OneOwner DEF CompilerInv
<1> QED
  BY <1>1, CompilerSafe, PTL

\* A request that waited for another's compile does not compile again.
THEOREM CompilerReuses == Spec => []WaitsAndReuses
<1>1. CompilerInv => WaitsAndReuses
  BY DEF CompilerInv, ReuseInv, ReuseAt, WaitsAndReuses
<1> QED
  BY <1>1, CompilerSafe, PTL

\* load_cached accepts an artifact and a manifest of one compile only.
THEOREM CompilerNeverMixes == Spec => []NeverMixed
<1>1. CompilerInv => NeverMixed
  <2> SUFFICES ASSUME CompilerInv, NEW w \in Workers, pc[w] = "complete",
                      Accepts(w, disk[key[w]]["complete"])
               PROVE  read[w]["artifact"] # None /\ read[w]["artifact"] = read[w]["manifest"]
    BY DEF NeverMixed
  <2>1. disk[key[w]]["complete"] # None /\ key[w] \in Keys
    BY DEF Accepts, CompilerInv, Shape
  <2>2. PICK n \in Nat : disk[key[w]]["complete"] = <<n, n>>
    BY <2>1 DEF CompilerInv, MarkerInv, Twin
  <2>3. <<n, n>> = <<read[w]["artifact"], read[w]["manifest"]>>
    BY <2>2 DEF Accepts
  <2>4. read[w]["artifact"] # None
    BY DEF CompilerInv, MarkerInv
  <2> QED
    BY <2>3, <2>4
<1> QED
  BY <1>1, CompilerSafe, PTL

-----------------------------------------------------------------------------
(* The slots, the bounds and the contents of the files *)

\* What a request relies on where it is: there is a file to rename or remove,
\* an attempt left, and a slot taken only once.
RequestInv ==
    /\ todo \in [Workers -> Seq(FileNames)] /\ victims \in [Workers -> SUBSET Keys]
    /\ attempt \in [Workers -> 0 .. MaxAttempts] /\ slot \subseteq Workers
    /\ requests \in 0 .. MaxRequests /\ crashes \in 0 .. MaxCrashes /\ errors \in 0 .. MaxErrors
    /\ \A w \in Workers : pc[w] \in {"clean", "publish", "evict"} => todo[w] # <<>>
    /\ \A w \in Workers : pc[w] \in {"stat", "steal"} => attempt[w] < MaxAttempts
    /\ \A w \in slot : \/ pc[w] \in {"lock", "stat", "steal"} \union Locked
                       \/ pc[w] \in Reading /\ look[w] = 3

\* The requests that may still compile
Due == {w \in Workers : pc[w] \in Reading \union Waiting \union {"mutex", "clean", "compile"}}

\* A request compiles once at most.
DueInv == compiles + Cardinality(Due) <= requests

SlotsOf(p) == {w \in slot : ProcessOf[w] = p}

\* The slots of a process are conserved.
SlotInv == /\ free \in [Processes -> 0 .. Jobs]
           /\ \A p \in Processes : free[p] + Cardinality(SlotsOf(p)) = Jobs

\* What a file of that name may hold
Holds(f, c) == c \in (IF f = "complete" THEN Pairs ELSE Versions) \union {None}

FilesInv == /\ \A w \in Workers : \A f \in FileNames : Holds(f, read[w][f])
            /\ \A k \in Keys : \A f \in FileNames : Holds(f, disk[k][f])

-----------------------------------------------------------------------------

\* What is left of a list of files
LEMMA TodoTail ==
    ASSUME NEW s \in Seq(FileNames), s # <<>>
    PROVE  /\ Tail(s) \in Seq(FileNames)
           /\ Len(s) # 1 => Tail(s) # <<>>
<1>1. Len(s) \in Nat /\ Len(s) > 0
  OBVIOUS
<1>2. Tail(s) \in Seq(FileNames) /\ Len(Tail(s)) = Len(s) - 1
  BY <1>1
<1>3. ASSUME NEW r, r = <<>> PROVE Len(r) = 0
  BY <1>3
<1>4. Len(s) # 1 => Len(Tail(s)) # 0
  BY <1>1, <1>2
<1> QED
  BY <1>2, <1>3, <1>4

\* The lists that are begun
LEMMA TodoLists ==
    /\ Files \in Seq(FileNames) /\ Removals \in Seq(FileNames) /\ <<>> \in Seq(FileNames)
    /\ Files # <<>> /\ Removals # <<>>
  BY DEF Files, Removals, FileNames

\* Returning gives up the slot and begins the attempts anew.
LEMMA ReturnRequest ==
    ASSUME Shape, RequestInv, NEW w \in Workers, Return(w),
           todo' \in [Workers -> Seq(FileNames)], \A v \in Workers \ {w} : todo'[v] = todo[v],
           victims' \in [Workers -> SUBSET Keys],
           requests' \in 0 .. MaxRequests, crashes' \in 0 .. MaxCrashes, errors' \in 0 .. MaxErrors
    PROVE  RequestInv'
<1>1. /\ pc'[w] = "idle" /\ \A v \in Workers \ {w} : pc'[v] = pc[v]
      /\ attempt' = [attempt EXCEPT ![w] = 0] /\ slot' = slot \ {w}
      /\ \A v \in Workers \ {w} : look'[v] = look[v]
  BY DEF Return, Goto, Shape
<1>2. attempt' \in [Workers -> 0 .. MaxAttempts] /\ \A v \in Workers \ {w} : attempt'[v] = attempt[v]
  BY <1>1, CompilerConstants DEF RequestInv
<1>3. /\ slot' \subseteq Workers
      /\ \A v \in slot' : v # w /\ (\/ pc[v] \in {"lock", "stat", "steal"} \union Locked
                                    \/ pc[v] \in Reading /\ look[v] = 3)
  BY <1>1 DEF RequestInv
<1>4. \A v \in Workers : pc'[v] \in {"clean", "publish", "evict"} => todo'[v] # <<>>
  BY <1>1 DEF RequestInv
<1>5. \A v \in Workers : pc'[v] \in {"stat", "steal"} => attempt'[v] < MaxAttempts
  BY <1>1, <1>2 DEF RequestInv
<1>6. \A v \in slot' : \/ pc'[v] \in {"lock", "stat", "steal"} \union Locked
                       \/ pc'[v] \in Reading /\ look'[v] = 3
  BY <1>1, <1>3
<1> QED
  BY <1>2, <1>3, <1>4, <1>5, <1>6 DEF RequestInv

\* A step that leaves the slots and the attempts alone
LEMMA PlainRequest ==
    ASSUME Shape, RequestInv, NEW w \in Workers,
           UNCHANGED <<attempt, slot, victims, requests, crashes, errors, look>>,
           \A v \in Workers \ {w} : pc'[v] = pc[v] /\ todo'[v] = todo[v],
           todo' \in [Workers -> Seq(FileNames)],
           pc'[w] \in {"clean", "publish", "evict"} => todo'[w] # <<>>,
           pc'[w] \in {"stat", "steal"} => attempt[w] < MaxAttempts,
           w \in slot => \/ pc'[w] \in {"lock", "stat", "steal"} \union Locked
                         \/ pc'[w] \in Reading /\ look[w] = 3
    PROVE  RequestInv'
<1> QED
  BY DEF RequestInv

\* Rejecting an entry begins the removals, in the third look.
LEMMA RejectRequest ==
    ASSUME Shape, RequestInv, NEW w \in Workers, pc[w] \in Reading, Reject(w),
           UNCHANGED <<victims, requests, crashes, errors>>
    PROVE  RequestInv'
<1>1. /\ UNCHANGED <<look, attempt, slot>> /\ \A v \in Workers \ {w} : pc'[v] = pc[v]
      /\ pc'[w] = IF look[w] = 3 THEN "clean" ELSE Missed[look[w]]
  BY DEF Reject, Goto, Shape
<1>2. /\ \A v \in Workers \ {w} : todo'[v] = todo[v]
      /\ todo'[w] = IF look[w] = 3 THEN Removals ELSE <<>>
      /\ todo' \in [Workers -> Seq(FileNames)]
  BY TodoLists DEF Reject, RequestInv
<1>3. look[w] # 3 => pc'[w] \in {"mutex", "slot"} /\ w \notin slot
  BY <1>1, MissedAt DEF RequestInv, Reading, Locked
<1>4. look[w] = 3 => pc'[w] = "clean" /\ todo'[w] # <<>>
  BY <1>1, <1>2, TodoLists
<1> QED
  BY <1>1, <1>2, <1>3, <1>4, PlainRequest DEF Locked, Reading

\* Every step keeps what requests rely on.
LEMMA RequestKept ==
    ASSUME Shape, RequestInv, [Next]_vars
    PROVE  RequestInv'
<1>0. /\ MaxAttempts \in Nat /\ MaxRequests \in Nat /\ MaxCrashes \in Nat /\ MaxErrors \in Nat
      /\ DOMAIN pc = Workers /\ DOMAIN look = Workers /\ todo \in [Workers -> Seq(FileNames)]
      /\ victims \in [Workers -> SUBSET Keys] /\ attempt \in [Workers -> 0 .. MaxAttempts]
  BY CompilerConstants DEF Shape, RequestInv
<1>1. ASSUME NEW w \in Workers, Exists(w) PROVE RequestInv'
  <2>1. /\ pc[w] \in Reading /\ UNCHANGED <<look, todo, victims, attempt, slot, requests, crashes, errors>>
        /\ \A v \in Workers \ {w} : pc'[v] = pc[v]
        /\ pc'[w] = "artifact" \/ pc'[w] = Missed[look[w]]
    BY <1>0, <1>1 DEF Exists, At, Goto, shared, counts, Reading
  <2>2. w \in slot => look[w] = 3
    BY <1>1 DEF RequestInv, Exists, At, Locked
  <2>3. \/ look[w] = 1 /\ Missed[look[w]] = "mutex"
        \/ look[w] = 2 /\ Missed[look[w]] = "slot"
        \/ look[w] = 3 /\ Missed[look[w]] = "compile"
    BY <2>1, MissedAt
  <2>4. pc'[w] \notin {"clean", "publish", "evict", "stat", "steal"}
    BY <2>1, <2>3
  <2>5. w \in slot => pc'[w] \in Locked \/ (pc'[w] \in Reading /\ look[w] = 3)
    BY <2>1, <2>2, <2>3 DEF Locked, Reading
  <2> QED
    BY <1>0, <2>1, <2>4, <2>5, PlainRequest
<1>2. ASSUME NEW w \in Workers,
             ReadFile(w, "artifact", "manifest") \/ ReadFile(w, "manifest", "complete")
      PROVE  RequestInv'
  <2>0. pc[w] \in {"artifact", "manifest"} /\ UNCHANGED <<victims, requests, crashes, errors>>
    BY <1>2 DEF ReadFile, At
  <2>1. CASE Reject(w)
    BY <2>0, <2>1, RejectRequest DEF Reading
  <2>2. CASE ~Reject(w)
    <3>1. /\ pc'[w] \in {"manifest", "complete"} /\ \A v \in Workers \ {w} : pc'[v] = pc[v]
          /\ UNCHANGED <<look, todo, attempt, slot>>
      BY <1>0, <1>2, <2>2 DEF ReadFile, Goto
    <3>2. w \in slot => look[w] = 3
      BY <2>0 DEF RequestInv, Locked
    <3> QED
      BY <1>0, <2>0, <3>1, <3>2, PlainRequest DEF Reading
  <2> QED
    BY <2>1, <2>2
<1>3. ASSUME NEW w \in Workers, ReadMarker(w) PROVE RequestInv'
  <2>1. pc[w] \in Reading /\ UNCHANGED <<victims, requests, crashes, errors>>
    BY <1>3 DEF ReadMarker, At, Reading
  <2>2. CASE Return(w) /\ UNCHANGED todo
    BY <1>0, <2>1, <2>2, ReturnRequest DEF RequestInv
  <2> QED
    BY <1>3, <2>1, <2>2, RejectRequest DEF ReadMarker
<1>4. ASSUME NEW w \in Workers, Clean(w) PROVE RequestInv'
  <2>1. /\ pc[w] = "clean" /\ todo' = [todo EXCEPT ![w] = Tail(todo[w])]
        /\ \A v \in Workers \ {w} : pc'[v] = pc[v]
        /\ pc'[w] = IF Len(todo[w]) = 1 THEN "compile" ELSE "clean"
        /\ UNCHANGED <<look, attempt, slot, victims, requests, crashes, errors>>
    BY <1>0, <1>4 DEF Clean, At, Goto, counts
  <2>2. Tail(todo[w]) \in Seq(FileNames) /\ (Len(todo[w]) # 1 => Tail(todo[w]) # <<>>)
    BY <1>0, <2>1, TodoTail DEF RequestInv
  <2>3. /\ todo' \in [Workers -> Seq(FileNames)] /\ todo'[w] = Tail(todo[w])
        /\ \A v \in Workers \ {w} : todo'[v] = todo[v]
    BY <1>0, <2>1, <2>2
  <2> QED
    BY <2>1, <2>2, <2>3, PlainRequest DEF Locked
<1>5. ASSUME NEW w \in Workers, KeyMutex(w) PROVE RequestInv'
  BY <1>0, <1>5 DEF RequestInv, KeyMutex, At, Goto, counts, Locked, Reading
<1>6. ASSUME NEW w \in Workers, AcquireSlot(w) PROVE RequestInv'
  BY <1>0, <1>6 DEF RequestInv, AcquireSlot, At, Goto, counts, Locked, Reading
<1>7. ASSUME NEW w \in Workers, CreateLock(w) PROVE RequestInv'
  BY <1>0, <1>7 DEF RequestInv, CreateLock, At, Goto, counts, Locked, Reading
<1>8. ASSUME NEW w \in Workers, LockTaken(w) PROVE RequestInv'
  BY <1>0, <1>8 DEF RequestInv, LockTaken, At, Goto, shared, counts, Locked, Reading
<1>9. ASSUME NEW w \in Workers, Stat(w) PROVE RequestInv'
  <2>1. /\ pc[w] = "stat" /\ \A v \in Workers \ {w} : pc'[v] = pc[v]
        /\ UNCHANGED <<look, todo, victims, slot, requests, crashes, errors>>
        /\ \/ pc'[w] = "steal" /\ attempt' = attempt
           \/ pc'[w] = "lock" /\ attempt' = [attempt EXCEPT ![w] = attempt[w] + 1]
    BY <1>0, <1>9 DEF Stat, At, Goto, shared, counts
  <2>2. attempt[w] \in Nat /\ attempt[w] < MaxAttempts
    BY <1>0, <2>1 DEF RequestInv
  <2>3. attempt' \in [Workers -> 0 .. MaxAttempts] /\ \A v \in Workers \ {w} : attempt'[v] = attempt[v]
    <3>1. attempt[w] + 1 \in 0 .. MaxAttempts
      BY <1>0, <2>2
    <3>2. ASSUME NEW a \in 0 .. MaxAttempts, attempt' = [attempt EXCEPT ![w] = a]
          PROVE  /\ attempt' \in [Workers -> 0 .. MaxAttempts]
                 /\ \A v \in Workers \ {w} : attempt'[v] = attempt[v]
      BY <1>0, <3>2
    <3> QED
      BY <1>0, <2>1, <3>1, <3>2
  <2> QED
    BY <2>1, <2>2, <2>3 DEF RequestInv, Locked
<1>10. ASSUME NEW w \in Workers, Steal(w) PROVE RequestInv'
  BY <1>0, <1>10 DEF RequestInv, Steal, At, Goto, Locked, Reading
<1>11. ASSUME NEW w \in Workers, LockTimeout(w) \/ CompileFails(w) PROVE RequestInv'
  <2>1. Return(w) /\ UNCHANGED <<todo, victims, requests, crashes>> /\ errors' \in 0 .. MaxErrors
    BY <1>0, <1>11 DEF LockTimeout, CompileFails, RequestInv
  <2> QED
    BY <1>0, <2>1, ReturnRequest DEF RequestInv
<1>12. ASSUME NEW w \in Workers, Compile(w) PROVE RequestInv'
  <2>1. /\ pc[w] = "compile" /\ todo' = [todo EXCEPT ![w] = Files]
        /\ pc'[w] = "publish" /\ \A v \in Workers \ {w} : pc'[v] = pc[v]
        /\ UNCHANGED <<look, attempt, slot, victims, requests, crashes, errors>>
    BY <1>0, <1>12 DEF Compile, At, Goto, shared
  <2>2. /\ todo' \in [Workers -> Seq(FileNames)] /\ todo'[w] # <<>>
        /\ \A v \in Workers \ {w} : todo'[v] = todo[v]
    BY <1>0, <2>1, TodoLists
  <2> QED
    BY <2>1, <2>2, PlainRequest DEF Locked
<1>13. ASSUME NEW w \in Workers, Publish(w) PROVE RequestInv'
  <2>1. /\ pc[w] = "publish" /\ todo' = [todo EXCEPT ![w] = Tail(todo[w])]
        /\ \A v \in Workers \ {w} : pc'[v] = pc[v]
        /\ pc'[w] = IF Len(todo[w]) = 1 THEN "trim" ELSE "publish"
        /\ UNCHANGED <<look, attempt, slot, victims, requests, crashes, errors>>
    BY <1>0, <1>13 DEF Publish, At, Goto, counts
  <2>2. Tail(todo[w]) \in Seq(FileNames) /\ (Len(todo[w]) # 1 => Tail(todo[w]) # <<>>)
    BY <1>0, <2>1, TodoTail DEF RequestInv
  <2>3. /\ todo' \in [Workers -> Seq(FileNames)] /\ todo'[w] = Tail(todo[w])
        /\ \A v \in Workers \ {w} : todo'[v] = todo[v]
    BY <1>0, <2>1, <2>2
  <2> QED
    BY <2>1, <2>2, <2>3, PlainRequest DEF Locked
<1>14. ASSUME NEW w \in Workers, PublishFails(w) PROVE RequestInv'
  <2>1. /\ Return(w) /\ todo' = [todo EXCEPT ![w] = <<>>] /\ UNCHANGED <<victims, requests, crashes>>
        /\ errors' \in 0 .. MaxErrors
    BY <1>0, <1>14 DEF PublishFails, RequestInv
  <2>2. todo' \in [Workers -> Seq(FileNames)] /\ \A v \in Workers \ {w} : todo'[v] = todo[v]
    BY <1>0, <2>1, TodoLists
  <2> QED
    BY <1>0, <2>1, <2>2, ReturnRequest DEF RequestInv
<1>15. ASSUME NEW w \in Workers, Trim(w) PROVE RequestInv'
  <2>0. pc[w] = "trim" /\ UNCHANGED <<requests, crashes, errors>>
    BY <1>15 DEF Trim, At
  <2>1. CASE Return(w) /\ UNCHANGED <<victims, todo>>
    BY <1>0, <2>0, <2>1, ReturnRequest DEF RequestInv
  <2>2. CASE /\ \E old \in SUBSET Listed : victims' = [victims EXCEPT ![w] = old]
             /\ todo' = [todo EXCEPT ![w] = Removals] /\ Goto(w, "evict")
             /\ UNCHANGED <<look, attempt, slot>>
    <3>1. victims' \in [Workers -> SUBSET Keys]
      BY <1>0, <2>2 DEF Listed
    <3>2. /\ todo' \in [Workers -> Seq(FileNames)] /\ todo'[w] # <<>>
          /\ \A v \in Workers \ {w} : todo'[v] = todo[v]
      BY <1>0, <2>2, TodoLists
    <3>3. pc'[w] = "evict" /\ \A v \in Workers \ {w} : pc'[v] = pc[v]
      BY <1>0, <2>2 DEF Goto
    <3> QED
      BY <2>0, <2>2, <3>1, <3>2, <3>3 DEF RequestInv, Locked
  <2> QED
    BY <1>15, <2>1, <2>2 DEF Trim
<1>16. ASSUME NEW w \in Workers, Evict(w) PROVE RequestInv'
  <2> DEFINE k == CHOOSE v \in victims[w] : TRUE
             last == Len(todo[w]) = 1
             rest == IF last /\ victims[w] # {k} THEN Removals ELSE Tail(todo[w])
  <2>0. /\ pc[w] = "evict" /\ UNCHANGED <<requests, crashes, errors>>
        /\ victims' = IF last THEN [victims EXCEPT ![w] = victims[w] \ {k}] ELSE victims
        /\ todo' = [todo EXCEPT ![w] = rest]
    BY <1>16 DEF Evict, At
  <2>1. rest \in Seq(FileNames) /\ (~(last /\ victims[w] = {k}) => rest # <<>>)
    BY <1>0, <2>0, TodoTail, TodoLists DEF RequestInv
  <2>2. victims' \in [Workers -> SUBSET Keys]
    BY <1>0, <2>0
  <2>3. /\ todo' \in [Workers -> Seq(FileNames)] /\ todo'[w] = rest
        /\ \A v \in Workers \ {w} : todo'[v] = todo[v]
    BY <1>0, <2>0, <2>1
  <2>4. CASE Return(w)
    BY <2>0, <2>2, <2>3, <2>4, ReturnRequest DEF RequestInv
  <2>5. CASE /\ ~(last /\ victims[w] = {k})
             /\ UNCHANGED <<pc, key, look, read, attempt, owned, mutex, free, slot, lock, stolen>>
    <3> HIDE DEF rest, last, k
    <3> QED
      BY <2>0, <2>1, <2>2, <2>3, <2>5 DEF RequestInv
  <2> QED
    BY <1>16, <2>4, <2>5 DEF Evict
<1>17. ASSUME NEW w \in Workers, NEW k \in Keys, Request(w, k) PROVE RequestInv'
  <2>1. /\ pc[w] = "idle" /\ pc'[w] = "exists"
        /\ \A v \in Workers \ {w} : pc'[v] = pc[v] /\ look'[v] = look[v]
        /\ requests < MaxRequests /\ requests' = requests + 1
        /\ UNCHANGED <<todo, victims, attempt, slot, crashes, errors>>
    BY <1>0, <1>17 DEF Request, At, Goto, shared
  <2>2. w \notin slot
    BY <2>1 DEF RequestInv, Locked, Reading
  <2>3. requests' \in 0 .. MaxRequests
    BY <1>0, <2>1 DEF RequestInv
  <2> QED
    BY <2>1, <2>2, <2>3 DEF RequestInv
<1>18. ASSUME NEW p \in Processes, Crash(p) PROVE RequestInv'
  <2> DEFINE gone == {w \in Workers : ProcessOf[w] = p}
  <2>1. /\ slot' = slot \ gone /\ UNCHANGED <<requests, errors>>
        /\ crashes < MaxCrashes /\ crashes' = crashes + 1
    BY <1>18 DEF Crash
  <2>2. \A w \in Workers : IF w \in gone
                           THEN pc'[w] = "idle"
                           ELSE pc'[w] = pc[w] /\ look'[w] = look[w] /\ todo'[w] = todo[w]
                                /\ attempt'[w] = attempt[w]
    BY <1>18 DEF Crash
  <2>3. todo' \in [Workers -> Seq(FileNames)]
    BY <1>0, <1>18, TodoLists DEF Crash
  <2>4. victims' \in [Workers -> SUBSET Keys] /\ attempt' \in [Workers -> 0 .. MaxAttempts]
    BY <1>0, <1>18 DEF Crash
  <2>5. crashes' \in 0 .. MaxCrashes
    BY <1>0, <2>1 DEF RequestInv
  <2> HIDE DEF gone
  <2>6. \A w \in slot' : \/ pc'[w] \in {"lock", "stat", "steal"} \union Locked
                         \/ pc'[w] \in Reading /\ look'[w] = 3
    BY <2>1, <2>2 DEF RequestInv
  <2>7. \A w \in Workers : /\ pc'[w] \in {"clean", "publish", "evict"} => todo'[w] # <<>>
                           /\ pc'[w] \in {"stat", "steal"} => attempt'[w] < MaxAttempts
    BY <2>2 DEF RequestInv
  <2> QED
    BY <2>1, <2>3, <2>4, <2>5, <2>6, <2>7 DEF RequestInv
<1>19. ASSUME NEW k \in Keys, Age(k) PROVE RequestInv'
  BY <1>19 DEF RequestInv, Age, local, counts
<1>20. CASE UNCHANGED vars
  BY <1>20 DEF RequestInv, vars, local, shared, counts
<1> QED
  BY <1>1, <1>2, <1>3, <1>4, <1>5, <1>6, <1>7, <1>8, <1>9, <1>10, <1>11, <1>12, <1>13, <1>14,
     <1>15, <1>16, <1>17, <1>18, <1>19, <1>20 DEF Next, Serve

\* A request that leaves, begins or compiles: the three ways the number of
\* those that may still compile changes.
LEMMA DueStep ==
    ASSUME Shape, RequestInv, [Next]_vars
    PROVE  \/ Due' \subseteq Due /\ UNCHANGED <<compiles, requests>>
           \/ \E w \in Workers : /\ Due' \subseteq Due \union {w}
                                 /\ compiles' = compiles /\ requests' = requests + 1
           \/ \E w \in Due : /\ Due' \subseteq Due \ {w}
                             /\ compiles' = compiles + 1 /\ requests' = requests
<1> DEFINE Early == Reading \union Waiting \union {"mutex", "clean", "compile"}
           Same(w) == /\ \A v \in Workers \ {w} : pc'[v] = pc[v]
                      /\ pc'[w] \in Early => pc[w] \in Early
                      /\ UNCHANGED <<compiles, requests>>
<1>0. DOMAIN pc = Workers
  BY DEF Shape
<1>1. ASSUME NEW w \in Workers, Same(w) PROVE Due' \subseteq Due /\ UNCHANGED <<compiles, requests>>
  BY <1>1 DEF Due
<1>2. ASSUME NEW w \in Workers, Return(w) PROVE pc'[w] \notin Early /\ \A v \in Workers \ {w} : pc'[v] = pc[v]
  BY <1>0, <1>2 DEF Return, Goto, Reading, Waiting
<1>3. ASSUME NEW w \in Workers, pc[w] \in Reading, Reject(w)
      PROVE  pc[w] \in Early /\ \A v \in Workers \ {w} : pc'[v] = pc[v]
  BY <1>0, <1>3 DEF Reject, Goto
<1>4. ASSUME NEW w \in Workers, Serve(w) \/ CompileFails(w) \/ PublishFails(w), ~Compile(w)
      PROVE  Same(w)
  <2>1. UNCHANGED <<compiles, requests>>
    BY <1>4 DEF Serve, Exists, ReadFile, ReadMarker, Clean, KeyMutex, AcquireSlot, CreateLock,
                LockTaken, Stat, Steal, LockTimeout, CompileFails, Publish, PublishFails, Trim,
                Evict, counts
  <2>2. CASE \/ Exists(w) \/ Clean(w) \/ KeyMutex(w) \/ AcquireSlot(w) \/ CreateLock(w)
             \/ LockTaken(w) \/ Stat(w) \/ Steal(w)
    <3>1. pc[w] \in Early /\ \A v \in Workers \ {w} : pc'[v] = pc[v]
      BY <1>0, <2>2 DEF Exists, Clean, KeyMutex, AcquireSlot, CreateLock, LockTaken, Stat, Steal,
                        At, Goto, Reading, Waiting
    <3> QED
      BY <2>1, <3>1
  <2>3. CASE ReadFile(w, "artifact", "manifest") \/ ReadFile(w, "manifest", "complete")
    <3>1. pc[w] \in Reading
      BY <2>3 DEF ReadFile, At, Reading
    <3>2. \A v \in Workers \ {w} : pc'[v] = pc[v]
      BY <1>0, <1>3, <2>3, <3>1 DEF ReadFile, Goto
    <3> QED
      BY <2>1, <3>1, <3>2
  <2>4. CASE ReadMarker(w)
    <3>1. pc[w] \in Reading
      BY <2>4 DEF ReadMarker, At, Reading
    <3>2. \A v \in Workers \ {w} : pc'[v] = pc[v]
      BY <1>2, <1>3, <2>4, <3>1 DEF ReadMarker
    <3> QED
      BY <2>1, <3>1, <3>2
  <2>5. CASE LockTimeout(w) \/ CompileFails(w) \/ PublishFails(w)
    BY <1>2, <2>1, <2>5 DEF LockTimeout, CompileFails, PublishFails
  <2>6. CASE Publish(w)
    BY <1>0, <2>1, <2>6 DEF Publish, Goto, Reading, Waiting
  <2>7. CASE Trim(w)
    <3>1. CASE Return(w)
      BY <1>2, <2>1, <3>1
    <3>2. CASE Goto(w, "evict")
      BY <1>0, <2>1, <3>2 DEF Goto, Reading, Waiting
    <3> QED
      BY <2>7, <3>1, <3>2 DEF Trim
  <2>8. CASE Evict(w)
    <3>1. CASE Return(w)
      BY <1>2, <2>1, <3>1
    <3>2. CASE UNCHANGED pc
      BY <2>1, <3>2
    <3> QED
      BY <2>8, <3>1, <3>2 DEF Evict
  <2> QED
    BY <1>4, <2>2, <2>3, <2>4, <2>5, <2>6, <2>7, <2>8 DEF Serve
<1>5. ASSUME NEW w \in Workers, Compile(w)
      PROVE  w \in Due /\ Due' \subseteq Due \ {w} /\ compiles' = compiles + 1 /\ requests' = requests
  <2>1. /\ pc[w] = "compile" /\ pc'[w] = "publish" /\ \A v \in Workers \ {w} : pc'[v] = pc[v]
        /\ compiles' = compiles + 1 /\ requests' = requests
    BY <1>0, <1>5 DEF Compile, At, Goto
  <2> QED
    BY <2>1 DEF Due, Reading, Waiting
<1>6. ASSUME NEW w \in Workers, NEW k \in Keys, Request(w, k)
      PROVE  Due' \subseteq Due \union {w} /\ compiles' = compiles /\ requests' = requests + 1
  <2>1. /\ \A v \in Workers \ {w} : pc'[v] = pc[v]
        /\ compiles' = compiles /\ requests' = requests + 1
    BY <1>0, <1>6 DEF Request, Goto
  <2> QED
    BY <2>1 DEF Due
<1>7. ASSUME NEW p \in Processes, Crash(p) PROVE Due' \subseteq Due /\ UNCHANGED <<compiles, requests>>
  <2>1. (\A w \in Workers : pc'[w] \in {pc[w], "idle"}) /\ UNCHANGED <<compiles, requests>>
    BY <1>7 DEF Crash
  <2> QED
    BY <2>1 DEF Due, Reading, Waiting
<1>8. CASE UNCHANGED vars \/ \E k \in Keys : Age(k)
  BY <1>8 DEF vars, local, counts, Age, Due
<1> HIDE DEF Same
<1> QED
  BY <1>1, <1>4, <1>5, <1>6, <1>7, <1>8 DEF Next, Serve

\* No request compiles twice.
LEMMA DueKept ==
    ASSUME Shape, RequestInv, DueInv, [Next]_vars
    PROVE  DueInv'
<1>0. IsFiniteSet(Due) /\ Cardinality(Due) \in Nat
  <2>1. Due \subseteq Workers /\ IsFiniteSet(Workers)
    BY CompilerConstants DEF Due
  <2> QED
    BY <2>1, FS_Subset, FS_CardinalityType
<1>1. compiles \in Nat /\ requests \in Nat
  BY CompilerConstants DEF Shape, RequestInv
<1>2. PICK D : D = Due'
  OBVIOUS
<1>3. PICK E : E = Due
  OBVIOUS
<1>4. CASE D \subseteq E /\ UNCHANGED <<compiles, requests>>
  <2>1. Cardinality(D) <= Cardinality(E) /\ Cardinality(D) \in Nat
    BY <1>0, <1>3, <1>4, FS_Subset, FS_CardinalityType
  <2> QED
    BY <1>0, <1>1, <1>2, <1>3, <1>4, <2>1 DEF DueInv
<1>5. ASSUME NEW w, D \subseteq E \union {w}, compiles' = compiles, requests' = requests + 1
      PROVE  DueInv'
  <2>1. IsFiniteSet(E \union {w}) /\ Cardinality(E \union {w}) <= Cardinality(E) + 1
    <3>1. /\ IsFiniteSet(E \union {w})
          /\ Cardinality(E \union {w}) \in {Cardinality(E), Cardinality(E) + 1}
      BY <1>0, <1>3, FS_AddElement
    <3> QED
      BY <1>0, <1>3, <3>1
  <2>2. Cardinality(D) <= Cardinality(E \union {w}) /\ IsFiniteSet(D)
    BY <1>5, <2>1, FS_Subset
  <2>3. Cardinality(D) \in Nat /\ Cardinality(E \union {w}) \in Nat
    BY <2>1, <2>2, FS_CardinalityType
  <2> QED
    BY <1>0, <1>1, <1>2, <1>3, <1>5, <2>1, <2>2, <2>3 DEF DueInv
<1>6. ASSUME NEW w \in E, D \subseteq E \ {w}, compiles' = compiles + 1, requests' = requests
      PROVE  DueInv'
  <2>1. IsFiniteSet(E \ {w}) /\ Cardinality(E \ {w}) = Cardinality(E) - 1
    BY <1>0, <1>3, FS_RemoveElement
  <2>2. Cardinality(D) <= Cardinality(E \ {w}) /\ IsFiniteSet(D)
    BY <1>6, <2>1, FS_Subset
  <2>3. Cardinality(D) \in Nat
    BY <2>2, FS_CardinalityType
  <2> QED
    BY <1>0, <1>1, <1>2, <1>3, <1>6, <2>1, <2>2, <2>3 DEF DueInv
<1> QED
  BY <1>2, <1>3, <1>4, <1>5, <1>6, DueStep

\* How slots change hands: one is given back, one is taken from the free ones,
\* or those of a process that died are all free again.
LEMMA SlotStep ==
    ASSUME Shape, RequestInv, SlotInv, [Next]_vars
    PROVE  \/ UNCHANGED <<slot, free>>
           \/ \E w \in slot : /\ slot' = slot \ {w}
                              /\ free' = [free EXCEPT ![ProcessOf[w]] = free[ProcessOf[w]] + 1]
           \/ \E w \in Workers \ slot :
                /\ slot' = slot \union {w} /\ free[ProcessOf[w]] > 0
                /\ free' = [free EXCEPT ![ProcessOf[w]] = free[ProcessOf[w]] - 1]
           \/ \E p \in Processes : /\ slot' = {w \in slot : ProcessOf[w] # p}
                                   /\ free' = [free EXCEPT ![p] = Jobs]
<1> DEFINE Back(w) == /\ slot' = slot \ {w}
                      /\ free' = [free EXCEPT ![ProcessOf[w]] = free[ProcessOf[w]] + 1]
<1>1. ASSUME NEW w \in Workers, Return(w)
      PROVE  UNCHANGED <<slot, free>> \/ (w \in slot /\ Back(w))
  BY <1>1 DEF Return
<1>2. ASSUME NEW w \in Workers, AcquireSlot(w)
      PROVE  /\ w \in Workers \ slot /\ slot' = slot \union {w} /\ free[ProcessOf[w]] > 0
             /\ free' = [free EXCEPT ![ProcessOf[w]] = free[ProcessOf[w]] - 1]
  <2>1. pc[w] = "slot"
    BY <1>2 DEF AcquireSlot, At
  <2>2. w \notin slot
    BY <2>1 DEF RequestInv, Locked, Reading
  <2> QED
    BY <1>2, <2>2 DEF AcquireSlot
<1>3. ASSUME NEW w \in Workers, Serve(w) \/ CompileFails(w) \/ PublishFails(w), ~AcquireSlot(w)
      PROVE  UNCHANGED <<slot, free>> \/ Return(w)
  BY <1>3 DEF Serve, Exists, ReadFile, Reject, ReadMarker, Clean, KeyMutex, CreateLock,
              LockTaken, Stat, Steal, LockTimeout, Compile, CompileFails, Publish, PublishFails,
              Trim, Evict, shared
<1>4. ASSUME NEW w \in Workers, NEW k \in Keys, Request(w, k) PROVE UNCHANGED <<slot, free>>
  BY <1>4 DEF Request, shared
<1>5. ASSUME NEW p \in Processes, Crash(p)
      PROVE  slot' = {w \in slot : ProcessOf[w] # p} /\ free' = [free EXCEPT ![p] = Jobs]
  BY <1>5 DEF Crash, RequestInv
<1>6. CASE UNCHANGED vars \/ \E k \in Keys : Age(k)
  BY <1>6 DEF vars, shared, Age
<1> QED
  BY <1>1, <1>2, <1>3, <1>4, <1>5, <1>6 DEF Next, Serve

\* No step loses a slot or makes one up.
LEMMA SlotKept ==
    ASSUME Shape, RequestInv, SlotInv, [Next]_vars
    PROVE  SlotInv'
<1> DEFINE Of(S, p) == {w \in S : ProcessOf[w] = p}
           Conserved(F, S) == /\ F \in [Processes -> 0 .. Jobs]
                              /\ \A p \in Processes : F[p] + Cardinality(Of(S, p)) = Jobs
<1>0. /\ Jobs \in Nat /\ free \in [Processes -> 0 .. Jobs] /\ slot \subseteq Workers
      /\ ProcessOf \in [Workers -> Processes]
  BY CompilerConstants DEF SlotInv, RequestInv
<1>1. ASSUME NEW p \in Processes
      PROVE  /\ IsFiniteSet(Of(slot, p)) /\ Cardinality(Of(slot, p)) \in Nat
             /\ free[p] + Cardinality(Of(slot, p)) = Jobs
  <2>1. Of(slot, p) \subseteq Workers /\ IsFiniteSet(Workers)
    BY <1>0, CompilerConstants
  <2>2. IsFiniteSet(Of(slot, p)) /\ Cardinality(Of(slot, p)) \in Nat
    BY <2>1, FS_Subset, FS_CardinalityType
  <2> QED
    BY <2>2 DEF SlotInv, SlotsOf
<1>2. ASSUME NEW S, NEW F, Conserved(F, S), slot' = S, free' = F PROVE SlotInv'
  BY <1>2 DEF SlotInv, SlotsOf
<1>3. CASE UNCHANGED <<slot, free>>
  BY <1>3 DEF SlotInv, SlotsOf
<1>4. ASSUME NEW w \in slot PROVE Conserved([free EXCEPT ![ProcessOf[w]] = free[ProcessOf[w]] + 1], slot \ {w})
  <2> DEFINE q == ProcessOf[w]
             F == [free EXCEPT ![q] = free[q] + 1]
  <2>1. q \in Processes
    BY <1>0
  <2>2. Of(slot \ {w}, q) = Of(slot, q) \ {w} /\ w \in Of(slot, q)
    OBVIOUS
  <2>3. Cardinality(Of(slot \ {w}, q)) = Cardinality(Of(slot, q)) - 1 /\ Cardinality(Of(slot \ {w}, q)) \in Nat
    BY <1>1, <2>1, <2>2, FS_RemoveElement, FS_CardinalityType
  <2>4. \A p \in Processes \ {q} : Of(slot \ {w}, p) = Of(slot, p)
    OBVIOUS
  <2>5. free[q] \in 0 .. Jobs /\ free[q] + 1 \in 0 .. Jobs /\ free[q] + 1 + Cardinality(Of(slot \ {w}, q)) = Jobs
    <3> HIDE DEF Of
    <3> QED
    BY <1>0, <1>1, <2>1, <2>3
  <2> HIDE DEF Of, q
  <2>6. F \in [Processes -> 0 .. Jobs] /\ F[q] = free[q] + 1 /\ \A p \in Processes \ {q} : F[p] = free[p]
    BY <1>0, <2>1, <2>5
  <2>7. \A p \in Processes : F[p] + Cardinality(Of(slot \ {w}, p)) = Jobs
    BY <1>1, <2>1, <2>4, <2>5, <2>6
  <2> QED
    BY <2>6, <2>7 DEF q
<1>5. ASSUME NEW w \in Workers \ slot, free[ProcessOf[w]] > 0
      PROVE  Conserved([free EXCEPT ![ProcessOf[w]] = free[ProcessOf[w]] - 1], slot \union {w})
  <2> DEFINE q == ProcessOf[w]
             F == [free EXCEPT ![q] = free[q] - 1]
  <2>1. q \in Processes /\ free[q] > 0
    BY <1>0, <1>5
  <2>2. Of(slot \union {w}, q) = Of(slot, q) \union {w} /\ w \notin Of(slot, q)
    OBVIOUS
  <2>3. Cardinality(Of(slot \union {w}, q)) = Cardinality(Of(slot, q)) + 1
    BY <1>1, <2>1, <2>2, FS_AddElement
  <2>4. \A p \in Processes \ {q} : Of(slot \union {w}, p) = Of(slot, p)
    OBVIOUS
  <2> HIDE DEF Of, q
  <2>5. free[q] - 1 \in 0 .. Jobs /\ free[q] - 1 + Cardinality(Of(slot \union {w}, q)) = Jobs
    BY <1>0, <1>1, <2>1, <2>3
  <2>6. F \in [Processes -> 0 .. Jobs] /\ F[q] = free[q] - 1 /\ \A p \in Processes \ {q} : F[p] = free[p]
    BY <1>0, <2>1, <2>5
  <2>7. \A p \in Processes : F[p] + Cardinality(Of(slot \union {w}, p)) = Jobs
    BY <1>1, <2>1, <2>4, <2>5, <2>6
  <2> QED
    BY <2>6, <2>7 DEF q
<1>6. ASSUME NEW q \in Processes
      PROVE  Conserved([free EXCEPT ![q] = Jobs], {w \in slot : ProcessOf[w] # q})
  <2> DEFINE S == {w \in slot : ProcessOf[w] # q}
             F == [free EXCEPT ![q] = Jobs]
  <2>1. Of(S, q) = {} /\ \A p \in Processes \ {q} : Of(S, p) = Of(slot, p)
    OBVIOUS
  <2>2. Cardinality(Of(S, q)) = 0
    BY <2>1, FS_EmptySet
  <2>3. F \in [Processes -> 0 .. Jobs] /\ F[q] = Jobs /\ \A p \in Processes \ {q} : F[p] = free[p]
    BY <1>0
  <2> HIDE DEF Of, S, F
  <2>4. \A p \in Processes : F[p] + Cardinality(Of(S, p)) = Jobs
    BY <1>0, <1>1, <2>1, <2>2, <2>3
  <2> QED
    BY <2>3, <2>4 DEF S, F
<1> HIDE DEF Conserved
<1> QED
  BY <1>2, <1>3, <1>4, <1>5, <1>6, SlotStep

\* A file or a response gets what another one had, nothing, or the result of
\* the compile that is just done.
LEMMA FilesStep ==
    ASSUME Shape, [Next]_vars
    PROVE  /\ \A w \in Workers : \A f \in FileNames :
                \/ read'[w][f] \in {read[w][f], None}
                \/ \E k \in Keys : read'[w][f] = disk[k][f]
                \/ compiles' = compiles + 1 /\ read'[w][f] = Compiled(compiles + 1)[f]
           /\ \A k \in Keys : \A f \in FileNames :
                \/ disk'[k][f] \in {disk[k][f], None}
                \/ \E w \in Workers : disk'[k][f] = read[w][f]
<1> DEFINE Fetched(w, f) == \/ read'[w][f] \in {read[w][f], None}
                            \/ \E k \in Keys : read'[w][f] = disk[k][f]
                            \/ compiles' = compiles + 1 /\ read'[w][f] = Compiled(compiles + 1)[f]
           Stored(k, f) == \/ disk'[k][f] \in {disk[k][f], None}
                           \/ \E w \in Workers : disk'[k][f] = read[w][f]
           Goal == /\ \A w \in Workers : \A f \in FileNames : Fetched(w, f)
                   /\ \A k \in Keys : \A f \in FileNames : Stored(k, f)
           ReadKept == \A w \in Workers : \A f \in FileNames : read'[w][f] \in {read[w][f], None}
<1>0. /\ read \in [Workers -> [FileNames -> Stuff]] /\ disk \in [Keys -> [FileNames -> Stuff]]
      /\ key \in [Workers -> Keys] /\ \A f \in FileNames : Nothing[f] = None
  BY DEF Shape, Nothing
<1>1. ASSUME ReadKept, Loses PROVE Goal
  BY <1>1 DEF Loses
<1>2. ASSUME NEW w \in Workers, Return(w) \/ Reject(w) PROVE ReadKept
  <2>1. read' = [read EXCEPT ![w] = Nothing]
    BY <1>2 DEF Return, Reject
  <2> QED
    BY <1>0, <2>1
<1>3. ASSUME NEW w \in Workers,
             \/ Exists(w) \/ KeyMutex(w) \/ AcquireSlot(w) \/ CreateLock(w) \/ LockTaken(w)
             \/ Stat(w) \/ Steal(w)
      PROVE  Goal
  <2>1. read' = read /\ disk' = disk
    BY <1>3 DEF Exists, KeyMutex, AcquireSlot, CreateLock, LockTaken, Stat, Steal, shared
  <2> QED
    BY <1>1, <2>1 DEF Loses
<1>4. ASSUME NEW w \in Workers,
             ReadFile(w, "artifact", "manifest") \/ ReadFile(w, "manifest", "complete")
      PROVE  Goal
  <2>1. /\ disk' = disk
        /\ Reject(w) \/ \E g \in FileNames : read' = [read EXCEPT ![w][g] = disk[key[w]][g]]
    BY <1>4 DEF ReadFile, FileNames
  <2>2. CASE Reject(w)
    BY <1>1, <1>2, <2>1, <2>2 DEF Loses
  <2>3. ASSUME NEW g \in FileNames, read' = [read EXCEPT ![w][g] = disk[key[w]][g]]
        PROVE  Goal
    <3>1. \A v \in Workers : \A f \in FileNames :
            read'[v][f] = IF v = w /\ f = g THEN disk[key[w]][f] ELSE read[v][f]
      BY <1>0, <2>3
    <3> QED
      BY <1>0, <2>1, <3>1
  <2> QED
    BY <2>1, <2>2, <2>3
<1>5. ASSUME NEW w \in Workers,
             ReadMarker(w) \/ LockTimeout(w) \/ CompileFails(w) \/ PublishFails(w)
      PROVE  Goal
  <2>1. disk' = disk /\ (Return(w) \/ Reject(w))
    BY <1>5 DEF ReadMarker, LockTimeout, CompileFails, PublishFails
  <2> QED
    BY <1>1, <1>2, <2>1 DEF Loses
<1>6. ASSUME NEW w \in Workers, Clean(w) PROVE Goal
  <2>1. read' = read /\ disk' = [disk EXCEPT ![key[w]][Head(todo[w])] = None]
    BY <1>6 DEF Clean
  <2>2. Loses
    BY <1>0, <2>1 DEF Loses
  <2> QED
    BY <1>1, <2>1, <2>2
<1>7. ASSUME NEW w \in Workers, Compile(w) PROVE Goal
  <2>1. /\ read' = [read EXCEPT ![w] = Compiled(compiles + 1)] /\ disk' = disk
        /\ compiles' = compiles + 1
    BY <1>7 DEF Compile, shared
  <2>2. \A v \in Workers : v # w => read'[v] = read[v]
    BY <1>0, <2>1
  <2>3. read'[w] = Compiled(compiles + 1)
    BY <1>0, <2>1
  <2> QED
    BY <2>1, <2>2, <2>3
<1>8. ASSUME NEW w \in Workers, Publish(w) PROVE Goal
  <2>1. read' = read /\ disk' = [disk EXCEPT ![key[w]][Head(todo[w])] = read[w][Head(todo[w])]]
    BY <1>8 DEF Publish
  <2>2. \A k \in Keys : \A f \in FileNames :
          disk'[k][f] = IF k = key[w] /\ f = Head(todo[w]) THEN read[w][f] ELSE disk[k][f]
    BY <1>0, <2>1
  <2> QED
    BY <2>1, <2>2
<1>9. ASSUME NEW w \in Workers, Trim(w) PROVE Goal
  <2>1. disk' = disk /\ (Return(w) \/ read' = read)
    BY <1>9 DEF Trim
  <2> QED
    BY <1>1, <1>2, <2>1 DEF Loses
<1>10. ASSUME NEW w \in Workers, Evict(w) PROVE Goal
  <2>1. /\ \E k : disk' = [disk EXCEPT ![k][Head(todo[w])] = None]
        /\ Return(w) \/ read' = read
    BY <1>10 DEF Evict
  <2>2. Loses
    BY <1>0, <2>1 DEF Loses
  <2> QED
    BY <1>1, <1>2, <2>1, <2>2
<1>11. ASSUME NEW w \in Workers, NEW k \in Keys, Request(w, k) PROVE Goal
  <2>1. read' = [read EXCEPT ![w] = Nothing] /\ disk' = disk
    BY <1>11 DEF Request, shared
  <2>2. ReadKept
    BY <1>0, <2>1
  <2> QED
    BY <1>1, <2>1, <2>2 DEF Loses
<1>12. ASSUME NEW p \in Processes, Crash(p) PROVE Goal
  <2>1. disk' = disk /\ \A w \in Workers : read'[w] \in {read[w], Nothing}
    BY <1>12 DEF Crash
  <2>2. ReadKept
    BY <1>0, <2>1
  <2> QED
    BY <1>1, <2>1, <2>2 DEF Loses
<1>13. ASSUME UNCHANGED vars \/ \E k \in Keys : Age(k) PROVE Goal
  <2>1. read' = read /\ disk' = disk
    BY <1>13 DEF vars, local, shared, Age
  <2> QED
    BY <1>1, <2>1 DEF Loses
<1> HIDE DEF Goal
<1>14. ASSUME NEW w \in Workers, Serve(w) \/ CompileFails(w) \/ PublishFails(w) PROVE Goal
  BY <1>3, <1>4, <1>5, <1>6, <1>7, <1>8, <1>9, <1>10, <1>14 DEF Serve
<1>15. Goal
  BY <1>11, <1>12, <1>13, <1>14 DEF Next
<1> QED
  BY <1>15 DEF Goal

\* The compiles there have been are no more than the requests.
LEMMA CompilesBounded ==
    ASSUME NEW n \in Nat, NEW r \in 0 .. MaxRequests, NEW D \in SUBSET Workers,
           n + Cardinality(D) <= r
    PROVE  n \in 0 .. MaxRequests
<1>1. IsFiniteSet(D)
  BY CompilerConstants, FS_Subset
<1>2. Cardinality(D) \in Nat
  BY <1>1, FS_CardinalityType
<1> QED
  BY <1>2, CompilerConstants

\* Every step leaves in every file what a file of that name may hold.
LEMMA FilesKept ==
    ASSUME Shape, FilesInv, [Next]_vars, compiles' \in 0 .. MaxRequests
    PROVE  FilesInv'
<1>1. ASSUME NEW f \in FileNames, compiles' = compiles + 1
      PROVE  Holds(f, Compiled(compiles + 1)[f])
  <2>1. compiles + 1 \in Versions
    BY <1>1 DEF Versions
  <2>2. Compiled(compiles + 1)[f] = IF f = "complete" THEN <<compiles + 1, compiles + 1>> ELSE compiles + 1
    BY <1>1 DEF Compiled
  <2> QED
    BY <2>1, <2>2 DEF Holds, Pairs
<1>2. \A f \in FileNames : Holds(f, None)
  BY DEF Holds
<1> QED
  BY <1>1, <1>2, FilesStep DEF FilesInv

\* The service starts within its bounds.
LEMMA BoundsInit ==
    ASSUME Init
    PROVE  RequestInv /\ DueInv /\ SlotInv /\ FilesInv
<1>0. /\ Jobs \in Nat /\ MaxAttempts \in Nat /\ MaxRequests \in Nat /\ MaxCrashes \in Nat
      /\ MaxErrors \in Nat
  BY CompilerConstants
<1>1. RequestInv
  <2>1. todo \in [Workers -> Seq(FileNames)]
    BY TodoLists DEF Init
  <2>2. attempt \in [Workers -> 0 .. MaxAttempts] /\ victims \in [Workers -> SUBSET Keys]
    BY <1>0 DEF Init
  <2> QED
    BY <1>0, <2>1, <2>2 DEF Init, RequestInv
<1>2. DueInv
  <2>1. Due = {}
    BY DEF Init, Due, Reading, Waiting
  <2> QED
    BY <2>1, FS_EmptySet DEF Init, DueInv
<1>3. SlotInv
  <2>1. \A p \in Processes : SlotsOf(p) = {}
    BY DEF Init, SlotsOf
  <2>2. free \in [Processes -> 0 .. Jobs] /\ \A p \in Processes : free[p] = Jobs
    BY <1>0 DEF Init
  <2> QED
    BY <1>0, <2>1, <2>2, FS_EmptySet DEF SlotInv
<1>4. FilesInv
  <2>1. 0 \in Versions /\ \A f \in FileNames : Nothing[f] = None
    BY <1>0 DEF Versions, Nothing
  <2>2. \A f \in FileNames : Compiled(0)[f] = IF f = "complete" THEN <<0, 0>> ELSE 0
    BY DEF Compiled
  <2>3. \A f \in FileNames : Holds(f, Nothing[f]) /\ Holds(f, Compiled(0)[f])
    BY <2>1, <2>2 DEF Holds, Pairs
  <2>4. /\ \A w \in Workers : read[w] = Nothing
        /\ \A k \in Keys : disk[k] = Compiled(0) \/ disk[k] = Nothing
    BY DEF Init
  <2> QED
    BY <2>3, <2>4 DEF FilesInv
<1> QED
  BY <1>1, <1>2, <1>3, <1>4

\* The types, the conservation of the slots and the bounds, from the parts
LEMMA BoundsType ==
    ASSUME Shape, RequestInv, DueInv, SlotInv, FilesInv
    PROVE  TypeOK
<1>1. compiles \in 0 .. MaxRequests
  BY CompilesBounded DEF Shape, RequestInv, DueInv, Due
<1>2. ASSUME NEW c \in [FileNames -> Stuff], \A f \in FileNames : Holds(f, c[f])
      PROVE  Contents(c)
  BY <1>2 DEF Contents, Holds, FileNames
<1>3. (\A w \in Workers : Contents(read[w])) /\ (\A k \in Keys : Contents(disk[k]))
  BY <1>2 DEF Shape, FilesInv
<1>4. \A p \in Processes : free[p] + Cardinality({w \in slot : ProcessOf[w] = p}) = Jobs
  BY DEF SlotInv, SlotsOf
<1> QED
  BY <1>1, <1>3, <1>4 DEF TypeOK, Shape, RequestInv, SlotInv

\* At any moment a process's free slots and the requests that hold one add up
\* to --jobs: no way out of compile(), by a hit, a timeout, a failing compile
\* or rename, an eviction or a crash, keeps or invents a slot; no request
\* compiles twice, and no file ever holds what its name does not promise.
THEOREM CompilerTypes == Spec => []TypeOK
<1>1. Init => Shape /\ RequestInv /\ DueInv /\ SlotInv /\ FilesInv
  BY CompilerStarts, BoundsInit DEF CompilerInv
<1>2. Shape /\ RequestInv /\ DueInv /\ SlotInv /\ FilesInv /\ [Next]_vars
        => (Shape /\ RequestInv /\ DueInv /\ SlotInv /\ FilesInv)'
  <2> SUFFICES ASSUME Shape, RequestInv, DueInv, SlotInv, FilesInv, [Next]_vars
               PROVE  (Shape /\ RequestInv /\ DueInv /\ SlotInv /\ FilesInv)'
    OBVIOUS
  <2>1. Shape' /\ RequestInv' /\ DueInv' /\ SlotInv'
    BY ShapeKept, RequestKept, DueKept, SlotKept
  <2>2. compiles' \in 0 .. MaxRequests
    <3>1. Due' \subseteq Workers
      BY DEF Due
    <3>2. compiles' \in Nat /\ requests' \in 0 .. MaxRequests /\ compiles' + Cardinality(Due') <= requests'
      BY <2>1 DEF Shape, RequestInv, DueInv
    <3> QED
      BY <3>1, <3>2, CompilesBounded
  <2>3. FilesInv'
    BY <2>1, <2>2, FilesKept
  <2> QED
    BY <2>1, <2>3
<1>3. Shape /\ RequestInv /\ DueInv /\ SlotInv /\ FilesInv => TypeOK
  BY BoundsType
<1> QED
  BY <1>1, <1>2, <1>3, PTL DEF Spec
==============================================================================
