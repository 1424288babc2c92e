--------------------------- MODULE XdnaCacheProofs ---------------------------
(***************************************************************************)
(* Mutual exclusion and the compile-once guarantee of the XDNA cache, for  *)
(* any number of processes, threads, keys, requests and crashes, evictions *)
(* going on all the while.                                                 *)
(***************************************************************************)
EXTENDS XdnaCache, TLAPS

\* Who holds a key's flock is inside the locked block, for that key.
LockInv ==
    /\ \A k \in Keys : flock[k] \in Workers =>
         /\ key[flock[k]] = k
         /\ pc[flock[k]] \in {"load", "touch", "exists", "rename", "rmtree", "build", "publish"}
    /\ \A w \in Workers : pc[w] \in {"exists", "build", "publish"} => Holds(w)
    /\ \A w \in Workers : pc[w] \in {"rename", "rmtree"} /\ Holds(w) => path[w] = key[w]

\* Directory numbers are fresh: nobody shares one, and one that is yet to be
\* published is not linked.
SerialInv ==
    /\ \A w \in Workers : serial[w] <= requests
    /\ \A k \in Keys : link[k] <= requests
    /\ \A v, w \in Workers : serial[v] = serial[w] => v = w \/ serial[v] = NoDir
    /\ \A w \in Workers : pc[w] \notin {"idle", "scan", "evict", "rename", "rmtree", "rmfiles"} =>
         serial[w] # NoDir /\ \A k \in Keys : link[k] # serial[w]
    /\ \A w \in Workers : pc[w] \in {"rename", "rmtree"} /\ Holds(w) =>
         serial[w] # NoDir /\ \A k \in Keys : link[k] # serial[w]

-----------------------------------------------------------------------------

\* Every step keeps the types.
LEMMA TypePreserved ==
    ASSUME TypeOK, [Next]_vars
    PROVE  TypeOK'
<1> USE DEF TypeOK, Locations
<1>1. ASSUME NEW w \in Workers, LoadEntry(w) PROVE TypeOK'
  BY <1>1 DEF LoadEntry, goto, disk, locks, local, counters
<1>2. ASSUME NEW w \in Workers, Touch(w) PROVE TypeOK'
  BY <1>2, SMTT(40) DEF Touch, goto, Release, local, counters
<1>3. ASSUME NEW w \in Workers, ThreadLock(w) PROVE TypeOK'
  BY <1>3 DEF ThreadLock, goto, disk, local, counters
<1>4. ASSUME NEW w \in Workers, Flock(w) PROVE TypeOK'
  BY <1>4 DEF Flock, goto, disk, local, counters
<1>5. ASSUME NEW w \in Workers, EntryExists(w) PROVE TypeOK'
  BY <1>5 DEF EntryExists, goto, disk, locks, counters
<1>6. ASSUME NEW w \in Workers, Build(w) PROVE TypeOK'
  BY <1>6, OutputsType DEF Build, goto, disk, locks, counters
<1>7. ASSUME NEW w \in Workers, BuildFails(w) PROVE TypeOK'
  BY <1>7 DEF BuildFails, goto, Release, disk, local, counters
<1>8. ASSUME NEW w \in Workers, Publish(w) PROVE TypeOK'
  <2> DEFINE d == serial[w]
  <2>1. d \in Dirs \union {NoDir} /\ made[w] \in SUBSET Outputs /\ key[w] \in Keys
    OBVIOUS
  <2>2. /\ link' = [link EXCEPT ![key[w]] = d]
        /\ files' = [files EXCEPT ![d] = made[w] \union {Manifest}]
        /\ listed' = [listed EXCEPT ![d] = made[w]]
        /\ mtime' = [mtime EXCEPT ![key[w]] = clock + 1] /\ clock' = clock + 1
    BY <1>8 DEF Publish
  <2> HIDE DEF d
  <2>3. link' \in [Keys -> Dirs \union {NoDir}]
    BY <2>1, <2>2
  <2>4. files' \in [Dirs -> SUBSET (Outputs \union {Manifest})]
    BY <2>1, <2>2
  <2>5. listed' \in [Dirs -> SUBSET Outputs]
    BY <2>1, <2>2
  <2>6. mtime' \in [Keys -> Nat] /\ clock' \in Nat
    BY <2>1, <2>2
  <2>7. flock' \in [Keys -> Workers \union {NoWorker}]
        /\ thread_lock' \in [Procs -> [Keys -> Workers \union {NoWorker}]]
    BY <1>8 DEF Publish, Release
  <2> QED
    BY <1>8, <2>3, <2>4, <2>5, <2>6, <2>7 DEF Publish, goto, local, counters
<1>9. ASSUME NEW w \in Workers, Rename(w) PROVE TypeOK'
  BY <1>9 DEF Rename, goto, AfterRemove, locks, local, counters
<1>10. ASSUME NEW w \in Workers, RmtreeOpen(w) PROVE TypeOK'
  BY <1>10 DEF RmtreeOpen, goto, AfterRemove, disk, locks, counters
<1>11. ASSUME NEW w \in Workers, RmtreeUnlink(w) PROVE TypeOK'
  BY <1>11 DEF RmtreeUnlink, goto, locks, local, counters
<1>12. ASSUME NEW w \in Workers, RmtreeRmdir(w) PROVE TypeOK'
  BY <1>12 DEF RmtreeRmdir, goto, AfterRemove, locks, local, counters
<1>13. ASSUME NEW w \in Workers, Scan(w) PROVE TypeOK'
  <2>1. \A V \in SUBSET Entries : V \in SUBSET Keys
    BY DEF Entries
  <2>2. victims' \in [Workers -> SUBSET Keys]
    BY <1>13, <2>1 DEF Scan
  <2> QED
    BY <1>13, <2>2 DEF Scan, goto, disk, locks, counters
<1>14. ASSUME NEW w \in Workers, EvictOne(w) PROVE TypeOK'
  BY <1>14 DEF EvictOne, goto, disk, locks, counters
<1>15. ASSUME NEW w \in Workers, EvictDone(w) PROVE TypeOK'
  BY <1>15 DEF EvictDone, goto, disk, locks, local, counters
<1>16. ASSUME NEW w \in Workers, NEW k \in Keys, Request(w, k) PROVE TypeOK'
  <2>1. requests + 1 \in Dirs /\ requests' \in 0..MaxRequests
    BY <1>16, LimitsType DEF Request, Dirs
  <2> QED
    BY <1>16, <2>1 DEF Request, goto, disk, locks
<1>17. ASSUME NEW p \in Procs, Crash(p) PROVE TypeOK'
  <2>1. crashes' \in 0..MaxCrashes
    BY <1>17, LimitsType DEF Crash
  <2>2. flock' \in [Keys -> Workers \union {NoWorker}]
    BY <1>17 DEF Crash
  <2>3. thread_lock' \in [Procs -> [Keys -> Workers \union {NoWorker}]]
    BY <1>17 DEF Crash
  <2> QED
    BY <1>17, <2>1, <2>2, <2>3 DEF Crash, disk, local
<1>18. CASE UNCHANGED vars
  BY <1>18 DEF vars, disk, locks, local, counters
<1> QED
  BY <1>1, <1>2, <1>3, <1>4, <1>5, <1>6, <1>7, <1>8, <1>9,
     <1>10, <1>11, <1>12, <1>13, <1>14, <1>15, <1>16, <1>17, <1>18
     DEF Next, Step

\* Every step keeps the locking discipline.
LEMMA LockPreserved ==
    ASSUME TypeOK, LockInv, CompilesOnlyWhenNeeded, [Next]_vars
    PROVE  LockInv'
<1> USE DEF TypeOK, LockInv, Holds
<1>1. ASSUME NEW w \in Workers, LoadEntry(w) PROVE LockInv'
  BY <1>1, NoWorkerFresh DEF LoadEntry, goto, disk, locks, local, counters
<1>2. ASSUME NEW w \in Workers, Touch(w) PROVE LockInv'
  BY <1>2, NoWorkerFresh DEF Touch, goto, Release, local, counters
<1>3. ASSUME NEW w \in Workers, ThreadLock(w) PROVE LockInv'
  BY <1>3, NoWorkerFresh DEF ThreadLock, goto, disk, local, counters
<1>4. ASSUME NEW w \in Workers, Flock(w) PROVE LockInv'
  BY <1>4, NoWorkerFresh DEF Flock, goto, disk, local, counters
<1>5. ASSUME NEW w \in Workers, EntryExists(w) PROVE LockInv'
  BY <1>5, NoWorkerFresh DEF EntryExists, goto, disk, locks, counters
<1>6. ASSUME NEW w \in Workers, Build(w) PROVE LockInv'
  BY <1>6, NoWorkerFresh DEF Build, goto, disk, locks, counters
<1>7. ASSUME NEW w \in Workers, BuildFails(w) PROVE LockInv'
  BY <1>7, NoWorkerFresh DEF BuildFails, goto, Release, disk, local, counters
<1>8. ASSUME NEW w \in Workers, Publish(w) PROVE LockInv'
  BY <1>8, NoWorkerFresh DEF Publish, goto, Release, local, counters
<1>9. ASSUME NEW w \in Workers, Rename(w) PROVE LockInv'
  BY <1>9, NoWorkerFresh DEF Rename, goto, AfterRemove, locks, local, counters
<1>10. ASSUME NEW w \in Workers, RmtreeOpen(w) PROVE LockInv'
  BY <1>10, NoWorkerFresh DEF RmtreeOpen, goto, AfterRemove, disk, locks, counters, CompilesOnlyWhenNeeded
<1>11. ASSUME NEW w \in Workers, RmtreeUnlink(w) PROVE LockInv'
  BY <1>11, NoWorkerFresh DEF RmtreeUnlink, goto, locks, local, counters
<1>12. ASSUME NEW w \in Workers, RmtreeRmdir(w) PROVE LockInv'
  BY <1>12, NoWorkerFresh DEF RmtreeRmdir, goto, AfterRemove, locks, local, counters
<1>13. ASSUME NEW w \in Workers, Scan(w) PROVE LockInv'
  BY <1>13, NoWorkerFresh DEF Scan, goto, disk, locks, counters
<1>14. ASSUME NEW w \in Workers, EvictOne(w) PROVE LockInv'
  BY <1>14, NoWorkerFresh DEF EvictOne, goto, disk, locks, counters
<1>15. ASSUME NEW w \in Workers, EvictDone(w) PROVE LockInv'
  BY <1>15, NoWorkerFresh DEF EvictDone, goto, disk, locks, local, counters
<1>16. ASSUME NEW w \in Workers, NEW k \in Keys, Request(w, k) PROVE LockInv'
  BY <1>16, NoWorkerFresh DEF Request, goto, disk, locks
<1>17. ASSUME NEW p \in Procs, Crash(p) PROVE LockInv'
  BY <1>17, NoWorkerFresh DEF Crash, disk, local
<1>18. CASE UNCHANGED vars
  BY <1>18, NoWorkerFresh DEF vars, disk, locks, local, counters
<1> QED
  BY <1>1, <1>2, <1>3, <1>4, <1>5, <1>6, <1>7, <1>8, <1>9,
     <1>10, <1>11, <1>12, <1>13, <1>14, <1>15, <1>16, <1>17, <1>18
     DEF Next, Step

\* A worker that picks the next victim, or removes its files, holds no flock.
LEMMA EvictsUnlocked ==
    ASSUME TypeOK, LockInv, NEW w \in Workers, pc[w] \in {"evict", "rmfiles"}
    PROVE  ~Holds(w)
<1>1. key[w] \in Keys
  BY DEF TypeOK
<1>2. ASSUME flock[key[w]] = w PROVE pc[w] \notin {"evict", "rmfiles"}
  BY <1>1, <1>2 DEF LockInv
<1> QED
  BY <1>2 DEF Holds

\* Every step keeps directory numbers fresh.
LEMMA SerialPreserved ==
    ASSUME TypeOK, LockInv, SerialInv, [Next]_vars
    PROVE  SerialInv'
<1> USE DEF TypeOK, LockInv, SerialInv, Holds, Dirs, NoDir
<1>1. ASSUME NEW w \in Workers, LoadEntry(w) PROVE SerialInv'
  BY <1>1, NoWorkerFresh, LimitsType DEF LoadEntry, goto, disk, locks, local, counters
<1>2. ASSUME NEW w \in Workers, Touch(w) PROVE SerialInv'
  BY <1>2, NoWorkerFresh, LimitsType DEF Touch, goto, Release, local, counters
<1>3. ASSUME NEW w \in Workers, ThreadLock(w) PROVE SerialInv'
  BY <1>3, NoWorkerFresh, LimitsType DEF ThreadLock, goto, disk, local, counters
<1>4. ASSUME NEW w \in Workers, Flock(w) PROVE SerialInv'
  BY <1>4, NoWorkerFresh, LimitsType DEF Flock, goto, disk, local, counters
<1>5. ASSUME NEW w \in Workers, EntryExists(w) PROVE SerialInv'
  BY <1>5, NoWorkerFresh, LimitsType DEF EntryExists, goto, disk, locks, counters
<1>6. ASSUME NEW w \in Workers, Build(w) PROVE SerialInv'
  BY <1>6, NoWorkerFresh, LimitsType DEF Build, goto, disk, locks, counters
<1>7. ASSUME NEW w \in Workers, BuildFails(w) PROVE SerialInv'
  BY <1>7, NoWorkerFresh, LimitsType DEF BuildFails, goto, Release, disk, local, counters
<1>8. ASSUME NEW w \in Workers, Publish(w) PROVE SerialInv'
  BY <1>8, NoWorkerFresh, LimitsType DEF Publish, goto, Release, local, counters
<1>9. ASSUME NEW w \in Workers, Rename(w) PROVE SerialInv'
  BY <1>9, NoWorkerFresh, LimitsType DEF Rename, goto, AfterRemove, locks, local, counters
<1>10. ASSUME NEW w \in Workers, RmtreeOpen(w) PROVE SerialInv'
  BY <1>10, NoWorkerFresh, LimitsType DEF RmtreeOpen, goto, AfterRemove, disk, locks, counters
<1>11. ASSUME NEW w \in Workers, RmtreeUnlink(w) PROVE SerialInv'
  BY <1>11, NoWorkerFresh, LimitsType DEF RmtreeUnlink, goto, locks, local, counters
<1>12. ASSUME NEW w \in Workers, RmtreeRmdir(w) PROVE SerialInv'
  <2>1. pc[w] = "rmfiles" /\ ~Holds(w)
    <3>1. pc[w] = "rmfiles"
      BY <1>12 DEF RmtreeRmdir
    <3> QED
      BY <3>1, EvictsUnlocked
  <2>2. pc' = [pc EXCEPT ![w] = "evict"] /\ UNCHANGED <<flock, key, serial, requests>>
    BY <1>12, <2>1 DEF RmtreeRmdir, goto, AfterRemove, locks, local, counters
  <2>3. \A k \in Keys : link'[k] = link[k] \/ link'[k] = NoDir
    BY <1>12 DEF RmtreeRmdir
  <2>4. \A v \in Workers : (v # w => pc'[v] = pc[v]) /\ (Holds(v)' <=> Holds(v))
    BY <2>2
  <2>5. pc'[w] \in {"evict", "rename"} /\ ~Holds(w)'
    BY <2>1, <2>2
  <2>6. /\ requests \in Nat /\ \A k \in Keys : link[k] \in Nat /\ link[k] <= requests
        /\ \A v \in Workers : serial[v] \in Nat
    BY LimitsType
  <2>7. \A v \in Workers :
          \/ pc[v] \notin {"idle", "scan", "evict", "rename", "rmtree", "rmfiles"}
          \/ pc[v] \in {"rename", "rmtree"} /\ Holds(v)
          => serial[v] # NoDir /\ \A k \in Keys : link[k] # serial[v]
    OBVIOUS
  <2>8. \A v, u \in Workers : serial[v] = serial[u] => v = u \/ serial[v] = NoDir
    OBVIOUS
  <2> HIDE DEF TypeOK, LockInv, SerialInv, Holds
  <2>9. \A k \in Keys : link'[k] <= requests /\ \A v \in Workers :
          serial[v] # NoDir /\ link[k] # serial[v] => link'[k] # serial[v]
    BY <2>3, <2>6
  <2>10. \A v \in Workers : serial[v] <= requests
    BY DEF SerialInv
  <2> QED
    BY <2>2, <2>4, <2>5, <2>7, <2>8, <2>9, <2>10 DEF SerialInv
<1>13. ASSUME NEW w \in Workers, Scan(w) PROVE SerialInv'
  BY <1>13, NoWorkerFresh, LimitsType DEF Scan, goto, disk, locks, counters
<1>14. ASSUME NEW w \in Workers, EvictOne(w) PROVE SerialInv'
  <2>1. pc[w] = "evict" /\ ~Holds(w)
    <3>1. pc[w] = "evict"
      BY <1>14 DEF EvictOne
    <3> QED
      BY <3>1, EvictsUnlocked
  <2>2. /\ pc' \in {[pc EXCEPT ![w] = "evict"], [pc EXCEPT ![w] = "rename"]}
        /\ UNCHANGED <<flock, key, serial, requests, link>>
    BY <1>14 DEF EvictOne, goto, disk, locks, counters
  <2>3. \A v \in Workers : (v # w => pc'[v] = pc[v]) /\ (Holds(v)' <=> Holds(v))
    BY <2>2
  <2>4. pc'[w] \in {"evict", "rename"} /\ ~Holds(w)'
    BY <2>1, <2>2
  <2>5. \A v \in Workers :
          \/ pc[v] \notin {"idle", "scan", "evict", "rename", "rmtree", "rmfiles"}
          \/ pc[v] \in {"rename", "rmtree"} /\ Holds(v)
          => serial[v] # NoDir /\ \A k \in Keys : link[k] # serial[v]
    OBVIOUS
  <2>6. /\ \A v \in Workers : serial[v] <= requests
        /\ \A k \in Keys : link[k] <= requests
        /\ \A v, u \in Workers : serial[v] = serial[u] => v = u \/ serial[v] = NoDir
    OBVIOUS
  <2> HIDE DEF TypeOK, LockInv, SerialInv, Holds
  <2>7. ASSUME NEW v \in Workers,
               pc'[v] \notin {"idle", "scan", "evict", "rename", "rmtree", "rmfiles"}
        PROVE  serial'[v] # NoDir /\ \A k \in Keys : link'[k] # serial'[v]
    BY <2>2, <2>3, <2>4, <2>5, <2>7
  <2>8. ASSUME NEW v \in Workers, pc'[v] \in {"rename", "rmtree"}, Holds(v)'
        PROVE  serial'[v] # NoDir /\ \A k \in Keys : link'[k] # serial'[v]
    <3>1. v # w /\ pc[v] = pc'[v] /\ Holds(v)
      BY <2>3, <2>4, <2>8
    <3> QED
      BY <2>2, <2>5, <2>8, <3>1
  <2>9. /\ \A v \in Workers : serial'[v] <= requests'
        /\ \A k \in Keys : link'[k] <= requests'
        /\ \A v, u \in Workers : serial'[v] = serial'[u] => v = u \/ serial'[v] = NoDir
    BY <2>2, <2>6
  <2> QED
    BY <2>7, <2>8, <2>9 DEF SerialInv
<1>15. ASSUME NEW w \in Workers, EvictDone(w) PROVE SerialInv'
  BY <1>15, NoWorkerFresh, LimitsType DEF EvictDone, goto, disk, locks, local, counters
<1>16. ASSUME NEW w \in Workers, NEW k \in Keys, Request(w, k) PROVE SerialInv'
  <2>1. /\ pc[w] = "idle" /\ requests' = requests + 1
        /\ serial' = [serial EXCEPT ![w] = requests + 1]
        /\ key' = [key EXCEPT ![w] = k] /\ pc' = [pc EXCEPT ![w] = "load"]
        /\ UNCHANGED <<flock, link>>
    BY <1>16 DEF Request, goto, disk, locks
  <2>2. requests \in Nat /\ requests + 1 > requests /\ requests + 1 # 0
    BY LimitsType
  <2>3. \A v \in Workers : serial[v] \in Nat /\ serial[v] # requests + 1
    BY <2>2, LimitsType
  <2>4. \A l \in Keys : link[l] \in Nat /\ link[l] # requests + 1
    BY <2>2, LimitsType
  <2>5. \A v \in Workers : v # w =>
          serial'[v] = serial[v] /\ key'[v] = key[v] /\ pc'[v] = pc[v]
    BY <2>1
  <2>6. serial'[w] = requests + 1 /\ pc'[w] = "load" /\ link' = link
    BY <2>1
  <2>7. \A v \in Workers : serial'[v] <= requests'
    BY <2>1, <2>2, <2>3, <2>5, <2>6
  <2>8. \A l \in Keys : link'[l] <= requests'
    BY <2>1, <2>2, <2>4
  <2>9. \A u, v \in Workers : serial'[u] = serial'[v] => u = v \/ serial'[u] = NoDir
    BY <2>3, <2>5, <2>6
  <2>10. \A v \in Workers : v # w => (Holds(v)' <=> Holds(v))
    BY <2>1, <2>5
  <2>13. /\ requests \in Nat /\ \A l \in Keys : link[l] \in Nat /\ link[l] <= requests
        /\ \A v \in Workers : serial[v] \in Nat
    BY LimitsType
  <2>14. \A v \in Workers :
          \/ pc[v] \notin {"idle", "scan", "evict", "rename", "rmtree", "rmfiles"}
          \/ pc[v] \in {"rename", "rmtree"} /\ Holds(v)
          => serial[v] # NoDir /\ \A l \in Keys : link[l] # serial[v]
    OBVIOUS
  <2> HIDE DEF TypeOK, LockInv, SerialInv, Holds
  <2>11. ASSUME NEW v \in Workers,
                pc'[v] \notin {"idle", "scan", "evict", "rename", "rmtree", "rmfiles"}
         PROVE  serial'[v] # NoDir /\ \A l \in Keys : link'[l] # serial'[v]
    BY <2>2, <2>4, <2>5, <2>6, <2>11, <2>14
  <2>12. ASSUME NEW v \in Workers, pc'[v] \in {"rename", "rmtree"}, Holds(v)'
         PROVE  serial'[v] # NoDir /\ \A l \in Keys : link'[l] # serial'[v]
    BY <2>5, <2>6, <2>10, <2>12, <2>14
  <2> QED
    BY <2>7, <2>8, <2>9, <2>11, <2>12 DEF SerialInv
<1>17. ASSUME NEW p \in Procs, Crash(p) PROVE SerialInv'
  BY <1>17, NoWorkerFresh, LimitsType DEF Crash, disk, local
<1>18. CASE UNCHANGED vars
  BY <1>18, NoWorkerFresh, LimitsType DEF vars, disk, locks, local, counters
<1> QED
  BY <1>1, <1>2, <1>3, <1>4, <1>5, <1>6, <1>7, <1>8, <1>9,
     <1>10, <1>11, <1>12, <1>13, <1>14, <1>15, <1>16, <1>17, <1>18
     DEF Next, Step

\* Every step compiles only what load_entry rejects.
LEMMA NeedPreserved ==
    ASSUME TypeOK, LockInv, SerialInv, CompilesOnlyWhenNeeded, [Next]_vars
    PROVE  CompilesOnlyWhenNeeded'
<1> USE DEF TypeOK, LockInv, SerialInv, CompilesOnlyWhenNeeded, Intact, Holds
<1>1. ASSUME NEW w \in Workers, LoadEntry(w) PROVE CompilesOnlyWhenNeeded'
  BY <1>1, NoWorkerFresh DEF LoadEntry, goto, disk, locks, local, counters
<1>2. ASSUME NEW w \in Workers, Touch(w) PROVE CompilesOnlyWhenNeeded'
  BY <1>2, NoWorkerFresh DEF Touch, goto, Release, local, counters
<1>3. ASSUME NEW w \in Workers, ThreadLock(w) PROVE CompilesOnlyWhenNeeded'
  BY <1>3, NoWorkerFresh DEF ThreadLock, goto, disk, local, counters
<1>4. ASSUME NEW w \in Workers, Flock(w) PROVE CompilesOnlyWhenNeeded'
  BY <1>4, NoWorkerFresh DEF Flock, goto, disk, local, counters
<1>5. ASSUME NEW w \in Workers, EntryExists(w) PROVE CompilesOnlyWhenNeeded'
  BY <1>5, NoWorkerFresh DEF EntryExists, goto, disk, locks, counters
<1>6. ASSUME NEW w \in Workers, Build(w) PROVE CompilesOnlyWhenNeeded'
  BY <1>6, NoWorkerFresh DEF Build, goto, disk, locks, counters
<1>7. ASSUME NEW w \in Workers, BuildFails(w) PROVE CompilesOnlyWhenNeeded'
  BY <1>7, NoWorkerFresh DEF BuildFails, goto, Release, disk, local, counters
<1>8. ASSUME NEW w \in Workers, Publish(w) PROVE CompilesOnlyWhenNeeded'
  <2> SUFFICES ASSUME NEW v \in Workers, Holds(v)'
               PROVE  /\ pc'[v] \in {"exists", "rename"} =>
                           link'[key[v]] = NoDir \/ ~Intact(link[key[v]])'
                      /\ pc'[v] \in {"rmtree", "build", "publish"} => link'[key[v]] = NoDir
    BY <1>8 DEF Publish, local
  <2>1. Holds(w) /\ pc[w] = "publish" /\ serial[w] # NoDir
    BY <1>8 DEF Publish
  <2>2. v # w /\ Holds(v)
    BY <1>8, NoWorkerFresh DEF Publish, Release, local
  <2>3. key[v] # key[w] /\ pc'[v] = pc[v]
    BY <1>8, <2>1, <2>2 DEF Publish, goto
  <2>4. link'[key[v]] = link[key[v]] /\ link[key[v]] # serial[w]
    BY <1>8, <2>1, <2>3 DEF Publish
  <2>5. link[key[v]] \in Dirs => /\ files'[link[key[v]]] = files[link[key[v]]]
                                /\ listed'[link[key[v]]] = listed[link[key[v]]]
    BY <1>8, <2>4 DEF Publish
  <2> QED
    BY <1>8, <2>2, <2>3, <2>4, <2>5 DEF Publish, local
<1>9. ASSUME NEW w \in Workers, Rename(w) PROVE CompilesOnlyWhenNeeded'
  BY <1>9, NoWorkerFresh DEF Rename, goto, AfterRemove, locks, local, counters
<1>10. ASSUME NEW w \in Workers, RmtreeOpen(w) PROVE CompilesOnlyWhenNeeded'
  BY <1>10, NoWorkerFresh DEF RmtreeOpen, goto, AfterRemove, disk, locks, counters
<1>11. ASSUME NEW w \in Workers, RmtreeUnlink(w) PROVE CompilesOnlyWhenNeeded'
  <2>1. UNCHANGED <<link, listed, flock, pc, key>>
    BY <1>11 DEF RmtreeUnlink, locks, local
  <2>2. \A d \in Dirs : files'[d] \subseteq files[d]
    BY <1>11 DEF RmtreeUnlink
  <2> SUFFICES ASSUME NEW v \in Workers, Holds(v)
               PROVE  /\ pc[v] \in {"exists", "rename"} =>
                           link[key[v]] = NoDir \/ ~Intact(link[key[v]])'
                      /\ pc[v] \in {"rmtree", "build", "publish"} => link[key[v]] = NoDir
    BY <2>1
  <2>3. link[key[v]] \in Dirs => (Intact(link[key[v]])' => Intact(link[key[v]]))
    BY <2>1, <2>2
  <2> QED
    BY <2>3
<1>12. ASSUME NEW w \in Workers, RmtreeRmdir(w) PROVE CompilesOnlyWhenNeeded'
  BY <1>12, NoWorkerFresh DEF RmtreeRmdir, goto, AfterRemove, locks, local, counters
<1>13. ASSUME NEW w \in Workers, Scan(w) PROVE CompilesOnlyWhenNeeded'
  BY <1>13, NoWorkerFresh DEF Scan, goto, disk, locks, counters
<1>14. ASSUME NEW w \in Workers, EvictOne(w) PROVE CompilesOnlyWhenNeeded'
  BY <1>14, NoWorkerFresh DEF EvictOne, goto, disk, locks, counters
<1>15. ASSUME NEW w \in Workers, EvictDone(w) PROVE CompilesOnlyWhenNeeded'
  BY <1>15, NoWorkerFresh DEF EvictDone, goto, disk, locks, local, counters
<1>16. ASSUME NEW w \in Workers, NEW k \in Keys, Request(w, k) PROVE CompilesOnlyWhenNeeded'
  BY <1>16, NoWorkerFresh DEF Request, goto, disk, locks
<1>17. ASSUME NEW p \in Procs, Crash(p) PROVE CompilesOnlyWhenNeeded'
  BY <1>17, NoWorkerFresh DEF Crash, disk, local
<1>18. CASE UNCHANGED vars
  BY <1>18, NoWorkerFresh DEF vars, disk, locks, local, counters
<1> QED
  BY <1>1, <1>2, <1>3, <1>4, <1>5, <1>6, <1>7, <1>8, <1>9,
     <1>10, <1>11, <1>12, <1>13, <1>14, <1>15, <1>16, <1>17, <1>18
     DEF Next, Step

\* The inductive invariant.
THEOREM CacheSafe == Spec => [](TypeOK /\ LockInv /\ SerialInv /\ CompilesOnlyWhenNeeded)
<1>1. Init => TypeOK /\ LockInv /\ SerialInv /\ CompilesOnlyWhenNeeded
  BY NoWorkerFresh, LimitsType
     DEF Init, TypeOK, Locations, LockInv, SerialInv, CompilesOnlyWhenNeeded, Holds, Dirs, NoDir
<1>2. TypeOK /\ LockInv /\ SerialInv /\ CompilesOnlyWhenNeeded /\ [Next]_vars
      => (TypeOK /\ LockInv /\ SerialInv /\ CompilesOnlyWhenNeeded)'
  BY TypePreserved, LockPreserved, SerialPreserved, NeedPreserved
<1> QED
  BY <1>1, <1>2, PTL DEF Spec

\* The cache keeps its types.
THEOREM CacheTypes == Spec => []TypeOK
BY CacheSafe, PTL

\* At most one worker of all the processes compiles a key at a time.
THEOREM CacheOneBuilder == Spec => []OneBuilder
<1>1. TypeOK /\ LockInv => OneBuilder
  BY DEF LockInv, OneBuilder, Holds
<1> QED
  BY CacheSafe, <1>1, PTL

\* Under the lock an entry is compiled again only if load_entry rejects it,
\* and publishing always finds the name free.
THEOREM CacheCompilesOnce == Spec => []CompilesOnlyWhenNeeded
BY CacheSafe, PTL
-----------------------------------------------------------------------------
(* Nothing partial stays behind.                                           *)

\* A request whose directory is yet to be published.
Pending(w) ==
    \/ pc[w] \notin {"idle", "scan", "evict", "rename", "rmtree", "rmfiles"}
    \/ pc[w] \in {"rename", "rmtree"} /\ Holds(w)

\* A directory has one name only, and the one an rmtree has open is not about
\* to be given another: what it empties is what its rmdir takes away.
TargetInv ==
    /\ \A k, l \in Keys : link[k] = link[l] => k = l \/ link[k] = NoDir
    /\ \A w \in Workers : pc[w] = "rmfiles" =>
         /\ target[w] \in 1..requests
         /\ \A k \in Keys : link[k] = target[w] => k = path[w]
         /\ \A v \in Workers : Pending(v) => serial[v] # target[w]

\* Only a new request, with a number nobody has, becomes pending.
LEMMA PendingStep ==
    ASSUME TypeOK, LockInv, CompilesOnlyWhenNeeded, [Next]_vars, NEW v \in Workers, Pending(v)'
    PROVE  \/ Pending(v) /\ serial'[v] = serial[v]
           \/ serial'[v] = requests + 1
<1> USE DEF TypeOK, LockInv, Holds, Pending
<1> DEFINE Goal == \/ Pending(v) /\ serial'[v] = serial[v]
                   \/ serial'[v] = requests + 1
<1>1. ASSUME NEW w \in Workers, LoadEntry(w) PROVE Goal
  BY <1>1, NoWorkerFresh DEF LoadEntry, goto, disk, locks, local, counters
<1>2. ASSUME NEW w \in Workers, Touch(w) PROVE Goal
  BY <1>2, NoWorkerFresh DEF Touch, goto, Release, local, counters
<1>3. ASSUME NEW w \in Workers, ThreadLock(w) PROVE Goal
  BY <1>3, NoWorkerFresh DEF ThreadLock, goto, disk, local, counters
<1>4. ASSUME NEW w \in Workers, Flock(w) PROVE Goal
  BY <1>4, NoWorkerFresh DEF Flock, goto, disk, local, counters
<1>5. ASSUME NEW w \in Workers, EntryExists(w) PROVE Goal
  BY <1>5, NoWorkerFresh DEF EntryExists, goto, disk, locks, counters
<1>6. ASSUME NEW w \in Workers, Build(w) PROVE Goal
  BY <1>6, NoWorkerFresh DEF Build, goto, disk, locks, counters
<1>7. ASSUME NEW w \in Workers, BuildFails(w) PROVE Goal
  BY <1>7, NoWorkerFresh DEF BuildFails, goto, Release, disk, local, counters
<1>8. ASSUME NEW w \in Workers, Publish(w) PROVE Goal
  BY <1>8, NoWorkerFresh DEF Publish, goto, Release, local, counters
<1>9. ASSUME NEW w \in Workers, Rename(w) PROVE Goal
  BY <1>9, NoWorkerFresh DEF Rename, goto, AfterRemove, locks, local, counters
<1>10. ASSUME NEW w \in Workers, RmtreeOpen(w) PROVE Goal
  BY <1>10, NoWorkerFresh DEF RmtreeOpen, goto, AfterRemove, disk, locks, counters
<1>11. ASSUME NEW w \in Workers, RmtreeUnlink(w) PROVE Goal
  BY <1>11, NoWorkerFresh DEF RmtreeUnlink, goto, locks, local, counters
<1>12. ASSUME NEW w \in Workers, RmtreeRmdir(w) PROVE Goal
  BY <1>12, NoWorkerFresh DEF RmtreeRmdir, goto, AfterRemove, locks, local, counters
<1>13. ASSUME NEW w \in Workers, Scan(w) PROVE Goal
  BY <1>13, NoWorkerFresh DEF Scan, goto, disk, locks, counters
<1>14. ASSUME NEW w \in Workers, EvictOne(w) PROVE Goal
  BY <1>14, NoWorkerFresh DEF EvictOne, goto, disk, locks, counters
<1>15. ASSUME NEW w \in Workers, EvictDone(w) PROVE Goal
  BY <1>15, NoWorkerFresh DEF EvictDone, goto, disk, locks, local, counters
<1>16. ASSUME NEW w \in Workers, NEW k \in Keys, Request(w, k) PROVE Goal
  BY <1>16, NoWorkerFresh DEF Request, goto, disk, locks
<1>17. ASSUME NEW p \in Procs, Crash(p) PROVE Goal
  BY <1>17, NoWorkerFresh DEF Crash, disk, local
<1>18. CASE UNCHANGED vars
  BY <1>18, NoWorkerFresh DEF vars, disk, locks, local, counters
<1> QED
  BY <1>1, <1>2, <1>3, <1>4, <1>5, <1>6, <1>7, <1>8, <1>9,
     <1>10, <1>11, <1>12, <1>13, <1>14, <1>15, <1>16, <1>17, <1>18
     DEF Next, Step

\* Publishing gives a directory its only name.
LEMMA PublishTarget ==
    ASSUME TypeOK, LockInv, SerialInv, TargetInv, NEW w \in Workers, Publish(w)
    PROVE  /\ \A k, l \in Keys : link'[k] = link'[l] => k = l \/ link'[k] = NoDir
           /\ \A v \in Workers : pc'[v] = "rmfiles" =>
                \A k \in Keys : link'[k] = target'[v] => k = path'[v]
<1>1. /\ pc[w] = "publish" /\ key[w] \in Keys /\ serial[w] # NoDir
      /\ \A k \in Keys : link[k] # serial[w]
  BY DEF Publish, TypeOK, SerialInv
<1>2. /\ link'[key[w]] = serial[w] /\ \A k \in Keys : k # key[w] => link'[k] = link[k]
      /\ UNCHANGED <<target, path>> /\ pc'[w] = "scan"
      /\ \A v \in Workers : v # w => pc'[v] = pc[v]
  BY DEF Publish, TypeOK, goto, local
<1>3. \A v \in Workers : pc[v] = "rmfiles" => serial[w] # target[v]
  BY <1>1 DEF TargetInv, Pending
<1>4. \A k, l \in Keys : link'[k] = link'[l] => k = l \/ link'[k] = NoDir
  BY <1>1, <1>2 DEF TargetInv
<1>5. ASSUME NEW v \in Workers, pc'[v] = "rmfiles", NEW k \in Keys, link'[k] = target'[v]
      PROVE  k = path'[v]
  <2>1. v # w /\ pc[v] = "rmfiles"
    BY <1>2, <1>5
  <2>2. k # key[w]
    BY <1>2, <1>3, <1>5, <2>1
  <2> QED
    BY <1>2, <1>5, <2>1, <2>2 DEF TargetInv
<1> QED
  BY <1>4, <1>5

\* A step that names no directory anew and opens none keeps the rest.
LEMMA TargetFrame ==
    ASSUME TypeOK, TargetInv, requests' \in Nat, requests' >= requests,
           \A k \in Keys : link'[k] = link[k] \/ link'[k] = NoDir,
           \A w \in Workers : pc'[w] = "rmfiles" =>
                pc[w] = "rmfiles" /\ target'[w] = target[w] /\ path'[w] = path[w]
    PROVE  /\ \A k, l \in Keys : link'[k] = link'[l] => k = l \/ link'[k] = NoDir
           /\ \A w \in Workers : pc'[w] = "rmfiles" =>
                \A k \in Keys : link'[k] = target'[w] => k = path'[w]
<1>1. \A w \in Workers : pc[w] = "rmfiles" => target[w] # NoDir
  BY DEF TargetInv, TypeOK, NoDir
<1> QED
  BY <1>1 DEF TargetInv

\* A step that leaves the files and the open directories as they are.
Quiet ==
    /\ UNCHANGED <<files, listed>>
    /\ \A k \in Keys : link'[k] = link[k] \/ link'[k] = NoDir
    /\ \A w \in Workers : pc'[w] = "rmfiles" <=> pc[w] = "rmfiles"
    /\ \A w \in Workers : pc[w] = "rmfiles" => target'[w] = target[w] /\ path'[w] = path[w]
    /\ requests' \in {requests, requests + 1} /\ crashes' = crashes

\* Every step is one, but publishing, the in-place removal and a crash.
LEMMA QuietSteps ==
    ASSUME TypeOK, [Next]_vars
    PROVE  \/ Quiet
           \/ \E w \in Workers : \/ Publish(w) \/ RmtreeOpen(w)
                                 \/ RmtreeUnlink(w) \/ RmtreeRmdir(w)
           \/ \E p \in Procs : Crash(p)
<1> USE DEF TypeOK, Quiet
<1>1. ASSUME NEW w \in Workers, LoadEntry(w) PROVE Quiet
  BY <1>1 DEF LoadEntry, goto, disk, locks, local, counters
<1>2. ASSUME NEW w \in Workers, Touch(w) PROVE Quiet
  BY <1>2 DEF Touch, goto, Release, local, counters
<1>3. ASSUME NEW w \in Workers, ThreadLock(w) PROVE Quiet
  BY <1>3 DEF ThreadLock, goto, disk, local, counters
<1>4. ASSUME NEW w \in Workers, Flock(w) PROVE Quiet
  BY <1>4 DEF Flock, goto, disk, local, counters
<1>5. ASSUME NEW w \in Workers, EntryExists(w) PROVE Quiet
  BY <1>5 DEF EntryExists, goto, disk, locks, counters
<1>6. ASSUME NEW w \in Workers, Build(w) PROVE Quiet
  BY <1>6 DEF Build, goto, disk, locks, counters
<1>7. ASSUME NEW w \in Workers, BuildFails(w) PROVE Quiet
  BY <1>7 DEF BuildFails, goto, Release, disk, local, counters
<1>8. ASSUME NEW w \in Workers, Rename(w) PROVE Quiet
  BY <1>8 DEF Rename, goto, AfterRemove, locks, local, counters
<1>9. ASSUME NEW w \in Workers, Scan(w) PROVE Quiet
  BY <1>9 DEF Scan, goto, disk, locks, counters
<1>10. ASSUME NEW w \in Workers, EvictOne(w) PROVE Quiet
  BY <1>10 DEF EvictOne, goto, disk, locks, counters
<1>11. ASSUME NEW w \in Workers, EvictDone(w) PROVE Quiet
  BY <1>11 DEF EvictDone, goto, disk, locks, local, counters
<1>12. ASSUME NEW w \in Workers, NEW k \in Keys, Request(w, k) PROVE Quiet
  BY <1>12 DEF Request, goto, disk, locks
<1>13. CASE UNCHANGED vars
  BY <1>13 DEF vars, disk, locks, local, counters
<1> HIDE DEF TypeOK, Quiet
<1> QED
  BY <1>1, <1>2, <1>3, <1>4, <1>5, <1>6, <1>7, <1>8, <1>9, <1>10, <1>11, <1>12, <1>13 DEF Next, Step

\* Every step keeps names and open directories apart.
LEMMA TargetPreserved ==
    ASSUME TypeOK, LockInv, SerialInv, CompilesOnlyWhenNeeded, TargetInv, [Next]_vars
    PROVE  TargetInv'
<1> DEFINE Named == /\ \A k, l \in Keys : link'[k] = link'[l] => k = l \/ link'[k] = NoDir
                    /\ \A w \in Workers : pc'[w] = "rmfiles" =>
                         \A k \in Keys : link'[k] = target'[w] => k = path'[w]
           Opened == \A w \in Workers : pc'[w] = "rmfiles" =>
                       \/ pc[w] = "rmfiles" /\ target'[w] = target[w]
                       \/ \E k \in Keys : target'[w] = link[k] /\ link[k] # NoDir
           Counted == requests' \in {requests, requests + 1}
<1>0. requests \in Nat
  BY LimitsType DEF TypeOK
<1>1. ASSUME Named, Opened, Counted PROVE TargetInv'
  <2> SUFFICES ASSUME NEW w \in Workers, pc'[w] = "rmfiles"
               PROVE  /\ target'[w] \in 1..requests'
                      /\ \A v \in Workers : Pending(v)' => serial'[v] # target'[w]
    BY <1>1 DEF TargetInv
  <2>1. target'[w] \in 1..requests
    <3>1. \A k \in Keys : link[k] # NoDir => link[k] \in 1..requests
      BY <1>0, LimitsType DEF SerialInv, TypeOK, NoDir, Dirs
    <3> QED
      BY <1>1, <3>1 DEF TargetInv
  <2>2. target'[w] \in 1..requests'
    BY <1>0, <1>1, <2>1
  <2>3. ASSUME NEW v \in Workers, Pending(v)' PROVE serial'[v] # target'[w]
    <3>1. CASE serial'[v] = requests + 1
      BY <1>0, <2>1, <3>1
    <3>2. CASE Pending(v) /\ serial'[v] = serial[v]
      <4>1. \A k \in Keys : link[k] # serial[v]
        BY <3>2 DEF Pending, SerialInv
      <4> QED
        BY <1>1, <3>2, <4>1 DEF TargetInv
    <3> QED
      BY <2>3, <3>1, <3>2, PendingStep
  <2> QED
    BY <2>2, <2>3
<1>2. ASSUME Counted,
             \A k \in Keys : link'[k] = link[k] \/ link'[k] = NoDir,
             \A w \in Workers : pc'[w] = "rmfiles" =>
                pc[w] = "rmfiles" /\ target'[w] = target[w] /\ path'[w] = path[w]
      PROVE  TargetInv'
  <2>1. requests' \in Nat /\ requests' >= requests
    BY <1>0, <1>2
  <2>2. Named
    BY <1>2, <2>1, TargetFrame
  <2> QED
    BY <1>1, <1>2, <2>2
<1>3. CASE Quiet
  BY <1>2, <1>3 DEF Quiet
<1>4. ASSUME NEW w \in Workers, Publish(w) PROVE TargetInv'
  <2>1. Named
    BY <1>4, PublishTarget
  <2>2. Opened /\ Counted
    BY <1>4 DEF Publish, goto, local, counters, TypeOK
  <2> QED
    BY <1>1, <2>1, <2>2
<1>5. ASSUME NEW w \in Workers, RmtreeOpen(w) PROVE TargetInv'
  <2>1. /\ path[w] \in Keys /\ link' = link /\ path' = path /\ Counted
        /\ target'[w] = link[path[w]]
        /\ pc'[w] = "rmfiles" => link[path[w]] # NoDir
        /\ \A v \in Workers : v # w => pc'[v] = pc[v] /\ target'[v] = target[v]
    BY <1>5 DEF RmtreeOpen, goto, disk, counters, AfterRemove, TypeOK
  <2>2. Named
    BY <2>1 DEF TargetInv
  <2>3. Opened
    BY <2>1
  <2> QED
    BY <1>1, <2>1, <2>2, <2>3
<1>6. ASSUME NEW w \in Workers, RmtreeUnlink(w) \/ RmtreeRmdir(w) PROVE TargetInv'
  BY <1>2, <1>6 DEF RmtreeUnlink, RmtreeRmdir, goto, AfterRemove, local, counters, TypeOK
<1>7. ASSUME NEW p \in Procs, Crash(p) PROVE TargetInv'
  BY <1>2, <1>7 DEF Crash, disk, local, TypeOK
<1> QED
  BY <1>3, <1>4, <1>5, <1>6, <1>7, QuietSteps

\* Every step keeps whole what nobody is removing, until a process dies.
LEMMA PartialPreserved ==
    ASSUME TypeOK, LockInv, SerialInv, TargetInv, PartialOnlyAfterCrash, [Next]_vars
    PROVE  PartialOnlyAfterCrash'
<1> SUFFICES ASSUME crashes' = 0, NEW k \in Keys, link'[k] # NoDir
             PROVE  \/ listed'[link'[k]] \union {Manifest} \subseteq files'[link'[k]]
                    \/ \E v \in Workers : pc'[v] = "rmfiles" /\ target'[v] = link'[k]
  BY DEF PartialOnlyAfterCrash
<1> DEFINE Whole == listed[link[k]] \union {Manifest} \subseteq files[link[k]]
           Removing(v) == pc[v] = "rmfiles" /\ target[v] = link[k]
<1>0. crashes = 0 /\ link[k] # NoDir => Whole \/ \E v \in Workers : Removing(v)
  BY DEF PartialOnlyAfterCrash
<1>1. CASE Quiet
  <2>1. link'[k] = link[k] /\ crashes = 0
    BY <1>1 DEF Quiet
  <2> QED
    BY <1>0, <1>1, <2>1 DEF Quiet
<1>2. ASSUME NEW w \in Workers, Publish(w)
      PROVE  \/ listed'[link'[k]] \union {Manifest} \subseteq files'[link'[k]]
             \/ \E v \in Workers : pc'[v] = "rmfiles" /\ target'[v] = link'[k]
  <2>1. /\ pc[w] = "publish" /\ key[w] \in Keys /\ serial[w] \in Dirs
        /\ \A l \in Keys : link[l] # serial[w]
    BY <1>2 DEF Publish, TypeOK, SerialInv
  <2>2. /\ link'[key[w]] = serial[w] /\ \A l \in Keys : l # key[w] => link'[l] = link[l]
        /\ files' = [files EXCEPT ![serial[w]] = made[w] \union {Manifest}]
        /\ listed' = [listed EXCEPT ![serial[w]] = made[w]]
        /\ target' = target /\ crashes' = crashes
        /\ \A v \in Workers : v # w => pc'[v] = pc[v]
    BY <1>2 DEF Publish, TypeOK, goto, local, counters
  <2>3. CASE k = key[w]
    BY <2>1, <2>2, <2>3 DEF TypeOK
  <2>4. CASE k # key[w]
    <3>1. link'[k] = link[k] /\ link[k] # serial[w] /\ link[k] \in Dirs
      BY <2>1, <2>2, <2>4 DEF TypeOK
    <3>2. files'[link[k]] = files[link[k]] /\ listed'[link[k]] = listed[link[k]]
      BY <2>2, <3>1 DEF TypeOK
    <3>3. \A v \in Workers : Removing(v) => pc'[v] = "rmfiles"
      BY <2>1, <2>2
    <3> QED
      BY <1>0, <2>2, <3>1, <3>2, <3>3
  <2> QED
    BY <2>3, <2>4
<1>3. ASSUME NEW w \in Workers, RmtreeOpen(w)
      PROVE  \/ listed'[link'[k]] \union {Manifest} \subseteq files'[link'[k]]
             \/ \E v \in Workers : pc'[v] = "rmfiles" /\ target'[v] = link'[k]
  <2>1. /\ pc[w] = "rmtree" /\ UNCHANGED <<link, files, listed, crashes>>
        /\ \A v \in Workers : v # w => pc'[v] = pc[v] /\ target'[v] = target[v]
    BY <1>3 DEF RmtreeOpen, goto, disk, counters, TypeOK
  <2> QED
    BY <1>0, <2>1
<1>4. ASSUME NEW w \in Workers, RmtreeUnlink(w)
      PROVE  \/ listed'[link'[k]] \union {Manifest} \subseteq files'[link'[k]]
             \/ \E v \in Workers : pc'[v] = "rmfiles" /\ target'[v] = link'[k]
  <2>1. /\ pc[w] = "rmfiles" /\ UNCHANGED <<link, listed, pc, target, crashes>>
        /\ \A d \in Dirs : d # target[w] => files'[d] = files[d]
    BY <1>4 DEF RmtreeUnlink, local, counters, TypeOK
  <2>2. link[k] \in Dirs
    BY <2>1 DEF TypeOK
  <2> QED
    BY <1>0, <2>1, <2>2
<1>5. ASSUME NEW w \in Workers, RmtreeRmdir(w)
      PROVE  \/ listed'[link'[k]] \union {Manifest} \subseteq files'[link'[k]]
             \/ \E v \in Workers : pc'[v] = "rmfiles" /\ target'[v] = link'[k]
  <2>1. /\ pc[w] = "rmfiles" /\ files[target[w]] = {}
        /\ UNCHANGED <<files, listed, target, path, crashes>>
        /\ link' = [link EXCEPT ![path[w]] = IF Occupied(path[w]) THEN link[path[w]] ELSE NoDir]
        /\ \A v \in Workers : v # w => pc'[v] = pc[v]
    BY <1>5 DEF RmtreeRmdir, goto, local, counters, TypeOK
  <2>2. link'[k] = link[k]
    BY <2>1 DEF TypeOK
  <2>3. link[k] # target[w]
    <3> SUFFICES ASSUME link[k] = target[w] PROVE FALSE
      OBVIOUS
    <3>1. k = path[w]
      BY <2>1 DEF TargetInv
    <3>2. ~Occupied(path[w])
      BY <2>1, <3>1 DEF Occupied
    <3> QED
      BY <2>1, <3>1, <3>2 DEF TypeOK
  <2>4. \A v \in Workers : Removing(v) => pc'[v] = "rmfiles"
    BY <2>1, <2>3
  <2> QED
    BY <1>0, <2>1, <2>2, <2>4
<1>6. ASSUME NEW p \in Procs, Crash(p) PROVE FALSE
  <2>1. crashes \in Nat /\ crashes' = crashes + 1
    BY <1>6, LimitsType DEF Crash, TypeOK
  <2> QED
    BY <2>1
<1> QED
  BY <1>1, <1>2, <1>3, <1>4, <1>5, <1>6, QuietSteps

\* As long as no process dies, whatever evictions, failed compiles and
\* overlapping removals do, a named directory is whole or being removed.
THEOREM CacheNothingPartial == Spec => []PartialOnlyAfterCrash
<1>1. Init => TargetInv /\ PartialOnlyAfterCrash
  BY DEF Init, TargetInv, PartialOnlyAfterCrash
<1>2. /\ TypeOK /\ LockInv /\ SerialInv /\ CompilesOnlyWhenNeeded
      /\ TargetInv /\ PartialOnlyAfterCrash /\ [Next]_vars
      => TargetInv' /\ PartialOnlyAfterCrash'
  BY TargetPreserved, PartialPreserved
<1> QED
  BY CacheSafe, <1>1, <1>2, PTL DEF Spec
=============================================================================
