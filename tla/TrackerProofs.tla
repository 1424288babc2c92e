---------------------------- MODULE TrackerProofs ----------------------------
(***************************************************************************)
(* The tracker's safety, for any number of servers, keys, connections and  *)
(* faults.                                                                 *)
(***************************************************************************)
EXTENDS Tracker, TLAPS

\* A server whose registrations never overlapped is held by one handler only.
OneHandler ==
    \A s \in Servers \ overlap : \A c, d \in Conns :
        Owner[c] = s /\ Owner[d] = s /\ handler[c] = "holding" /\ handler[d] = "holding"
            => c = d

\* What the connection a loop waits on looks like: the loop has a socket.
LoopHasSock ==
    \A s \in Servers : loop[s] \in {"awaiting", "held"} => sock[s] \in Conns

-----------------------------------------------------------------------------

Distinct(list) == \A i, j \in 1..Len(list) : list[i] = list[j] => i = j

\* new is list with its entry s gone: no other entry is lost, none is new.
Dropped(list, new, s) ==
    /\ new \in Seq(Servers)
    /\ \A i \in 1..Len(new) : new[i] # s /\ \E j \in 1..Len(list) : list[j] = new[i]
    /\ Distinct(new)
    /\ \A j \in 1..Len(list) : list[j] # s => \E i \in 1..Len(new) : new[i] = list[j]

\* What list.remove does to a list in which s occurs exactly once.
LEMMA WithoutDrops ==
    ASSUME NEW list \in Seq(Servers), NEW s \in Servers,
           NEW p \in 1..Len(list), list[p] = s, Distinct(list)
    PROVE  Dropped(list, Without(list, s), s)
<1> DEFINE W == [j \in 1..(Len(list) - 1) |-> IF j < p THEN list[j] ELSE list[j + 1]]
<1>0. Len(list) \in Nat /\ Len(list) > 0
  OBVIOUS
<1>1. (CHOOSE i \in 1..Len(list) : list[i] = s) = p
  BY DEF Distinct
<1>2. Without(list, s) = W
  BY <1>1 DEF Without
<1>3. \A j \in 1..(Len(list) - 1) :
        /\ j \in 1..Len(list) /\ j + 1 \in 1..Len(list)
        /\ W[j] = IF j < p THEN list[j] ELSE list[j + 1]
  BY <1>0
<1>4. \A j \in 1..(Len(list) - 1) : W[j] \in Servers
  BY <1>3
<1>5. W \in Seq(Servers) /\ Len(W) = Len(list) - 1
  <2>1. W \in [1..(Len(list) - 1) -> Servers]
    BY <1>4
  <2>2. Len(list) - 1 \in Nat
    BY <1>0
  <2> HIDE DEF W
  <2> QED
    BY <2>1, <2>2
<1> HIDE DEF W
<1>6. \A i \in 1..Len(W) : W[i] # s /\ \E j \in 1..Len(list) : list[j] = W[i]
  BY <1>3, <1>5, <1>0 DEF Distinct
<1>7. \A i, j \in 1..Len(W) : W[i] = W[j] => i = j
  BY <1>3, <1>5, <1>0 DEF Distinct
<1>8. ASSUME NEW j \in 1..Len(list), list[j] # s
      PROVE  \E i \in 1..Len(W) : W[i] = list[j]
  <2>1. CASE j < p
    <3>1. j \in 1..Len(W)
      BY <2>1, <1>5, <1>0
    <3> QED
      BY <2>1, <3>1, <1>3, <1>5
  <2>2. CASE j > p
    <3>1. j - 1 \in 1..Len(W) /\ ~(j - 1 < p) /\ (j - 1) + 1 = j
      BY <2>2, <1>5, <1>0
    <3> QED
      BY <3>1, <1>3, <1>5
  <2> QED
    BY <2>1, <2>2, <1>8
<1> QED
  BY <1>2, <1>5, <1>6, <1>7, <1>8 DEF Dropped, Distinct

\* What the registry's operations change: only the list of s's own key.
LEMMA RemoveEffect ==
    ASSUME TypeOK, NoGhosts, NEW s \in Servers, remove(s)
    PROVE  /\ servers' \in [Keys -> Seq(Servers)]
           /\ \A k \in Keys : \A i, j \in 1..Len(servers'[k]) :
                servers'[k][i] = servers'[k][j] => i = j
           /\ \A k \in Keys : \A i \in 1..Len(servers'[k]) :
                \E j \in 1..Len(servers[k]) : servers[k][j] = servers'[k][i]
           /\ \A i \in 1..Len(servers'[KeyOf[s]]) : servers'[KeyOf[s]][i] # s
           /\ \A t \in Servers \ {s} : Listed(t) => Listed(t)'
<1> DEFINE k == KeyOf[s]
<1>0. k \in Keys /\ servers[k] \in Seq(Servers) /\ servers \in [Keys -> Seq(Servers)]
  BY KeyOfType DEF TypeOK
<1>1. CASE Listed(s)
  <2>1. PICK p \in 1..Len(servers[k]) : servers[k][p] = s
    BY <1>1 DEF Listed
  <2> DEFINE W == Without(servers[k], s)
  <2>2. \A i, j \in 1..Len(servers[k]) : servers[k][i] = servers[k][j] => i = j
    BY <1>0 DEF NoGhosts
  <2>3. /\ W \in Seq(Servers)
        /\ \A i \in 1..Len(W) : W[i] # s /\ \E j \in 1..Len(servers[k]) : servers[k][j] = W[i]
        /\ \A i, j \in 1..Len(W) : W[i] = W[j] => i = j
        /\ \A j \in 1..Len(servers[k]) : servers[k][j] # s =>
              \E i \in 1..Len(W) : W[i] = servers[k][j]
    <3>1. Distinct(servers[k])
      BY <2>2 DEF Distinct
    <3>2. Dropped(servers[k], W, s)
      BY <1>0, <2>1, <3>1, WithoutDrops
    <3> QED
      BY <3>2 DEF Dropped, Distinct
  <2>4. servers' = [servers EXCEPT ![k] = W]
    BY <1>1 DEF remove, SetList
  <2> HIDE DEF W
  <2>5. servers' \in [Keys -> Seq(Servers)]
    BY <1>0, <2>3, <2>4
  <2>6. servers'[k] = W /\ \A l \in Keys \ {k} : servers'[l] = servers[l]
    BY <1>0, <2>4
  <2>7. \A l \in Keys : \A i, j \in 1..Len(servers'[l]) :
          servers'[l][i] = servers'[l][j] => i = j
    BY <2>3, <2>6 DEF NoGhosts
  <2>8. \A l \in Keys : \A i \in 1..Len(servers'[l]) :
          \E j \in 1..Len(servers[l]) : servers[l][j] = servers'[l][i]
    BY <2>3, <2>6, SMTT(40)
  <2>9. ASSUME NEW t \in Servers \ {s}, Listed(t) PROVE Listed(t)'
    <3>1. KeyOf[t] \in Keys
      BY KeyOfType
    <3>2. PICK q \in 1..Len(servers[KeyOf[t]]) : servers[KeyOf[t]][q] = t
      BY <2>9 DEF Listed
    <3>3. \E i \in 1..Len(servers'[KeyOf[t]]) : servers'[KeyOf[t]][i] = t
      <4>1. CASE KeyOf[t] = k
        BY <2>3, <2>6, <2>9, <3>2, <4>1, SMTT(40)
      <4>2. CASE KeyOf[t] # k
        BY <2>6, <3>1, <3>2, <4>2
      <4> QED
        BY <4>1, <4>2
    <3> QED
      BY <3>3 DEF Listed
  <2> QED
    BY <2>3, <2>5, <2>6, <2>7, <2>8, <2>9
<1>2. CASE ~Listed(s)
  <2>1. servers' = servers
    BY <1>2 DEF remove, registry
  <2> QED
    BY <1>0, <1>2, <2>1 DEF Listed, NoGhosts
<1> QED
  BY <1>1, <1>2

\* add lists s under its own key, keeps every list free of repeats and drops nobody.
LEMMA AddEffect ==
    ASSUME TypeOK, NoGhosts, NEW s \in Servers, add(s)
    PROVE  /\ servers' \in [Keys -> Seq(Servers)]
           /\ \A k \in Keys : \A i, j \in 1..Len(servers'[k]) :
                servers'[k][i] = servers'[k][j] => i = j
           /\ \A k \in Keys : \A i \in 1..Len(servers'[k]) :
                \/ \E j \in 1..Len(servers[k]) : servers[k][j] = servers'[k][i]
                \/ servers'[k][i] = s /\ k = KeyOf[s]
           /\ Listed(s)'
           /\ \A t \in Servers : Listed(t) => Listed(t)'
<1> DEFINE k == KeyOf[s]
<1>0. k \in Keys /\ servers[k] \in Seq(Servers) /\ servers \in [Keys -> Seq(Servers)]
  BY KeyOfType DEF TypeOK
<1>1. CASE ~Listed(s)
  <2> DEFINE A == Append(servers[k], s)
  <2>1. servers' = [servers EXCEPT ![k] = A]
    BY <1>1 DEF add, SetList
  <2>2. /\ A \in Seq(Servers) /\ Len(A) = Len(servers[k]) + 1
        /\ A[Len(servers[k]) + 1] = s
        /\ \A i \in 1..Len(servers[k]) : A[i] = servers[k][i]
    BY <1>0
  <2> HIDE DEF A
  <2>3. \A i \in 1..Len(servers[k]) : servers[k][i] # s
    BY <1>1 DEF Listed
  <2>4. Len(servers[k]) \in Nat
    BY <1>0
  <2>5. servers' \in [Keys -> Seq(Servers)]
    BY <1>0, <2>1, <2>2
  <2>6. servers'[k] = A /\ \A l \in Keys \ {k} : servers'[l] = servers[l]
    BY <1>0, <2>1
  <2>7. \A i, j \in 1..Len(A) : A[i] = A[j] => i = j
    <3>1. \A i, j \in 1..Len(servers[k]) : servers[k][i] = servers[k][j] => i = j
      BY <1>0 DEF NoGhosts
    <3>2. \A i \in 1..Len(A) : i \in 1..Len(servers[k]) \/ i = Len(servers[k]) + 1
      BY <2>2, <2>4
    <3> QED
      BY <2>2, <2>3, <3>1, <3>2
  <2>8. \A l \in Keys : \A i, j \in 1..Len(servers'[l]) :
          servers'[l][i] = servers'[l][j] => i = j
    BY <2>6, <2>7 DEF NoGhosts
  <2>9. \A i \in 1..Len(A) :
          (\E j \in 1..Len(servers[k]) : servers[k][j] = A[i]) \/ A[i] = s
    <3>1. \A i \in 1..Len(A) : i \in 1..Len(servers[k]) \/ i = Len(servers[k]) + 1
      BY <2>2, <2>4
    <3> QED
      BY <2>2, <3>1
  <2>10. \A l \in Keys : \A i \in 1..Len(servers'[l]) :
           \/ \E j \in 1..Len(servers[l]) : servers[l][j] = servers'[l][i]
           \/ servers'[l][i] = s /\ l = k
    BY <2>6, <2>9
  <2>11. Listed(s)'
    <3>1. Len(servers[k]) + 1 \in 1..Len(A)
      BY <2>2, <2>4
    <3> QED
      BY <2>2, <2>6, <3>1 DEF Listed
  <2>12. ASSUME NEW t \in Servers, Listed(t) PROVE Listed(t)'
    <3>1. KeyOf[t] \in Keys
      BY KeyOfType
    <3>2. \A i \in 1..Len(servers[k]) : i \in 1..Len(A)
      BY <2>2, <2>4
    <3> QED
      BY <2>2, <2>6, <2>12, <3>1, <3>2 DEF Listed
  <2> QED
    BY <2>5, <2>8, <2>10, <2>11, <2>12
<1>2. CASE Listed(s)
  <2>1. servers' = servers
    BY <1>2 DEF add, registry
  <2> QED
    BY <1>0, <1>2, <2>1 DEF Listed, NoGhosts
<1> QED
  BY <1>1, <1>2

-----------------------------------------------------------------------------

\* Every action keeps the types, and a waiting loop has a socket.
LEMMA TypePreserved ==
    ASSUME TypeOK, LoopHasSock, NoGhosts, [Next]_vars
    PROVE  TypeOK' /\ LoopHasSock'
<1> USE DEF TypeOK, LoopHasSock
<1>1. ASSUME NEW s \in Servers, NEW c \in Conns, Connect(s, c) PROVE TypeOK' /\ LoopHasSock'
  BY <1>1 DEF Connect, registry
<1>2. ASSUME NEW s \in Servers, ReplyArrives(s) PROVE TypeOK' /\ LoopHasSock'
  BY <1>2 DEF ReplyArrives, registry
<1>3. ASSUME NEW s \in Servers, SeesClose(s) PROVE TypeOK' /\ LoopHasSock'
  BY <1>3 DEF SeesClose, registry
<1>4. ASSUME NEW s \in Servers, Break(s) PROVE TypeOK' /\ LoopHasSock'
  BY <1>4 DEF Break, registry
<1>5. ASSUME NEW s \in Servers, Crash(s) PROVE TypeOK' /\ LoopHasSock'
  BY <1>5 DEF Crash, registry
<1>6. ASSUME NEW s \in Servers, Restart(s) PROVE TypeOK' /\ LoopHasSock'
  BY <1>6 DEF Restart, registry
<1>7. ASSUME NEW c \in Conns, HandleRegister(c) PROVE TypeOK' /\ LoopHasSock'
  <2>1. Owner[c] \in Servers
    BY OwnerType
  <2>2. servers' \in [Keys -> Seq(Servers)]
    BY <1>7, <2>1, AddEffect DEF HandleRegister
  <2>3. cursor' = cursor /\ recent' \in [Keys -> Seq(Servers)]
    <3>1. cursor' = cursor /\ (recent' = recent \/ recent' = [recent EXCEPT ![KeyOf[Owner[c]]] = <<>>])
      BY <1>7 DEF HandleRegister, add, SetList, registry
    <3>2. <<>> \in Seq(Servers)
      OBVIOUS
    <3> QED
      BY <3>1, <3>2
  <2> QED
    BY <1>7, <2>1, <2>2, <2>3 DEF HandleRegister
<1>8. ASSUME NEW c \in Conns, HandlerAborts(c) PROVE TypeOK' /\ LoopHasSock'
  BY <1>8 DEF HandlerAborts, registry
<1>9. ASSUME NEW c \in Conns, HandlerEnds(c) PROVE TypeOK' /\ LoopHasSock'
  <2>1. Owner[c] \in Servers
    BY OwnerType
  <2>2. servers' \in [Keys -> Seq(Servers)]
    BY <1>9, <2>1, RemoveEffect DEF HandlerEnds
  <2>3. cursor' = cursor /\ recent' \in [Keys -> Seq(Servers)]
    <3>1. cursor' = cursor /\ (recent' = recent \/ recent' = [recent EXCEPT ![KeyOf[Owner[c]]] = <<>>])
      BY <1>9 DEF HandlerEnds, remove, SetList, registry
    <3>2. <<>> \in Seq(Servers)
      OBVIOUS
    <3> QED
      BY <3>1, <3>2
  <2> QED
    BY <1>9, <2>1, <2>2, <2>3 DEF HandlerEnds
<1>10. ASSUME NEW k \in Keys, Request(k) PROVE TypeOK' /\ LoopHasSock'
  <2> DEFINE index == cursor[k] % Len(servers[k])
  <2>1. /\ servers[k] \in Seq(Servers) /\ Len(servers[k]) \in Nat /\ cursor[k] \in Nat
        /\ Len(servers[k]) > 0
    BY <1>10 DEF Request
  <2>2. index \in 0..(Len(servers[k]) - 1)
    BY <2>1
  <2> HIDE DEF index
  <2>3. index + 1 \in Nat /\ servers[k][index + 1] \in Servers
    BY <2>1, <2>2
  <2>4. /\ cursor' = [cursor EXCEPT ![k] = index + 1]
        /\ recent' = [recent EXCEPT ![k] = Append(recent[k], servers[k][index + 1])]
        /\ UNCHANGED <<servers, handler, open, loop, sock, faults, overlap>>
    BY <1>10 DEF Request, index
  <2> QED
    BY <2>3, <2>4
<1>11. CASE TrackerRestart
  BY <1>11 DEF TrackerRestart
<1>12. CASE UNCHANGED vars
  BY <1>12 DEF vars
<1> QED
  BY <1>1, <1>2, <1>3, <1>4, <1>5, <1>6, <1>7, <1>8, <1>9, <1>10, <1>11, <1>12
     DEF Next, ServerStep, HandlerStep

RegistryOK == NoGhosts /\ OneHandler /\ HeldMeansListedUnlessOverlap

\* A step that leaves the lists and the holding handlers alone disturbs nothing.
LEMMA RegistryFrame ==
    ASSUME TypeOK, RegistryOK, UNCHANGED <<servers, overlap>>,
           \A c \in Conns : handler'[c] = "holding" <=> handler[c] = "holding"
    PROVE  RegistryOK'
BY DEF RegistryOK, NoGhosts, OneHandler, HeldMeansListedUnlessOverlap, HasHandler, Listed

\* Every step keeps the registry's invariant.
LEMMA RegistryPreserved ==
    ASSUME TypeOK, LoopHasSock, RegistryOK, [Next]_vars
    PROVE  RegistryOK'
<1>1. ASSUME NEW s \in Servers, NEW c \in Conns, Connect(s, c) PROVE RegistryOK'
  BY <1>1, RegistryFrame DEF Connect, registry, TypeOK
<1>2. ASSUME NEW s \in Servers,
             ReplyArrives(s) \/ SeesClose(s) \/ Break(s) \/ Crash(s) \/ Restart(s)
      PROVE  RegistryOK'
  BY <1>2, RegistryFrame DEF ReplyArrives, SeesClose, Break, Crash, Restart, registry
<1>3. ASSUME NEW c \in Conns, HandleRegister(c) PROVE RegistryOK'
  <2> DEFINE s == Owner[c]
  <2>0. s \in Servers /\ KeyOf[s] \in Keys
    BY OwnerType, KeyOfType
  <2>1. /\ handler[c] = "accepted" /\ handler' = [handler EXCEPT ![c] = "holding"]
        /\ add(s)
        /\ overlap' = IF \E d \in Conns : handler[d] = "holding" /\ Owner[d] = s
                      THEN overlap \union {s} ELSE overlap
    BY <1>3 DEF HandleRegister
  <2>2. /\ \A k \in Keys : \A i, j \in 1..Len(servers'[k]) :
              servers'[k][i] = servers'[k][j] => i = j
        /\ \A k \in Keys : \A i \in 1..Len(servers'[k]) :
              \/ \E j \in 1..Len(servers[k]) : servers[k][j] = servers'[k][i]
              \/ servers'[k][i] = s /\ k = KeyOf[s]
        /\ Listed(s)'
        /\ \A t \in Servers : Listed(t) => Listed(t)'
    <3> HIDE DEF s
    <3> QED
      BY <2>0, <2>1, AddEffect DEF RegistryOK
  <2>3. /\ handler'[c] = "holding"
        /\ \A d \in Conns : d # c => handler'[d] = handler[d]
    BY <2>1 DEF TypeOK
  <2>4. \A t \in Servers : HasHandler(t) => HasHandler(t)'
    BY <2>1, <2>3 DEF HasHandler
  <2>5. HasHandler(s)'
    BY <2>3 DEF HasHandler
  <2>6. NoGhosts'
    <3> SUFFICES ASSUME NEW k \in Keys, NEW i \in 1..Len(servers'[k])
                 PROVE  KeyOf[servers'[k][i]] = k /\
                        (\E d \in Conns : Owner[d] = servers'[k][i] /\ handler'[d] = "holding")
      BY <2>2 DEF NoGhosts, HasHandler
    <3>1. CASE \E j \in 1..Len(servers[k]) : servers[k][j] = servers'[k][i]
      <4>1. PICK j \in 1..Len(servers[k]) : servers[k][j] = servers'[k][i]
        BY <3>1
      <4>2. servers[k][j] \in Servers /\ HasHandler(servers[k][j]) /\ KeyOf[servers[k][j]] = k
        BY DEF TypeOK, RegistryOK, NoGhosts
      <4>3. \E d \in Conns : Owner[d] = servers[k][j] /\ handler'[d] = "holding"
        BY <2>1, <2>3, <4>2 DEF HasHandler
      <4> QED
        BY <4>1, <4>2, <4>3
    <3>2. CASE servers'[k][i] = s /\ k = KeyOf[s]
      BY <2>3, <3>2
    <3> QED
      BY <2>2, <3>1, <3>2
  <2>7. OneHandler'
    BY <2>1, <2>3 DEF RegistryOK, OneHandler
  <2>8. HeldMeansListedUnlessOverlap'
    <3> SUFFICES ASSUME NEW t \in Servers, t \notin overlap', HasHandler(t)' PROVE Listed(t)'
      BY DEF HeldMeansListedUnlessOverlap
    <3>1. CASE t = s
      BY <2>2, <3>1
    <3>2. CASE t # s
      <4>1. HasHandler(t) /\ t \notin overlap
        BY <2>1, <2>3, <3>2 DEF HasHandler
      <4> QED
        BY <2>2, <4>1 DEF RegistryOK, HeldMeansListedUnlessOverlap
    <3> QED
      BY <3>1, <3>2
  <2> QED
    BY <2>6, <2>7, <2>8 DEF RegistryOK
<1>4. ASSUME NEW c \in Conns, HandlerAborts(c) PROVE RegistryOK'
  BY <1>4, RegistryFrame DEF HandlerAborts, registry, TypeOK
<1>5. ASSUME NEW c \in Conns, HandlerEnds(c) PROVE RegistryOK'
  <2> DEFINE s == Owner[c]
  <2>0. s \in Servers /\ KeyOf[s] \in Keys
    BY OwnerType, KeyOfType
  <2>1. /\ handler[c] = "holding" /\ handler' = [handler EXCEPT ![c] = "ended"]
        /\ remove(s) /\ overlap' = overlap
    BY <1>5 DEF HandlerEnds
  <2>2. /\ \A k \in Keys : \A i, j \in 1..Len(servers'[k]) :
              servers'[k][i] = servers'[k][j] => i = j
        /\ \A k \in Keys : \A i \in 1..Len(servers'[k]) :
              \E j \in 1..Len(servers[k]) : servers[k][j] = servers'[k][i]
        /\ \A i \in 1..Len(servers'[KeyOf[s]]) : servers'[KeyOf[s]][i] # s
        /\ \A t \in Servers \ {s} : Listed(t) => Listed(t)'
    <3> HIDE DEF s
    <3> QED
      BY <2>0, <2>1, RemoveEffect DEF RegistryOK
  <2>3. /\ handler'[c] = "ended"
        /\ \A d \in Conns : d # c => handler'[d] = handler[d]
    BY <2>1 DEF TypeOK
  <2>4. \A k \in Keys : \A i, j \in 1..Len(servers'[k]) :
          servers'[k][i] = servers'[k][j] => i = j
    BY <2>2
  <2>6. NoGhosts'
    <3> SUFFICES ASSUME NEW k \in Keys, NEW i \in 1..Len(servers'[k])
                 PROVE  KeyOf[servers'[k][i]] = k /\
                        (\E d \in Conns : Owner[d] = servers'[k][i] /\ handler'[d] = "holding")
      BY <2>4 DEF NoGhosts, HasHandler
    <3>1. PICK j \in 1..Len(servers[k]) : servers[k][j] = servers'[k][i]
      BY <2>2
    <3>2. servers[k][j] \in Servers /\ HasHandler(servers[k][j]) /\ KeyOf[servers[k][j]] = k
      BY DEF TypeOK, RegistryOK, NoGhosts
    <3>3. servers'[k][i] # s
      <4>1. k = KeyOf[servers'[k][i]]
        BY <3>1, <3>2
      <4> QED
        BY <2>2, <4>1
    <3>4. PICK d \in Conns : Owner[d] = servers[k][j] /\ handler[d] = "holding"
      BY <3>2 DEF HasHandler
    <3>5. handler'[d] = "holding"
      BY <2>3, <3>1, <3>3, <3>4
    <3> QED
      BY <3>1, <3>2, <3>4, <3>5
  <2>7. OneHandler'
    BY <2>1, <2>3 DEF RegistryOK, OneHandler
  <2>8. HeldMeansListedUnlessOverlap'
    <3> SUFFICES ASSUME NEW t \in Servers, t \notin overlap', HasHandler(t)' PROVE Listed(t)'
      BY DEF HeldMeansListedUnlessOverlap
    <3>1. PICK d \in Conns : Owner[d] = t /\ handler'[d] = "holding"
      BY DEF HasHandler
    <3>2. d # c /\ handler[d] = "holding"
      BY <2>3, <3>1
    <3>3. t # s
      BY <2>1, <3>1, <3>2 DEF RegistryOK, OneHandler
    <3>4. Listed(t)
      BY <2>1, <3>1, <3>2 DEF RegistryOK, HeldMeansListedUnlessOverlap, HasHandler
    <3> QED
      BY <2>2, <3>3, <3>4
  <2> QED
    BY <2>6, <2>7, <2>8 DEF RegistryOK
<1>6. ASSUME NEW k \in Keys, Request(k) PROVE RegistryOK'
  BY <1>6, RegistryFrame DEF Request
<1>7. CASE TrackerRestart
  <2>1. \A c \in Conns : handler'[c] # "holding"
    BY <1>7 DEF TrackerRestart, TypeOK
  <2>2. \A k \in Keys : Len(servers'[k]) = 0
    BY <1>7 DEF TrackerRestart
  <2> QED
    BY <2>1, <2>2 DEF RegistryOK, NoGhosts, OneHandler, HeldMeansListedUnlessOverlap, HasHandler
<1>8. CASE UNCHANGED vars
  BY <1>8, RegistryFrame DEF vars
<1> QED
  BY <1>1, <1>2, <1>3, <1>4, <1>5, <1>6, <1>7, <1>8 DEF Next, ServerStep, HandlerStep

\* The inductive invariant holds throughout.
THEOREM RegistrySafe == Spec => [](TypeOK /\ LoopHasSock /\ RegistryOK)
<1>1. Init => TypeOK /\ LoopHasSock /\ RegistryOK
  BY BoundsAreNat
     DEF Init, TypeOK, LoopHasSock, RegistryOK, NoGhosts, OneHandler,
         HeldMeansListedUnlessOverlap, HasHandler
<1>2. TypeOK /\ LoopHasSock /\ RegistryOK /\ [Next]_vars => (TypeOK /\ LoopHasSock /\ RegistryOK)'
  BY TypePreserved, RegistryPreserved DEF RegistryOK
<1> QED
  BY <1>1, <1>2, PTL DEF Spec

\* The tracker keeps its types: rotation arithmetic never leaves the naturals
\* and every list holds servers only.
THEOREM TrackerTypes == Spec => []TypeOK
BY RegistrySafe, PTL

\* No address outlives its registration connection, none is listed twice.
THEOREM TrackerNoGhosts == Spec => []NoGhosts
<1>1. RegistryOK => NoGhosts
  BY DEF RegistryOK
<1> QED
  BY RegistrySafe, <1>1, PTL

\* A server whose registrations never overlapped is listed whenever a handler
\* holds its connection.
THEOREM TrackerHeldListed == Spec => []HeldMeansListedUnlessOverlap
<1>1. RegistryOK => HeldMeansListedUnlessOverlap
  BY DEF RegistryOK
<1> QED
  BY RegistrySafe, <1>1, PTL
-----------------------------------------------------------------------------
(* Round-robin.                                                            *)

\* Where in a list of n servers the pick made d picks before the last one
\* found its server, when the cursor now stands at c.
PickedAt(c, d, n) == IF d < c THEN c - d ELSE c - d + n

\* The cursor stands at the server picked last, and the picks before it, back
\* to a whole round, went to the servers before that one, in list order.
InRotation(list, picks, c) ==
    Len(picks) > 0 =>
        /\ c \in 1..Len(list)
        /\ \A d \in 0..(Len(picks) - 1) : d < Len(list) =>
             picks[Len(picks) - d] = list[PickedAt(c, d, Len(list))]

NoRepeat(list, picks) ==
    \A i, j \in 1..Len(picks) : i < j /\ j - i < Len(list) => picks[i] # picks[j]

Rotation == \A k \in Keys : InRotation(servers[k], recent[k], cursor[k])

RoundsOK == Rotation /\ RoundRobin

\* The remainder that pick takes, for a cursor that is at most the length.
LEMMA CursorWraps ==
    ASSUME NEW n \in Nat, n > 0, NEW c \in 1..n
    PROVE  c % n = IF c < n THEN c ELSE 0
<1>1. CASE c < n
  BY <1>1
<1>2. CASE c = n
  BY <1>2
<1> QED
  BY <1>1, <1>2

\* What pick does to one key's cursor and picks keeps them in rotation: the
\* cursor moves on by one and wraps at the end of the list.
LEMMA PickRotates ==
    ASSUME NEW list \in Seq(Servers), NEW old \in Seq(Servers), NEW c \in Nat,
           Len(list) > 0, Distinct(list), InRotation(list, old, c), NoRepeat(list, old),
           NEW index \in 0..(Len(list) - 1),
           c \in 1..Len(list) => index = IF c < Len(list) THEN c ELSE 0,
           NEW new, new = Append(old, list[index + 1])
    PROVE  InRotation(list, new, index + 1) /\ NoRepeat(list, new)
<1> DEFINE n == Len(list)
           m == Len(old)
<1>1. n \in Nat /\ n > 0 /\ m \in Nat
  OBVIOUS
<1>2. index \in 0..(n - 1)
  OBVIOUS
<1>3. c \in 1..n => index = IF c < n THEN c ELSE 0
  OBVIOUS
<1>4. list[index + 1] \in Servers
  BY <1>1, <1>2
<1>5. /\ new \in Seq(Servers) /\ Len(new) = m + 1
      /\ new[m + 1] = list[index + 1]
      /\ \A i \in 1..m : new[i] = old[i]
  BY <1>4
<1>6. ASSUME NEW d \in 0..m, d < n
      PROVE  /\ PickedAt(index + 1, d, n) \in 1..n
             /\ PickedAt(index + 1, d, n) = index + 1 <=> d = 0
             /\ new[m + 1 - d] = list[PickedAt(index + 1, d, n)]
  <2>1. /\ PickedAt(index + 1, d, n) \in 1..n
        /\ PickedAt(index + 1, d, n) = index + 1 <=> d = 0
    BY <1>1, <1>2, <1>6 DEF PickedAt
  <2>2. CASE d = 0
    BY <1>1, <1>2, <1>5, <2>2 DEF PickedAt
  <2>3. CASE d # 0
    <3>1. m > 0 /\ c \in 1..n /\ d - 1 \in 0..(m - 1) /\ d - 1 < n
      BY <1>1, <1>6, <2>3 DEF InRotation
    <3>2. m - (d - 1) = m + 1 - d /\ m + 1 - d \in 1..m
      BY <1>1, <1>6, <2>3
    <3>3. old[m + 1 - d] = list[PickedAt(c, d - 1, n)]
      BY <3>1, <3>2 DEF InRotation
    <3>4. PickedAt(c, d - 1, n) = PickedAt(index + 1, d, n)
      <4>1. c \in Nat /\ d \in Nat /\ d > 0
        BY <1>6, <2>3
      <4>2. CASE c < n
        <5>1. index = c
          BY <1>3, <3>1, <4>2
        <5> QED
          BY <1>1, <1>6, <4>1, <4>2, <5>1 DEF PickedAt
      <4>3. CASE c = n
        <5>1. index = 0
          BY <1>3, <3>1, <4>3
        <5> QED
          BY <1>1, <1>6, <4>1, <4>3, <5>1 DEF PickedAt
      <4> QED
        BY <1>1, <3>1, <4>2, <4>3
    <3> QED
      BY <1>5, <2>1, <3>2, <3>3, <3>4
  <2> QED
    BY <2>1, <2>2, <2>3
<1>7. ASSUME NEW i \in 1..(m + 1), NEW j \in 1..(m + 1), i < j, j - i < n
      PROVE  new[i] # new[j]
  <2>1. CASE j = m + 1
    <3> DEFINE d == m + 1 - i
               p == PickedAt(index + 1, d, n)
    <3>1. d \in 0..m /\ d < n /\ d # 0 /\ m + 1 - d = i
      BY <1>1, <1>7, <2>1
    <3>2. p \in 1..n /\ p # index + 1 /\ new[i] = list[p]
      BY <1>6, <3>1
    <3> HIDE DEF p
    <3>3. list[p] # list[index + 1]
      BY <1>1, <1>2, <3>2 DEF Distinct
    <3> QED
      BY <1>5, <2>1, <3>2, <3>3
  <2>2. CASE j # m + 1
    <3>1. i \in 1..m /\ j \in 1..m
      <4> HIDE DEF m, n
      <4> QED
        BY <1>1, <1>7, <2>2
    <3> QED
      BY <1>5, <1>7, <3>1 DEF NoRepeat
  <2> QED
    BY <2>1, <2>2
<1>8. index + 1 \in 1..n
  BY <1>1, <1>2
<1>9. \A d \in 0..(Len(new) - 1) : d \in 0..m /\ Len(new) - d = m + 1 - d
  BY <1>1, <1>5
<1>10. InRotation(list, new, index + 1)
  <2>1. ASSUME NEW d \in 0..(Len(new) - 1), d < n
        PROVE  new[Len(new) - d] = list[PickedAt(index + 1, d, n)]
    <3>1. d \in 0..m /\ Len(new) - d = m + 1 - d
      BY <1>9
    <3>2. new[m + 1 - d] = list[PickedAt(index + 1, d, n)]
      BY <1>6, <2>1, <3>1
    <3> QED
      BY <3>1, <3>2
  <2> QED
    BY <1>8, <2>1 DEF InRotation
<1>11. NoRepeat(list, new)
  BY <1>5, <1>7 DEF NoRepeat
<1> QED
  BY <1>10, <1>11

\* A step that leaves cursor and list of a key alone, or starts a new round
\* for it, keeps its rotation.
LEMMA RoundsFrame ==
    ASSUME RoundsOK, TypeOK,
           \A k \in Keys : \/ recent'[k] = <<>>
                           \/ /\ recent'[k] = recent[k] /\ cursor'[k] = cursor[k]
                              /\ servers'[k] = servers[k]
    PROVE  RoundsOK'
<1>1. \A k \in Keys : Len(recent'[k]) > 0 =>
        recent'[k] = recent[k] /\ cursor'[k] = cursor[k] /\ servers'[k] = servers[k]
  OBVIOUS
<1>2. \A k \in Keys : recent'[k] = <<>> => 1..Len(recent'[k]) = {}
  OBVIOUS
<1>3. Rotation'
  BY <1>1 DEF RoundsOK, Rotation, InRotation
<1>4. RoundRobin'
  BY <1>2 DEF RoundsOK, RoundRobin
<1> QED
  BY <1>3, <1>4 DEF RoundsOK

\* Only a request adds a pick, and a list changes only together with its picks.
LEMMA RoundsPreserved ==
    ASSUME TypeOK, NoGhosts, RoundsOK, [Next]_vars
    PROVE  RoundsOK'
<1>1. ASSUME NEW k \in Keys, Request(k) PROVE RoundsOK'
  <2> DEFINE index == cursor[k] % Len(servers[k])
             new == Append(recent[k], servers[k][index + 1])
  <2>1. /\ Len(servers[k]) > 0
        /\ cursor' = [cursor EXCEPT ![k] = index + 1]
        /\ recent' = [recent EXCEPT ![k] = new]
        /\ servers' = servers
    BY <1>1 DEF Request
  <2>2. /\ servers[k] \in Seq(Servers) /\ recent[k] \in Seq(Servers) /\ cursor[k] \in Nat
        /\ Distinct(servers[k])
    BY DEF TypeOK, NoGhosts, Distinct
  <2>3. InRotation(servers[k], recent[k], cursor[k]) /\ NoRepeat(servers[k], recent[k])
    BY DEF RoundsOK, Rotation, RoundRobin, NoRepeat
  <2>4. Len(servers[k]) \in Nat /\ index \in 0..(Len(servers[k]) - 1)
    BY <2>1, <2>2
  <2>5. cursor[k] \in 1..Len(servers[k]) =>
          index = IF cursor[k] < Len(servers[k]) THEN cursor[k] ELSE 0
    BY <2>1, <2>4, CursorWraps
  <2>6. recent'[k] = new /\ cursor'[k] = index + 1
    BY <2>1 DEF TypeOK
  <2>7. \A l \in Keys \ {k} : recent'[l] = recent[l] /\ cursor'[l] = cursor[l]
    BY <2>1 DEF TypeOK
  <2> HIDE DEF index
  <2>8. InRotation(servers[k], new, index + 1) /\ NoRepeat(servers[k], new)
    BY <2>1, <2>2, <2>3, <2>4, <2>5, PickRotates
  <2> HIDE DEF new
  <2>9. Rotation'
    BY <2>1, <2>6, <2>7, <2>8 DEF RoundsOK, Rotation, InRotation
  <2>10. RoundRobin'
    BY <2>1, <2>6, <2>7, <2>8 DEF RoundsOK, RoundRobin, NoRepeat
  <2> QED
    BY <2>9, <2>10 DEF RoundsOK
<1>2. ASSUME NEW l \in Keys, NEW list, SetList(l, list) PROVE RoundsOK'
  BY <1>2, RoundsFrame DEF SetList, TypeOK
<1>3. ASSUME UNCHANGED registry PROVE RoundsOK'
  BY <1>3, RoundsFrame DEF registry
<1>4. ASSUME NEW c \in Conns, HandlerStep(c) PROVE RoundsOK'
  <2>1. KeyOf[Owner[c]] \in Keys
    BY KeyOfType, OwnerType
  <2> QED
    BY <1>2, <1>3, <1>4, <2>1
       DEF HandlerStep, HandleRegister, HandlerAborts, HandlerEnds, add, remove
<1>5. ASSUME NEW s \in Servers, ServerStep(s) \/ Break(s) \/ Crash(s) \/ Restart(s)
      PROVE  RoundsOK'
  BY <1>3, <1>5 DEF ServerStep, Connect, ReplyArrives, SeesClose, Break, Crash, Restart
<1>6. CASE TrackerRestart
  BY <1>6, RoundsFrame DEF TrackerRestart
<1>7. CASE UNCHANGED vars
  BY <1>3, <1>7 DEF vars, registry
<1> QED
  BY <1>1, <1>4, <1>5, <1>6, <1>7 DEF Next

\* While a key's list does not change, any Len(list) requests in a row for it
\* go to different servers, for every list length and from every cursor that
\* earlier rounds and changes of the list left behind.
THEOREM TrackerRoundRobin == Spec => []RoundRobin
<1>1. Init => RoundsOK
  BY DEF Init, RoundsOK, Rotation, RoundRobin, InRotation
<1>2. TypeOK /\ RegistryOK /\ RoundsOK /\ [Next]_vars => RoundsOK'
  BY RoundsPreserved DEF RegistryOK
<1>3. RoundsOK => RoundRobin
  BY DEF RoundsOK
<1> QED
  BY RegistrySafe, <1>1, <1>2, <1>3, PTL DEF Spec
=============================================================================
