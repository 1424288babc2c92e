------------------------------- MODULE Tracker -------------------------------
(***************************************************************************)
(* The RPC tracker (rpc/tracker.py): its registry, one handler thread per  *)
(* connection, and the loop each RPC server runs to stay registered        *)
(* (register_with_tracker in rpc/server.py).                               *)
(*                                                                         *)
(* A server is identified with the address it advertises, which survives a *)
(* restart of its process.  A registration lives as long as its connection *)
(* does; each end learns that the other is gone only when it next reads.   *)
(***************************************************************************)
EXTENDS Naturals, Sequences

CONSTANTS Servers, Keys,
          KeyOf,      \* the device key each server registers under
          Conns,      \* numbers of the connections that may ever be opened
          Owner,      \* the server each of them is opened by
          NoConn,
          MaxFaults,  \* bound on crashes, broken connections and tracker restarts
          MaxPicks    \* bound on requests counted by the history variable

ASSUME KeyOfType == KeyOf \in [Servers -> Keys]
ASSUME OwnerType == Owner \in [Conns -> Servers]
ASSUME ConnsType == Conns \subseteq Nat /\ NoConn \notin Conns
ASSUME BoundsAreNat == MaxFaults \in Nat /\ MaxPicks \in Nat

VARIABLES
    servers,  \* Tracker._servers; an absent key is an empty list
    cursor,   \* Tracker._cursor
    handler,  \* handler[c]: where the tracker's handler thread for c is
    open,     \* open[c]: the server's end of c is still open
    loop,     \* loop[s]: where server s's registration loop is
    sock,     \* sock[s]: the connection the loop's variable sock holds
    faults,
    recent,   \* history: what pick returned since the key's list last changed
    overlap   \* history: servers registered while an earlier handler still held them

registry == <<servers, cursor, recent>>
vars == <<servers, cursor, handler, open, loop, sock, faults, recent, overlap>>

\* The types of the registry, the handler threads and the registration loops.
TypeOK ==
    /\ servers \in [Keys -> Seq(Servers)]
    /\ cursor \in [Keys -> Nat]
    /\ handler \in [Conns -> {"unused", "accepted", "holding", "ended"}]
    /\ open \in [Conns -> BOOLEAN]
    /\ loop \in [Servers -> {"down", "connecting", "awaiting", "held"}]
    /\ sock \in [Servers -> Conns \union {NoConn}]
    /\ faults \in Nat
    /\ recent \in [Keys -> Seq(Servers)]
    /\ overlap \subseteq Servers

Init ==
    /\ servers = [k \in Keys |-> <<>>]
    /\ cursor = [k \in Keys |-> 0]
    /\ handler = [c \in Conns |-> "unused"]
    /\ open = [c \in Conns |-> FALSE]
    /\ loop = [s \in Servers |-> "connecting"]
    /\ sock = [s \in Servers |-> NoConn]
    /\ faults = 0
    /\ recent = [k \in Keys |-> <<>>]
    /\ overlap = {}

-----------------------------------------------------------------------------
(* The registry operations, each one critical section of Tracker._lock.    *)

Listed(s) == \E i \in 1..Len(servers[KeyOf[s]]) : servers[KeyOf[s]][i] = s

\* The list without its (only) occurrence of s.
Without(list, s) ==
    LET at == CHOOSE i \in 1..Len(list) : list[i] = s
    IN  [j \in 1..(Len(list) - 1) |-> IF j < at THEN list[j] ELSE list[j + 1]]

\* A changed list starts a new round of picks.
SetList(k, list) ==
    /\ servers' = [servers EXCEPT ![k] = list]
    /\ recent' = [recent EXCEPT ![k] = <<>>]
    /\ UNCHANGED cursor

add(s) ==
    IF Listed(s) THEN UNCHANGED registry
    ELSE SetList(KeyOf[s], Append(servers[KeyOf[s]], s))

\* Mutant of remove: the key is popped although other servers are under it.
RemovePopsKey(s) == SetList(KeyOf[s], <<>>)

remove(s) ==
    IF Listed(s) THEN SetList(KeyOf[s], Without(servers[KeyOf[s]], s))
    ELSE UNCHANGED registry

\* Mutant of Request: the cursor is not advanced.
RequestKeepsCursor(k) ==
    LET index == cursor[k] % Len(servers[k])
    IN  /\ Len(servers[k]) > 0
        /\ Len(recent[k]) < MaxPicks
        /\ cursor' = [cursor EXCEPT ![k] = index]
        /\ recent' = [recent EXCEPT ![k] = Append(@, servers[k][index + 1])]
        /\ UNCHANGED <<servers, handler, open, loop, sock, faults, overlap>>

\* op "request": pick under the lock, answer, and the handler is done.  With
\* no server under the key nothing changes.
Request(k) ==
    LET index == cursor[k] % Len(servers[k])
    IN  /\ Len(servers[k]) > 0
        /\ Len(recent[k]) < MaxPicks
        /\ cursor' = [cursor EXCEPT ![k] = index + 1]
        /\ recent' = [recent EXCEPT ![k] = Append(@, servers[k][index + 1])]
        /\ UNCHANGED <<servers, handler, open, loop, sock, faults, overlap>>

-----------------------------------------------------------------------------
(* A server's registration loop.                                           *)

\* create_connection and the register message, on the server's next connection.  Rebinding sock drops the last
\* reference to the previous socket, which closes it only now.
Connect(s, c) ==
    /\ loop[s] = "connecting"
    /\ handler[c] = "unused" /\ Owner[c] = s
    /\ \A x \in Conns : Owner[x] = s /\ x < c => handler[x] # "unused"
    /\ handler' = [handler EXCEPT ![c] = "accepted"]
    /\ open' = [x \in Conns |-> IF x = c THEN TRUE
                                ELSE open[x] /\ x # sock[s]]
    /\ sock' = [sock EXCEPT ![s] = c]
    /\ loop' = [loop EXCEPT ![s] = "awaiting"]
    /\ UNCHANGED <<registry, faults, overlap>>

\* The tracker's {"ok": True} arrives; the loop blocks in recv.
ReplyArrives(s) ==
    /\ loop[s] = "awaiting"
    /\ handler[sock[s]] = "holding"
    /\ loop' = [loop EXCEPT ![s] = "held"]
    /\ UNCHANGED <<registry, handler, open, sock, faults, overlap>>

\* Mutant of SeesClose: a loop that holds its registration never reads again.
SeesCloseOnlyAwaiting(s) ==
    /\ loop[s] = "awaiting"
    /\ handler[sock[s]] = "ended"
    /\ loop' = [loop EXCEPT ![s] = "connecting"]
    /\ UNCHANGED <<registry, handler, open, sock, faults, overlap>>

\* The read returns or fails because the tracker's end is closed: sleep, retry.
SeesClose(s) ==
    /\ loop[s] \in {"awaiting", "held"}
    /\ handler[sock[s]] = "ended"
    /\ loop' = [loop EXCEPT ![s] = "connecting"]
    /\ UNCHANGED <<registry, handler, open, sock, faults, overlap>>

\* The read fails although the tracker's handler still waits on its end.
Break(s) ==
    /\ faults < MaxFaults
    /\ loop[s] \in {"awaiting", "held"}
    /\ open[sock[s]]
    /\ loop' = [loop EXCEPT ![s] = "connecting"]
    /\ open' = [open EXCEPT ![sock[s]] = FALSE]
    /\ faults' = faults + 1
    /\ UNCHANGED <<registry, handler, sock, overlap>>

\* The server's process dies; its sockets are closed by the kernel.
Crash(s) ==
    /\ faults < MaxFaults
    /\ loop[s] # "down"
    /\ loop' = [loop EXCEPT ![s] = "down"]
    /\ open' = [x \in Conns |-> open[x] /\ x # sock[s]]
    /\ sock' = [sock EXCEPT ![s] = NoConn]
    /\ faults' = faults + 1
    /\ UNCHANGED <<registry, handler, overlap>>

Restart(s) ==
    /\ loop[s] = "down"
    /\ loop' = [loop EXCEPT ![s] = "connecting"]
    /\ UNCHANGED <<registry, handler, open, sock, faults, overlap>>

-----------------------------------------------------------------------------
(* The tracker's handler threads.                                          *)

\* op "register": add, then answer and hold the connection.
HandleRegister(c) ==
    /\ handler[c] = "accepted"
    /\ add(Owner[c])
    /\ handler' = [handler EXCEPT ![c] = "holding"]
    /\ overlap' = IF \E d \in Conns : handler[d] = "holding" /\ Owner[d] = Owner[c]
                  THEN overlap \union {Owner[c]} ELSE overlap
    /\ UNCHANGED <<open, loop, sock, faults>>

\* The connection ends before its message arrived: nothing was registered.
HandlerAborts(c) ==
    /\ handler[c] = "accepted"
    /\ ~open[c]
    /\ handler' = [handler EXCEPT ![c] = "ended"]
    /\ UNCHANGED <<registry, open, loop, sock, faults, overlap>>

\* Mutant of HandlerEnds: no finally clause.
HandlerEndsKeeps(c) ==
    /\ handler[c] = "holding"
    /\ ~open[c]
    /\ handler' = [handler EXCEPT ![c] = "ended"]
    /\ UNCHANGED <<registry, open, loop, sock, faults, overlap>>

\* End of stream (or a failed reply): the finally clause removes the entry.
HandlerEnds(c) ==
    /\ handler[c] = "holding"
    /\ ~open[c]
    /\ remove(Owner[c])
    /\ handler' = [handler EXCEPT ![c] = "ended"]
    /\ UNCHANGED <<open, loop, sock, faults, overlap>>

\* The tracker's process is replaced: its registry and its handlers are gone.
TrackerRestart ==
    /\ faults < MaxFaults
    /\ servers' = [k \in Keys |-> <<>>]
    /\ cursor' = [k \in Keys |-> 0]
    /\ recent' = [k \in Keys |-> <<>>]
    /\ handler' = [c \in Conns |-> IF handler[c] = "unused" THEN "unused" ELSE "ended"]
    /\ faults' = faults + 1
    /\ UNCHANGED <<open, loop, sock, overlap>>

ServerStep(s) ==
    (\E c \in Conns : Connect(s, c)) \/ ReplyArrives(s) \/ SeesClose(s)
HandlerStep(c) == HandleRegister(c) \/ HandlerAborts(c) \/ HandlerEnds(c)

Next ==
    \/ \E s \in Servers : ServerStep(s) \/ Break(s) \/ Crash(s) \/ Restart(s)
    \/ \E c \in Conns : HandlerStep(c)
    \/ \E k \in Keys : Request(k)
    \/ TrackerRestart

\* Threads are scheduled and a closed end is eventually noticed; nobody is
\* obliged to send requests, to fail or to restart a crashed server.
Fairness ==
    /\ \A s \in Servers : WF_vars(ServerStep(s))
    /\ \A c \in Conns : WF_vars(HandlerStep(c))

Spec == Init /\ [][Next]_vars /\ Fairness

-----------------------------------------------------------------------------
(* Properties.                                                             *)

HasHandler(s) == \E c \in Conns : Owner[c] = s /\ handler[c] = "holding"

\* "A server disappears from the registry as soon as its registration
\* connection closes": an address is listed at most once, under its server's
\* own key, and only while some handler still holds a connection for it.
NoGhosts ==
    \A k \in Keys : \A i \in 1..Len(servers[k]) :
        /\ KeyOf[servers[k][i]] = k
        /\ HasHandler(servers[k][i])
        /\ \A j \in 1..Len(servers[k]) : servers[k][i] = servers[k][j] => i = j

\* register_with_tracker "keeps this server registered": as long as server and
\* tracker both hold the registration connection, clients can find the server.
HeldMeansListed ==
    \A s \in Servers :
        loop[s] = "held" /\ handler[sock[s]] = "holding" => Listed(s)

\* ... which is so for a server no two of whose registrations ever overlapped.
HeldMeansListedUnlessOverlap ==
    \A s \in Servers :
        s \notin overlap /\ HasHandler(s) => Listed(s)

\* request hands out a key's servers round-robin: while the list does not
\* change, any Len(list) requests in a row go to different servers.
RoundRobin ==
    \A k \in Keys : \A i, j \in 1..Len(recent[k]) :
        i < j /\ j - i < Len(servers[k]) => recent[k][i] # recent[k][j]

\* Once the faults are over, every running server holds a connection that the
\* tracker's current handler holds too (re-registering after each fault).
Reregisters ==
    \A s \in Servers :
        <>[](loop[s] = "down" \/ (loop[s] = "held" /\ handler[sock[s]] = "holding"))
=============================================================================
