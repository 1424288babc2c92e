----------------------------- MODULE RpcSession -----------------------------
(***************************************************************************)
(* The sessions of an RPC server (onnxsim/rpc/server.py) and the clients   *)
(* that hold them (client.py, executor.py).  Every connection has a thread *)
(* of its own on the server, a table of loaded models and the processes    *)
(* that tinygrad models live in; all of them share the work directory and  *)
(* the XDNA lock.                                                          *)
(*                                                                         *)
(* A connection is a FIFO in each direction.  A file is the sequence of    *)
(* the units written to it, each standing for a stretch of one upload.     *)
(* Requests carry the number of the call, which the wire does not: it says *)
(* which call an answer is for.  run and time differ only in what they     *)
(* compute, and so do the three XDNA operations.                           *)
(***************************************************************************)
EXTENDS Naturals, Sequences

CONSTANTS Sessions,       \* connections, each used once
          Names,          \* sanitized file names of the work directory
          Contents, Size, \* models, and how many units each takes
          Plans,          \* what the clients may do: operations, runtimes, calls
          MaxCalls,       \* bound on the calls of each client
          MaxCrashes,     \* bound on deaths of the server
          MaxInterrupts,  \* bound on interrupted calls
          MaxWorkers,     \* the processes the server can start
          None

Ops == {"upload", "load", "load_name", "once", "run", "unload", "xdna", "bad", "huge",
        "close"}
Runtimes == {"onnxruntime", "tinygrad"}

ASSUME SizeType == Size \in [Contents -> Nat \ {0}]
ASSUME BoundsType == {MaxCalls, MaxCrashes, MaxInterrupts, MaxWorkers} \subseteq Nat
ASSUME PlansType ==
    Plans \subseteq [Sessions -> [ops : SUBSET Ops, runtimes : SUBSET Runtimes,
                                 calls : 0..MaxCalls]]
ASSUME NoneFresh == None \notin Sessions \union Contents

Whole(c) == [i \in 1..Size[c] |-> c]

VARIABLES
    plan,                 \* what each client is going to do
    client, calls, wants, \* each client: where it is, how many calls, the last
    handles,              \* what the model behind each of its handles is
    desynced, interrupts, \* it gave up a call and kept the session
    up, down,             \* the two directions of each connection
    pc, job, models, counter, \* each handler thread
    procs,                \* every tinygrad worker process started so far
    files, last, clash,   \* the work directory; the last upload of each file
    lock,                 \* xdna_lock: who holds it
    alive, crashes,       \* the server process
    killed                \* sessions that a death of the server has cut off

clients == <<plan, client, calls, wants, handles, desynced, interrupts>>
handlers == <<pc, job, models, counter>>
disk == <<files, last, clash>>
server == <<alive, crashes, killed>>
vars == <<clients, up, down, handlers, procs, disk, lock, server>>

Handles == 1..MaxCalls

Init ==
    /\ plan \in Plans
    /\ client = [s \in Sessions |-> "new"] /\ calls = [s \in Sessions |-> 0]
    /\ wants = [s \in Sessions |-> None]
    /\ handles = [s \in Sessions |-> [h \in Handles |-> None]]
    /\ desynced = [s \in Sessions |-> FALSE] /\ interrupts = 0
    /\ up = [s \in Sessions |-> <<>>] /\ down = [s \in Sessions |-> <<>>]
    /\ pc = [s \in Sessions |-> "none"] /\ job = [s \in Sessions |-> None]
    /\ models = [s \in Sessions |-> [h \in Handles |-> None]]
    /\ counter = [s \in Sessions |-> 0]
    /\ procs = <<>>
    /\ files = [n \in Names |-> None] /\ last = [n \in Names |-> None]
    /\ clash = [n \in Names |-> FALSE]
    /\ lock = None /\ alive = TRUE /\ crashes = 0 /\ killed = {}

-----------------------------------------------------------------------------
(* The client *)

\* connect: the hello carries the server's key, or another one.
Connect(s) ==
    /\ client[s] = "new" /\ alive /\ plan[s].calls > 0
    /\ \E key \in {"right", "wrong"} : up' = [up EXCEPT ![s] = <<[op |-> "hello", key |-> key]>>]
    /\ client' = [client EXCEPT ![s] = "hello"]
    /\ pc' = [pc EXCEPT ![s] = "hello"]
    /\ UNCHANGED <<plan, calls, wants, handles, desynced, interrupts, down, job, models,
                   counter, procs, disk, lock, server>>

Welcomed(s) ==
    /\ client[s] = "hello" /\ down[s] # <<>>
    /\ client' = [client EXCEPT ![s] = IF Head(down[s]).ok THEN "idle" ELSE "over"]
    /\ down' = [down EXCEPT ![s] = Tail(@)]
    /\ UNCHANGED <<plan, calls, wants, handles, desynced, interrupts, up, handlers, procs,
                   disk, lock, server>>

\* A load carries the model or names a file.  "bad" stands for requests that
\* _dispatch refuses, "huge" for a message over max_blob_bytes.
AllRequests ==
         [op : {"upload"}, name : Names, data : Contents]
  \union [op : {"load", "once"}, runtime : Runtimes, data : Contents]
  \union [op : {"load_name"}, runtime : Runtimes, name : Names]
  \union [op : {"run", "unload"}, handle : Handles]
  \union [op : {"xdna", "bad", "huge", "close"}]

\* A client uses the handles it was given.
Requests(s) ==
    {r \in AllRequests :
        /\ r.op \in plan[s].ops
        /\ r.op \in {"load", "once", "load_name"} => r.runtime \in plan[s].runtimes
        /\ r.op \in {"run", "unload"} => handles[s][r.handle] # None}

\* Session._call up to its recv_message.
Call(s) ==
    /\ client[s] = "idle" /\ calls[s] < plan[s].calls
    /\ \E r \in Requests(s) :
        /\ wants' = [wants EXCEPT ![s] = r]
        /\ up' = [up EXCEPT ![s] = Append(@, [id |-> calls[s] + 1, request |-> r])]
    /\ calls' = [calls EXCEPT ![s] = @ + 1]
    /\ client' = [client EXCEPT ![s] = "waiting"]
    /\ UNCHANGED <<plan, handles, desynced, interrupts, down, handlers, procs, disk, lock,
                   server>>

\* What load_model answers becomes a RemoteModel; the ones made before keep
\* the handles they have.
Return(s) ==
    /\ client[s] = "waiting" /\ down[s] # <<>>
    /\ LET reply == Head(down[s])
       IN  handles' = IF /\ wants[s].op \in {"load", "load_name"}
                         /\ reply.ok /\ reply.handle # None
                         /\ handles[s][reply.handle] = None
                      THEN [handles EXCEPT ![s][reply.handle] = reply.data]
                      ELSE handles
    /\ down' = [down EXCEPT ![s] = Tail(@)]
    /\ client' = [client EXCEPT ![s] = IF wants[s].op = "close" THEN "over" ELSE "idle"]
    /\ wants' = [wants EXCEPT ![s] = None]
    /\ UNCHANGED <<plan, calls, desynced, interrupts, up, handlers, procs, disk, lock,
                   server>>

\* KeyboardInterrupt in recv_message, before any of the answer was read: the
\* session is still there to be used.
Interrupted(s) ==
    /\ client[s] = "waiting" /\ interrupts < MaxInterrupts
    /\ interrupts' = interrupts + 1
    /\ desynced' = [desynced EXCEPT ![s] = TRUE]
    /\ client' = [client EXCEPT ![s] = "idle"]
    /\ wants' = [wants EXCEPT ![s] = None]
    /\ UNCHANGED <<plan, calls, handles, up, down, handlers, procs, disk, lock, server>>

\* The client's process or its socket goes away.
HangUp(s) ==
    /\ client[s] \in {"hello", "idle", "waiting"}
    /\ client' = [client EXCEPT ![s] = "over"]
    /\ wants' = [wants EXCEPT ![s] = None] /\ down' = [down EXCEPT ![s] = <<>>]
    /\ UNCHANGED <<plan, calls, handles, desynced, interrupts, up, handlers,
                   procs, disk, lock, server>>

\* ConnectionError: the server's end is closed and everything in it was read.
ConnectionLost(s) ==
    /\ client[s] \in {"hello", "waiting"} /\ down[s] = <<>> /\ pc[s] = "none"
    /\ client' = [client EXCEPT ![s] = IF client[s] = "waiting" /\ wants[s].op = "close"
                                      THEN "over" ELSE "lost"]
    /\ UNCHANGED <<plan, calls, wants, handles, desynced, interrupts, up, down, handlers,
                   procs, disk, lock, server>>

-----------------------------------------------------------------------------
(* The handler threads *)

Open(s) == client[s] \notin {"over", "lost"}

Step(s, where) == pc' = [pc EXCEPT ![s] = where]

\* send_message: what a client that is gone does not read is lost.
Post(s, reply) == down' = IF Open(s) THEN [down EXCEPT ![s] = Append(@, reply)] ELSE down

\* The reply of a dispatched request, and back to the top of the loop.
Answer(s, ok, handle, data) ==
    /\ Post(s, [id |-> job[s].id, ok |-> ok, handle |-> handle, data |-> data])
    /\ Step(s, "recv")
    /\ job' = [job EXCEPT ![s] = None]

\* Any exception in _dispatch becomes an error reply.
Fail(s) == Answer(s, FALSE, None, None)

Hello(s) ==
    /\ pc[s] = "hello" /\ up[s] # <<>>
    /\ LET ok == Head(up[s]).key = "right"
       IN  Post(s, [ok |-> ok]) /\ Step(s, IF ok THEN "recv" ELSE "ending")
    /\ up' = [up EXCEPT ![s] = Tail(@)]
    /\ UNCHANGED <<clients, job, models, counter, procs, disk, lock, server>>

\* recv_message: RPCError for a blob over the limit ends the session without
\* an answer; close answers and ends it; the rest is dispatched, and a model
\* that rides in the message is at hand.
Take(s) ==
    /\ pc[s] = "recv" /\ up[s] # <<>>
    /\ LET m == Head(up[s])
           op == m.request.op
       IN  \/ /\ op = "huge"
              /\ Step(s, "ending") /\ UNCHANGED <<job, down>>
           \/ /\ op = "close"
              /\ Post(s, [id |-> m.id, ok |-> TRUE, handle |-> None, data |-> None])
              /\ Step(s, "ending") /\ UNCHANGED job
           \/ /\ op \notin {"huge", "close"}
              /\ job' = [job EXCEPT ![s] =
                    [id |-> m.id, request |-> m.request, proc |-> 0, at |-> 0,
                     data |-> IF op \in {"load", "once"} THEN Whole(m.request.data) ELSE None]]
              /\ Step(s, IF op \in {"load", "once"} THEN "make" ELSE op)
              /\ UNCHANGED down
    /\ up' = [up EXCEPT ![s] = Tail(@)]
    /\ UNCHANGED <<clients, models, counter, procs, disk, lock, server>>

\* ConnectionError in recv_message, or in sending the last reply.
SeesHangUp(s) ==
    /\ pc[s] \in {"hello", "recv"} /\ ~Open(s)
    /\ Step(s, "ending")
    /\ UNCHANGED <<clients, up, down, job, models, counter, procs, disk, lock, server>>

Bad(s) ==
    /\ pc[s] = "bad"
    /\ Fail(s)
    /\ UNCHANGED <<clients, up, models, counter, procs, disk, lock, server>>

\* upload: open(path, "wb") truncates the file ...
Writing(n) == {s \in Sessions : pc[s] = "write" /\ job[s].request.name = n}

\* Mutant: the file is opened for update.
OpenFileUpdates(s) ==
    /\ pc[s] = "upload"
    /\ LET r == job[s].request
       IN  /\ files' = [files EXCEPT ![r.name] = IF @ = None THEN <<>> ELSE @]
           /\ last' = [last EXCEPT ![r.name] = r.data]
           /\ clash' = [clash EXCEPT ![r.name] = Writing(r.name) # {}]
    /\ Step(s, "write")
    /\ UNCHANGED <<clients, up, down, job, models, counter, procs, lock, server>>

OpenFile(s) ==
    /\ pc[s] = "upload"
    /\ LET r == job[s].request
       IN  /\ files' = [files EXCEPT ![r.name] = <<>>]
           /\ last' = [last EXCEPT ![r.name] = r.data]
           /\ clash' = [clash EXCEPT ![r.name] = Writing(r.name) # {}]
    /\ Step(s, "write")
    /\ UNCHANGED <<clients, up, down, job, models, counter, procs, lock, server>>

\* Mutant: every unit is acknowledged.
WriteUnitAcks(s) ==
    /\ pc[s] = "write"
    /\ LET n == job[s].request.name
           at == job[s].at + 1
       IN  /\ files' = [files EXCEPT ![n] = Append(@, job[s].request.data)]
           /\ IF at < Size[job[s].request.data]
              THEN /\ job' = [job EXCEPT ![s].at = at] /\ UNCHANGED pc
                   /\ Post(s, [id |-> job[s].id, ok |-> TRUE, handle |-> None, data |-> None])
              ELSE Answer(s, TRUE, None, None)
    /\ UNCHANGED <<clients, up, models, counter, procs, last, clash, lock, server>>

\* ... and write fills it at the descriptor's own offset; units that nobody
\* wrote before it read as zeros (None).
WriteUnit(s) ==
    /\ pc[s] = "write"
    /\ LET n == job[s].request.name
           c == job[s].request.data
           at == job[s].at + 1
           end == IF at > Len(files[n]) THEN at ELSE Len(files[n])
       IN  /\ files' = [files EXCEPT ![n] = [i \in 1..end |->
                            IF i = at THEN c ELSE IF i \in DOMAIN files[n] THEN files[n][i] ELSE None]]
           /\ IF at < Size[c]
              THEN job' = [job EXCEPT ![s].at = at] /\ UNCHANGED <<pc, down>>
              ELSE Answer(s, TRUE, None, None)
    /\ UNCHANGED <<clients, up, models, counter, procs, last, clash, lock, server>>

\* The write raises OSError: the client is told, what was written stays.
WriteFails(s) ==
    /\ pc[s] = "write"
    /\ Fail(s)
    /\ clash' = [clash EXCEPT ![job[s].request.name] = TRUE]
    /\ UNCHANGED <<clients, up, models, counter, procs, files, last, lock, server>>

\* Mutant: the missing file's OSError is taken for one of the connection.
ReadFileHangsUp(s) ==
    /\ pc[s] = "load_name"
    /\ LET n == job[s].request.name
       IN  IF files[n] = None
           THEN Step(s, "ending") /\ job' = [job EXCEPT ![s] = None]
           ELSE job' = [job EXCEPT ![s].data = files[n]] /\ Step(s, "make")
    /\ UNCHANGED <<clients, up, down, models, counter, procs, disk, lock, server>>

\* load_model by name: the bytes of a file of the work directory.
ReadFile(s) ==
    /\ pc[s] = "load_name"
    /\ LET n == job[s].request.name
       IN  IF files[n] = None
           THEN Fail(s)
           ELSE /\ job' = [job EXCEPT ![s].data = files[n]]
                /\ Step(s, "make") /\ UNCHANGED down
    /\ UNCHANGED <<clients, up, models, counter, procs, disk, lock, server>>

\* Mutant: the handle is the first free one.
RegisterReuses(s, proc) ==
    /\ counter' = [counter EXCEPT ![s] = @ + 1]
    /\ \E h \in Handles :
        /\ models[s][h] = None /\ \A k \in 1..(h - 1) : models[s][k] # None
        /\ models' = [models EXCEPT ![s][h] = [data |-> job[s].data, proc |-> proc]]
        /\ Answer(s, TRUE, h, job[s].data)

\* handle = counter + 1; models[handle] = runner
Register(s, proc) ==
    /\ counter' = [counter EXCEPT ![s] = @ + 1]
    /\ models' = [models EXCEPT ![s][counter[s] + 1] = [data |-> job[s].data, proc |-> proc]]
    /\ Answer(s, TRUE, counter[s] + 1, job[s].data)

\* _make_runner with onnxruntime, whose session may refuse the model; run_once
\* goes on to run it.
MakeInProcess(s) ==
    /\ pc[s] = "make" /\ job[s].request.runtime = "onnxruntime"
    /\ \/ Fail(s) /\ UNCHANGED <<models, counter>>
       \/ job[s].request.op = "once" /\ Answer(s, TRUE, None, job[s].data)
          /\ UNCHANGED <<models, counter>>
       \/ job[s].request.op # "once" /\ Register(s, 0)
    /\ UNCHANGED <<clients, up, procs, disk, lock, server>>

\* _TinygradProxy.__init__: the process is started, then awaited in _receive;
\* without tinygrad on the server there is none.
MakeProxy(s) ==
    /\ pc[s] = "make" /\ job[s].request.runtime = "tinygrad"
    /\ \/ Fail(s) /\ UNCHANGED procs
       \/ /\ Len(procs) < MaxWorkers
          /\ procs' = Append(procs, [owner |-> s, data |-> job[s].data,
                                     state |-> "starting", out |-> None])
          /\ job' = [job EXCEPT ![s].proc = Len(procs) + 1]
          /\ Step(s, "starting") /\ UNCHANGED down
    /\ UNCHANGED <<clients, up, models, counter, disk, lock, server>>

\* _TinygradProxy.close: the worker takes the message and returns; join has a
\* timeout, after which the process is terminated.
Closed(p) == [procs EXCEPT ![p].state = "gone", ![p].out = None]

\* _receive in the constructor: ok, an error (close, raise) or EOFError.
Started(s) ==
    /\ pc[s] = "starting"
    /\ LET p == job[s].proc
       IN  \/ /\ procs[p].out = "ok" /\ job[s].request.op # "once"
              /\ Register(s, p)
              /\ procs' = [procs EXCEPT ![p].out = None]
           \/ /\ procs[p].out = "ok" /\ job[s].request.op = "once"
              /\ Step(s, "send")
              /\ procs' = [procs EXCEPT ![p].out = None]
              /\ UNCHANGED <<job, down, models, counter>>
           \/ /\ \/ procs[p].out = "error"
                 \/ procs[p].out = None /\ procs[p].state = "gone"
              /\ Fail(s)
              /\ procs' = Closed(p)
              /\ UNCHANGED <<models, counter>>
    /\ UNCHANGED <<clients, up, disk, lock, server>>

\* run and time: _model, then an in-process run or the proxy's _call.
Run(s) ==
    /\ pc[s] = "run"
    /\ LET runner == models[s][job[s].request.handle]
       IN  \/ runner = None /\ Fail(s)
           \/ /\ runner # None /\ runner.proc = 0
              /\ Fail(s) \/ Answer(s, TRUE, None, runner.data)
           \/ /\ runner # None /\ runner.proc # 0
              /\ job' = [job EXCEPT ![s].proc = runner.proc]
              /\ Step(s, "send") /\ UNCHANGED down
    /\ UNCHANGED <<clients, up, models, counter, procs, disk, lock, server>>

\* _parent.send: BrokenPipeError once the process is gone.  run_once closes
\* its runner in any case.
Send(s) ==
    /\ pc[s] = "send"
    /\ LET p == job[s].proc
       IN  IF procs[p].state = "gone"
           THEN Fail(s) /\ UNCHANGED procs
           ELSE /\ procs' = [procs EXCEPT ![p].state = "busy"]
                /\ Step(s, "running") /\ UNCHANGED <<job, down>>
    /\ UNCHANGED <<clients, up, models, counter, disk, lock, server>>

\* Mutant: run_once without its finally clause.
ReceivedLeaves(s) ==
    /\ pc[s] = "running"
    /\ LET p == job[s].proc
       IN  \/ /\ procs[p].out = "ok"
              /\ Answer(s, TRUE, None, procs[p].data)
              /\ procs' = [procs EXCEPT ![p].out = None]
           \/ /\ procs[p].out = "error" /\ Fail(s) /\ procs' = Closed(p)
           \/ /\ procs[p].out = None /\ procs[p].state = "gone"
              /\ Fail(s) /\ UNCHANGED procs
    /\ UNCHANGED <<clients, up, models, counter, disk, lock, server>>

\* Mutant: the child's end stays open in the server, and recv never ends.
ReceivedNoEOF(s) ==
    /\ pc[s] = "running"
    /\ LET p == job[s].proc
       IN  \/ /\ procs[p].out = "ok"
              /\ Answer(s, TRUE, None, procs[p].data)
              /\ procs' = IF job[s].request.op = "once" THEN Closed(p)
                                                        ELSE [procs EXCEPT ![p].out = None]
           \/ /\ procs[p].out = "error" /\ Fail(s) /\ procs' = Closed(p)
    /\ UNCHANGED <<clients, up, models, counter, disk, lock, server>>

\* _receive of a run: an error closes the worker and leaves the handle.
Received(s) ==
    /\ pc[s] = "running"
    /\ LET p == job[s].proc
       IN  \/ /\ procs[p].out = "ok"
              /\ Answer(s, TRUE, None, procs[p].data)
              /\ procs' = IF job[s].request.op = "once" THEN Closed(p)
                                                        ELSE [procs EXCEPT ![p].out = None]
           \/ /\ procs[p].out = "error" /\ Fail(s) /\ procs' = Closed(p)
           \/ /\ procs[p].out = None /\ procs[p].state = "gone"
              /\ Fail(s) /\ UNCHANGED procs
    /\ UNCHANGED <<clients, up, models, counter, disk, lock, server>>

\* _close of a runner of the table.
CloseRunner(s, h) ==
    /\ models' = [models EXCEPT ![s][h] = None]
    /\ procs' = IF models[s][h] = None \/ models[s][h].proc = 0
                THEN procs ELSE Closed(models[s][h].proc)

Unload(s) ==
    /\ pc[s] = "unload"
    /\ CloseRunner(s, job[s].request.handle)
    /\ Answer(s, TRUE, None, None)
    /\ UNCHANGED <<clients, up, counter, disk, lock, server>>

\* with server.xdna_lock
XdnaLock(s) ==
    /\ pc[s] = "xdna" /\ lock = None
    /\ lock' = s /\ Step(s, "xdna_held")
    /\ UNCHANGED <<clients, up, down, job, models, counter, procs, disk, server>>

XdnaDone(s) ==
    /\ pc[s] = "xdna_held"
    /\ lock' = None
    /\ Fail(s) \/ Answer(s, TRUE, None, None)
    /\ UNCHANGED <<clients, up, models, counter, procs, disk, server>>

\* finally: the runners are closed one after the other.
EndCloses(s) ==
    /\ pc[s] = "ending"
    /\ \E h \in Handles :
        /\ models[s][h] # None /\ \A k \in 1..(h - 1) : models[s][k] = None
        /\ CloseRunner(s, h)
    /\ UNCHANGED <<clients, up, down, pc, job, counter, disk, lock, server>>

Ended(s) ==
    /\ pc[s] = "ending" /\ \A h \in Handles : models[s][h] = None
    /\ Step(s, "none") /\ up' = [up EXCEPT ![s] = <<>>]
    /\ UNCHANGED <<clients, down, job, models, counter, procs, disk, lock, server>>

-----------------------------------------------------------------------------
(* The worker processes, and the death of the server *)

\* The proxy of p is in no table and in no call, so its end of the pipe is
\* closed.
Orphan(p) ==
    LET s == procs[p].owner
    IN  /\ \A h \in Handles : models[s][h] # None => models[s][h].proc # p
        /\ job[s] # None => job[s].proc # p

Set(p, state, out) == procs' = [procs EXCEPT ![p].state = state, ![p].out = out]

WorkerStarts(p) ==
    /\ procs[p].state = "starting" /\ ~Orphan(p)
    /\ Set(p, "idle", "ok") \/ Set(p, "gone", "error")
    /\ UNCHANGED <<clients, up, down, handlers, disk, lock, server>>

WorkerRuns(p) ==
    /\ procs[p].state = "busy" /\ ~Orphan(p)
    /\ \E out \in {"ok", "error"} : Set(p, "idle", out)
    /\ UNCHANGED <<clients, up, down, handlers, disk, lock, server>>

\* Mutant: a forked worker holds the server's end itself and reads on.
WorkerOrphanedForked(p) ==
    /\ procs[p].state = "busy" /\ Orphan(p)
    /\ Set(p, "gone", None)
    /\ UNCHANGED <<clients, up, down, handlers, disk, lock, server>>

\* EOFError while idle, BrokenPipeError when it answers: the worker ends.
WorkerOrphaned(p) ==
    /\ procs[p].state # "gone" /\ Orphan(p)
    /\ Set(p, "gone", None)
    /\ UNCHANGED <<clients, up, down, handlers, disk, lock, server>>

\* A fault of the device kills the process; an answer it has sent stays.
WorkerDies(p) ==
    /\ procs[p].state # "gone"
    /\ Set(p, "gone", procs[p].out)
    /\ UNCHANGED <<clients, up, down, handlers, disk, lock, server>>

\* The server is killed: its threads are gone, the files stay as they are.
Crash ==
    /\ alive /\ crashes < MaxCrashes
    /\ alive' = FALSE /\ crashes' = crashes + 1
    /\ killed' = killed \union {s \in Sessions : pc[s] # "none"}
    /\ pc' = [s \in Sessions |-> "none"] /\ job' = [s \in Sessions |-> None]
    /\ models' = [s \in Sessions |-> [h \in Handles |-> None]]
    /\ up' = [s \in Sessions |-> <<>>]
    /\ clash' = [n \in Names |-> clash[n] \/ Writing(n) # {}]
    /\ lock' = None
    /\ UNCHANGED <<clients, down, counter, procs, files, last>>

Restart ==
    /\ ~alive
    /\ alive' = TRUE
    /\ UNCHANGED <<clients, up, down, handlers, procs, disk, lock, crashes, killed>>

-----------------------------------------------------------------------------
Serve(s) == \/ Hello(s) \/ Take(s) \/ SeesHangUp(s) \/ Bad(s) \/ OpenFile(s)
            \/ WriteUnit(s) \/ WriteFails(s) \/ ReadFile(s) \/ MakeInProcess(s)
            \/ MakeProxy(s) \/ Started(s) \/ Run(s) \/ Send(s) \/ Received(s)
            \/ Unload(s) \/ XdnaDone(s) \/ EndCloses(s) \/ Ended(s)

Listen(s) == Welcomed(s) \/ Return(s) \/ ConnectionLost(s)

Work(p) == WorkerStarts(p) \/ WorkerRuns(p) \/ WorkerOrphaned(p)

Next ==
    \/ \E s \in Sessions :
        \/ Connect(s) \/ Call(s) \/ Interrupted(s) \/ HangUp(s) \/ Listen(s)
        \/ Serve(s) \/ XdnaLock(s)
    \/ \E p \in DOMAIN procs : Work(p) \/ WorkerDies(p)
    \/ Crash \/ Restart

\* Every thread and process that can go on does: a model's run ends.  The lock
\* is free again after finitely many calls.
Fairness ==
    /\ \A s \in Sessions : WF_vars(Serve(s)) /\ WF_vars(XdnaLock(s)) /\ WF_vars(Listen(s))
    /\ \A p \in 1..MaxWorkers : WF_vars(p \in DOMAIN procs /\ Work(p))

Spec == Init /\ [][Next]_vars /\ Fairness

-----------------------------------------------------------------------------
(* Properties *)

Resting == {"none", "hello", "recv", "ending"}
Busy(s) == pc[s] \notin Resting

Data == Seq(Contents \union {None})
Jobs == [id : Nat, request : AllRequests, proc : Nat, at : Nat, data : Data \union {None}]
Replies == [id : Nat, ok : BOOLEAN, handle : Nat \union {None}, data : Data \union {None}]

\* None stands for the absence of a request, a job or a model.
ASSUME NoneIsAbsence == None \notin AllRequests \union Jobs \union [data : Data, proc : Nat]

ClientTypes ==
    /\ plan \in Plans
    /\ client \in [Sessions -> {"new", "hello", "idle", "waiting", "over", "lost"}]
    /\ calls \in [Sessions -> Nat] /\ wants \in [Sessions -> AllRequests \union {None}]
    /\ handles \in [Sessions -> [Handles -> Data \union {None}]]
    /\ desynced \in [Sessions -> BOOLEAN] /\ interrupts \in Nat

UpTypes == up \in [Sessions -> Seq([id : Nat, request : AllRequests]
                                   \union [op : {"hello"}, key : {"right", "wrong"}])]

DownTypes == down \in [Sessions -> Seq(Replies \union [ok : BOOLEAN])]

HandlerTypes ==
    /\ pc \in [Sessions -> Resting \union
                           {"bad", "upload", "write", "load_name", "make", "starting", "run",
                            "send", "running", "unload", "xdna", "xdna_held"}]
    /\ job \in [Sessions -> Jobs \union {None}]
    /\ \A s \in Sessions : Busy(s) => job[s] \in Jobs

TableTypes ==
    /\ models \in [Sessions -> [Handles -> [data : Data, proc : Nat] \union {None}]]
    /\ counter \in [Sessions -> Nat]

ProcTypes ==
    procs \in Seq([owner : Sessions, data : Data,
                   state : {"starting", "idle", "busy", "gone"}, out : {"ok", "error", None}])

DiskTypes ==
    /\ files \in [Names -> Data \union {None}] /\ last \in [Names -> Contents \union {None}]
    /\ clash \in [Names -> BOOLEAN]

ServerTypes ==
    /\ lock \in Sessions \union {None}
    /\ alive \in BOOLEAN /\ crashes \in Nat /\ killed \subseteq Sessions

\* The types of the clients, connections, handlers, workers and files.
TypeOK == /\ ClientTypes /\ UpTypes /\ DownTypes /\ HandlerTypes /\ TableTypes /\ ProcTypes
          /\ DiskTypes /\ ServerTypes

\* A client that never abandons a call gets the answer of the call it made,
\* although nothing on the wire says which call an answer is for.
AnswersMatch ==
    \A s \in Sessions :
        client[s] = "waiting" /\ ~desynced[s] =>
            \A i \in DOMAIN down[s] : down[s][i].id = calls[s]

\* A run that succeeds ran the model its handle was given out for, whatever
\* was unloaded, replaced on disk or loaded since.
RightModel ==
    \A s \in Sessions :
        /\ client[s] = "waiting" /\ ~desynced[s] /\ wants[s].op = "run"
        /\ down[s] # <<>> /\ Head(down[s]).ok
        => Head(down[s]).data = handles[s][wants[s].handle]

\* Only the death of the server leaves a worker process without an owner that
\* will close it: failed starts, failed runs and one-shot runs do not.
EveryWorkerOwned ==
    \A p \in DOMAIN procs :
        procs[p].state # "gone" /\ Orphan(p) => procs[p].owner \in killed

\* A connection is lost to a crash or to a message over the limit, no other
\* way, unless its client has given up a call.
ConnectionKept ==
    \A s \in Sessions :
        client[s] = "lost" =>
            s \in killed \/ desynced[s] \/ (wants[s] # None /\ wants[s].op = "huge")

\* Session s is done with its handle h: it unloads it, or comes to its end.
LetsGo(s, h) == pc[s] = "ending" \/ (pc[s] = "unload" /\ job[s].request.handle = h)

\* A step of s takes a model out of the table only where s is done with it,
\* and ends no worker but that of such a model or of the request it answers.
ModelsKept(s) ==
    /\ alive' => \A h \in Handles :
                    models[s][h] # None /\ models'[s][h] = None => LetsGo(s, h)
    /\ pc'[s] # pc[s] \/ models'[s] # models[s] =>
            \A p \in DOMAIN procs :
                procs[p].state # "gone" /\ procs'[p].state = "gone" =>
                    \/ job[s] # None /\ job[s].proc = p
                    \/ \E h \in Handles : /\ models[s][h] # None /\ models[s][h].proc = p
                                          /\ LetsGo(s, h)

\* The error of a request ends neither the session nor any model in it but the
\* one it is about: a failed tinygrad run closes its own worker and leaves the
\* handle, and every other handle and worker stays as it is.
SessionSurvivesErrors == [][ConnectionKept' /\ \A s \in Sessions : ModelsKept(s)]_vars

\* A file that no upload is writing holds the last upload, and all of it,
\* unless two uploads of it overlapped, the last one failed or the server died
\* in it.
WholeUnlessClash ==
    \A n \in Names :
        Writing(n) = {} /\ ~clash[n] /\ last[n] # None => files[n] = Whole(last[n])

\* A call ends: the handler answers it, or the connection does not outlive it.
CallsEnd ==
    \A s \in Sessions : client[s] = "waiting" ~> client[s] # "waiting"

\* No worker process outlives its session for good, whether the client closes
\* it, vanishes, or the server is killed.
WorkersEnd ==
    \A p \in 1..MaxWorkers :
        (p \in DOMAIN procs /\ ~Open(procs[p].owner))
            ~> (p \in DOMAIN procs /\ procs[p].state = "gone")
=============================================================================
