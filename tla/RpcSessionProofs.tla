------------------------- MODULE RpcSessionProofs -------------------------
(***************************************************************************)
(* Proofs about RpcSession: its types, that an answer is the one of the    *)
(* call that waits for it, that a handle answers for its model, that a     *)
(* file is whole unless uploads of it met, that no error of a request ends *)
(* a session, and that every worker process has an owner to close it.      *)
(***************************************************************************)
EXTENDS RpcSession, TLAPS

-----------------------------------------------------------------------------
(* The invariant, one session at a time *)

\* What the request under way is about, and what it may rely on.
JobOK(s) ==
    /\ pc[s] \in {"upload", "write"} => job[s].request.op = "upload"
    /\ pc[s] = "upload" => job[s].at = 0
    /\ pc[s] = "write" => job[s].at < Size[job[s].request.data]
    /\ pc[s] = "load_name" => job[s].request.op = "load_name"
    /\ pc[s] \in {"make", "starting"} => /\ job[s].request.op \in {"load", "load_name", "once"}
                                         /\ job[s].data \in Data
    /\ pc[s] = "run" => job[s].request.op = "run"
    /\ pc[s] = "unload" => job[s].request.op = "unload"
    /\ pc[s] \in {"starting", "send", "running"} => job[s].proc \in DOMAIN procs
    /\ pc[s] = "starting" => procs[job[s].proc].data = job[s].data
    /\ pc[s] \in {"send", "running"} => job[s].request.op \in {"run", "once"}
    /\ pc[s] \in {"bad", "xdna", "xdna_held"} => job[s].request.op \in {"bad", "xdna"}

\* Before the handshake is over, nothing else is on the connection.
HelloOK(s) ==
    /\ pc[s] = "hello" => /\ client[s] \in {"hello", "over"} /\ down[s] = <<>>
                          /\ \E m \in [op : {"hello"}, key : {"right", "wrong"}] : up[s] = <<m>>
    /\ pc[s] \notin {"hello", "ending"} => up[s] \in Seq([id : Nat, request : AllRequests])
    /\ client[s] = "new" => pc[s] = "none" /\ down[s] = <<>>
    /\ client[s] = "hello" /\ pc[s] # "hello" =>
            ~Busy(s) /\ up[s] = <<>> /\ Len(down[s]) <= 1
    /\ client[s] \in {"idle", "waiting"} => down[s] \in Seq(Replies)

\* A client that gave up no call has one under way: in the connection, in the
\* handler, or answered.
CallOK(s) ==
    ~desynced[s] =>
        /\ client[s] = "idle" => up[s] = <<>> /\ down[s] = <<>> /\ ~Busy(s)
        /\ client[s] = "waiting" =>
            /\ wants[s] \in AllRequests
            /\ \/ /\ up[s] = <<>> /\ down[s] = <<>>
                  /\ Busy(s) => job[s].id = calls[s] /\ job[s].request = wants[s]
               \/ /\ ~Busy(s) /\ down[s] = <<>>
                  /\ up[s] = <<[id |-> calls[s], request |-> wants[s]]>>
               \/ /\ ~Busy(s) /\ up[s] = <<>>
                  /\ Len(down[s]) = 1 /\ Head(down[s]).id = calls[s]

\* The model of a handle is the one the client was told of, in the table, in
\* the worker process and on the way.
ModelOK(s) ==
    /\ \A h \in Handles : models[s][h] # None =>
            /\ h <= counter[s]
            /\ models[s][h].proc # 0 =>
                 /\ models[s][h].proc \in DOMAIN procs
                 /\ procs[models[s][h].proc].data = models[s][h].data
    /\ ~desynced[s] =>
        /\ \A h \in Handles : handles[s][h] # None =>
                /\ h <= counter[s]
                /\ models[s][h] # None => models[s][h].data = handles[s][h]
        /\ client[s] = "waiting" =>
            /\ wants[s].op = "run" =>
                /\ handles[s][wants[s].handle] # None
                /\ pc[s] \in {"send", "running"} =>
                        procs[job[s].proc].data = handles[s][wants[s].handle]
                /\ down[s] # <<>> /\ Head(down[s]).ok =>
                        Head(down[s]).data = handles[s][wants[s].handle]
            /\ wants[s].op \in {"load", "load_name"} /\ down[s] # <<>>
               /\ Head(down[s]).ok /\ Head(down[s]).handle \in Handles =>
                LET h == Head(down[s]).handle
                IN  /\ h <= counter[s]
                    /\ models[s][h] # None => models[s][h].data = Head(down[s]).data

SessionOK(s) == JobOK(s) /\ HelloOK(s) /\ CallOK(s) /\ ModelOK(s)

\* A file that was not spoilt has been written by one upload, up to where
\* that upload is.
FileOK(n) ==
    /\ IF last[n] = None THEN Writing(n) = {} ELSE files[n] \in Data
    /\ last[n] # None /\ ~clash[n] =>
        \/ Writing(n) = {} /\ files[n] = Whole(last[n])
        \/ \E s \in Sessions :
            /\ Writing(n) = {s} /\ job[s].request.data = last[n]
            /\ files[n] = [i \in 1..job[s].at |-> last[n]]

IInv == /\ TypeOK
        /\ \A s \in Sessions : SessionOK(s)
        /\ \A n \in Names : FileOK(n)

-----------------------------------------------------------------------------
(* Facts about the data *)

\* The fields each kind of request has.
LEMMA RequestFields ==
    ASSUME NEW r \in AllRequests
    PROVE  /\ r.op \in Ops
           /\ r.op = "upload" => r.name \in Names /\ r.data \in Contents
           /\ r.op \in {"load", "once"} => r.data \in Contents
           /\ r.op = "load_name" => r.name \in Names
           /\ r.op \in {"run", "unload"} => r.handle \in Handles
  BY DEF AllRequests, Ops

\* A whole model is data.
LEMMA WholeIsData ==
    ASSUME NEW c \in Contents
    PROVE  Whole(c) \in Data /\ Size[c] \in Nat /\ Size[c] > 0
<1>1. Size[c] \in Nat /\ Size[c] > 0
  BY SizeType
<1>2. Whole(c) \in Seq(Contents \union {None})
  BY <1>1 DEF Whole
<1> QED
  BY <1>1, <1>2 DEF Data

-----------------------------------------------------------------------------
(* What a step leaves alone *)

\* The session of another client is untouched.
SameSession(q) ==
    /\ client'[q] = client[q] /\ calls'[q] = calls[q] /\ wants'[q] = wants[q]
    /\ handles'[q] = handles[q] /\ desynced'[q] = desynced[q]
    /\ up'[q] = up[q] /\ down'[q] = down[q] /\ pc'[q] = pc[q] /\ job'[q] = job[q]
    /\ models'[q] = models[q] /\ counter'[q] = counter[q]

\* No process forgets its model.
ProcsKept == \A p \in DOMAIN procs : p \in DOMAIN procs' /\ procs'[p].data = procs[p].data

\* The invariant of a session survives a step of others.
LEMMA Frame ==
    ASSUME NEW q \in Sessions, TypeOK, SessionOK(q), SameSession(q), ProcsKept
    PROVE  SessionOK(q)'
<1>1. JobOK(q)'
  <2>1. pc[q] \in {"starting", "send", "running"} =>
            job[q].proc \in DOMAIN procs' /\ procs'[job[q].proc].data = procs[job[q].proc].data
    BY DEF SessionOK, JobOK, ProcsKept
  <2> QED
    BY <2>1 DEF SessionOK, JobOK, SameSession
<1>2. HelloOK(q)' /\ CallOK(q)'
  BY DEF SessionOK, HelloOK, CallOK, SameSession, Busy
<1>3. ModelOK(q)'
  <2>1. \A h \in Handles : models[q][h] # None /\ models[q][h].proc # 0 =>
            procs'[models[q][h].proc].data = models[q][h].data
            /\ models[q][h].proc \in DOMAIN procs'
    BY DEF SessionOK, ModelOK, ProcsKept
  <2>2. pc[q] \in {"send", "running"} => procs'[job[q].proc].data = procs[job[q].proc].data
    BY DEF SessionOK, JobOK, ProcsKept
  <2> QED
    BY <2>1, <2>2 DEF SessionOK, ModelOK, SameSession
<1> QED
  BY <1>1, <1>2, <1>3 DEF SessionOK

\* A file stays as it was while no upload of it takes a step.
LEMMA FileFrame ==
    ASSUME NEW n \in Names, FileOK(n), UNCHANGED disk, Writing(n)' = Writing(n),
           \A s \in Writing(n) : job'[s] = job[s]
    PROVE  FileOK(n)'
  BY DEF FileOK, disk

\* A step of one session that is not at its uploads.
LEMMA OneSession ==
    ASSUME NEW s \in Sessions, IInv, TypeOK', SessionOK(s)', ProcsKept, UNCHANGED disk,
           \A q \in Sessions \ {s} : SameSession(q),
           pc[s] # "write", pc'[s] # "write"
    PROVE  IInv'
<1>1. \A q \in Sessions : SessionOK(q)'
  BY Frame DEF IInv
<1>2. ASSUME NEW n \in Names
      PROVE  FileOK(n)'
  <2>1. Writing(n)' = Writing(n) /\ \A q \in Writing(n) : job'[q] = job[q]
    BY DEF Writing, SameSession
  <2> QED
    BY <2>1, FileFrame DEF IInv
<1> QED
  BY <1>1, <1>2 DEF IInv

-----------------------------------------------------------------------------
(* The end of a request: an answer *)

\* The handler is free again and the reply is on its way.
LEMMA AnswerTypes ==
    ASSUME NEW s \in Sessions, TypeOK, Busy(s), NEW ok \in BOOLEAN,
           NEW handle \in Nat \union {None}, NEW data \in Data \union {None},
           Answer(s, ok, handle, data)
    PROVE  /\ DownTypes' /\ HandlerTypes'
           /\ pc'[s] = "recv"
           /\ \A q \in Sessions \ {s} : pc'[q] = pc[q] /\ job'[q] = job[q] /\ down'[q] = down[q]
<1> DEFINE reply == [id |-> job[s].id, ok |-> ok, handle |-> handle, data |-> data]
<1>1. job[s] \in Jobs
  BY DEF TypeOK, HandlerTypes
<1>2. reply \in Replies
  BY <1>1 DEF Jobs, Replies
<1>3. DownTypes' /\ \A q \in Sessions \ {s} : down'[q] = down[q]
  <2>1. CASE Open(s)
    <3>1. down' = [down EXCEPT ![s] = Append(down[s], reply)]
      BY <2>1 DEF Answer, Post
    <3>2. Append(down[s], reply) \in Seq(Replies \union [ok : BOOLEAN])
      BY <1>2 DEF TypeOK, DownTypes
    <3> QED
      BY <3>1, <3>2 DEF TypeOK, DownTypes
  <2>2. CASE ~Open(s)
    BY <2>2 DEF Answer, Post, TypeOK, DownTypes
  <2> QED
    BY <2>1, <2>2
<1>4. HandlerTypes'
  BY DEF Answer, Step, TypeOK, HandlerTypes, Busy, Resting
<1> QED
  BY <1>3, <1>4 DEF Answer, Step, TypeOK, HandlerTypes

\* What an answer does for the session.
LEMMA AnswerCalls ==
    ASSUME NEW s \in Sessions, IInv, Busy(s), NEW ok \in BOOLEAN,
           NEW handle \in Nat \union {None}, NEW data \in Data \union {None},
           Answer(s, ok, handle, data), UNCHANGED <<clients, up>>
    PROVE  /\ JobOK(s)' /\ HelloOK(s)' /\ CallOK(s)'
           /\ ~desynced[s] /\ client[s] = "waiting" =>
                /\ job[s].request = wants[s]
                /\ down'[s] = <<[id |-> job[s].id, ok |-> ok, handle |-> handle, data |-> data]>>
<1> DEFINE reply == [id |-> job[s].id, ok |-> ok, handle |-> handle, data |-> data]
<1>0. /\ job[s] \in Jobs /\ TypeOK
      /\ HelloOK(s) /\ CallOK(s)
      /\ pc[s] \notin Resting
  BY DEF IInv, SessionOK, TypeOK, HandlerTypes, Busy
<1>1. reply \in Replies
  BY <1>0 DEF Jobs, Replies
<1>2. pc'[s] = "recv" /\ DownTypes'
  BY <1>0, AnswerTypes
<1>3. /\ client'[s] = client[s] /\ calls'[s] = calls[s] /\ wants'[s] = wants[s]
      /\ desynced'[s] = desynced[s] /\ up'[s] = up[s]
  BY DEF clients
<1>4. down'[s] = IF Open(s) THEN Append(down[s], reply) ELSE down[s]
  BY <1>0 DEF Answer, Post, TypeOK, DownTypes
<1>5. JobOK(s)'
  BY <1>2 DEF JobOK
<1>6. HelloOK(s)'
  <2>1. up'[s] \in Seq([id : Nat, request : AllRequests])
    BY <1>0, <1>3 DEF HelloOK, Resting
  <2>2. client[s] \notin {"new", "hello"}
    BY <1>0 DEF HelloOK, Resting, Busy
  <2>3. client[s] \in {"idle", "waiting"} => down'[s] \in Seq(Replies)
    BY <1>0, <1>1, <1>4 DEF HelloOK
  <2> QED
    BY <1>2, <1>3, <2>1, <2>2, <2>3 DEF HelloOK
<1>7. ~desynced[s] /\ client[s] = "waiting" =>
        /\ job[s].request = wants[s] /\ job[s].id = calls[s] /\ wants[s] \in AllRequests
        /\ up[s] = <<>> /\ down[s] = <<>> /\ down'[s] = <<reply>>
  <2>1. Append(<<>>, reply) = <<reply>>
    OBVIOUS
  <2>2. ~desynced[s] /\ client[s] = "waiting" =>
            /\ job[s].request = wants[s] /\ job[s].id = calls[s] /\ wants[s] \in AllRequests
            /\ up[s] = <<>> /\ down[s] = <<>> /\ Open(s)
    BY <1>0 DEF CallOK, Busy, Open
  <2> QED
    BY <1>4, <2>1, <2>2
<1>8. CallOK(s)'
  <2>1. ~desynced[s] => client[s] # "idle"
    BY <1>0 DEF CallOK, Busy
  <2>2. Len(<<reply>>) = 1 /\ Head(<<reply>>) = reply /\ reply.id = job[s].id
    OBVIOUS
  <2> QED
    BY <1>2, <1>3, <1>7, <2>1, <2>2 DEF CallOK, Busy, Resting
<1> QED
  BY <1>5, <1>6, <1>7, <1>8

\* Models leave the table, none comes in.
Shrinks(s) == \A h \in Handles : models'[s][h] \in {models[s][h], None}

\* The session after an answer that gives out no handle.
LEMMA AnswerKeeps ==
    ASSUME NEW s \in Sessions, IInv, Busy(s), NEW ok \in BOOLEAN,
           NEW data \in Data \union {None},
           Answer(s, ok, None, data), UNCHANGED <<clients, up, counter>>,
           ProcsKept, Shrinks(s),
           ok => job[s].request.op \notin {"load", "load_name"},
           ok /\ job[s].request.op = "run" /\ ~desynced[s] /\ client[s] = "waiting" =>
                data = handles[s][job[s].request.handle]
    PROVE  SessionOK(s)'
<1> DEFINE reply == [id |-> job[s].id, ok |-> ok, handle |-> None, data |-> data]
<1>1. /\ JobOK(s)' /\ HelloOK(s)' /\ CallOK(s)'
      /\ ~desynced[s] /\ client[s] = "waiting" =>
            job[s].request = wants[s] /\ down'[s] = <<reply>>
  BY AnswerCalls
<1>2. ModelOK(s)
  BY DEF IInv, SessionOK
<1>3. /\ client'[s] = client[s] /\ wants'[s] = wants[s] /\ handles'[s] = handles[s]
      /\ desynced'[s] = desynced[s] /\ counter'[s] = counter[s]
  BY DEF clients
<1>4. pc'[s] = "recv"
  BY AnswerTypes DEF IInv
<1>5. Head(<<reply>>) = reply /\ reply.ok = ok /\ reply.data = data
  OBVIOUS
<1>6. ModelOK(s)'
  <2>1. \A h \in Handles : models'[s][h] # None =>
            /\ h <= counter'[s]
            /\ models'[s][h].proc # 0 =>
                 /\ models'[s][h].proc \in DOMAIN procs'
                 /\ procs'[models'[s][h].proc].data = models'[s][h].data
    BY <1>2, <1>3 DEF ModelOK, ProcsKept, Shrinks
  <2>2. ~desynced[s] => \A h \in Handles : handles'[s][h] # None =>
            /\ h <= counter'[s]
            /\ models'[s][h] # None => models'[s][h].data = handles'[s][h]
    BY <1>2, <1>3 DEF ModelOK, Shrinks
  <2>3. ~desynced[s] /\ client[s] = "waiting" /\ wants[s].op = "run" =>
            /\ handles'[s][wants'[s].handle] # None
            /\ Head(down'[s]).ok => Head(down'[s]).data = handles'[s][wants'[s].handle]
    BY <1>1, <1>2, <1>3, <1>5 DEF ModelOK
  <2>4. ~desynced[s] /\ client[s] = "waiting" /\ wants[s].op \in {"load", "load_name"} =>
            ~Head(down'[s]).ok
    BY <1>1, <1>5
  <2> QED
    BY <1>3, <1>4, <2>1, <2>2, <2>3, <2>4 DEF ModelOK
<1> QED
  BY <1>1, <1>6 DEF SessionOK

\* A whole step that ends in such an answer.
LEMMA AnswerStep ==
    ASSUME NEW s \in Sessions, IInv, Busy(s), pc[s] # "write", NEW ok \in BOOLEAN,
           NEW data \in Data \union {None},
           Answer(s, ok, None, data), UNCHANGED <<clients, up, counter, disk, server>>,
           TableTypes', ProcTypes', lock' \in Sessions \union {None},
           ProcsKept, Shrinks(s), \A q \in Sessions \ {s} : models'[q] = models[q],
           ok => job[s].request.op \notin {"load", "load_name"},
           ok /\ job[s].request.op = "run" /\ ~desynced[s] /\ client[s] = "waiting" =>
                data = handles[s][job[s].request.handle]
    PROVE  IInv'
<1>0. TypeOK
  BY DEF IInv
<1>1. /\ DownTypes' /\ HandlerTypes' /\ pc'[s] = "recv"
      /\ \A q \in Sessions \ {s} : pc'[q] = pc[q] /\ job'[q] = job[q] /\ down'[q] = down[q]
  BY <1>0, AnswerTypes
<1>2. TypeOK'
  <2>1. ClientTypes' /\ UpTypes' /\ DiskTypes' /\ ServerTypes'
    BY <1>0 DEF TypeOK, ClientTypes, UpTypes, DiskTypes, ServerTypes, clients, disk, server
  <2> QED
    BY <1>1, <2>1 DEF TypeOK
<1>3. SessionOK(s)'
  BY AnswerKeeps
<1>4. \A q \in Sessions \ {s} : SameSession(q)
  BY <1>1 DEF SameSession, clients
<1> QED
  BY <1>1, <1>2, <1>3, <1>4, OneSession

\* A step of a request that goes on.
LEMMA BusyStep ==
    ASSUME NEW s \in Sessions, IInv, Busy(s), pc[s] # "write",
           NEW w \in {"make", "starting", "send", "running", "xdna_held"},
           NEW j \in Jobs, j.id = job[s].id, j.request = job[s].request,
           Step(s, w), job' = [job EXCEPT ![s] = j],
           UNCHANGED <<clients, up, down, models, counter, disk, server>>,
           ProcTypes', ProcsKept, lock' \in Sessions \union {None}, JobOK(s)',
           w \in {"send", "running"} /\ j.request.op = "run" /\ ~desynced[s]
             /\ client[s] = "waiting" => procs'[j.proc].data = handles[s][j.request.handle]
    PROVE  IInv'
<1>0. TypeOK /\ SessionOK(s)
  BY DEF IInv
<1>1. /\ pc'[s] = w /\ job'[s] = j
      /\ \A q \in Sessions \ {s} : pc'[q] = pc[q] /\ job'[q] = job[q]
  BY <1>0 DEF Step, TypeOK, HandlerTypes
<1>2. TypeOK'
  <2>1. /\ ClientTypes' /\ UpTypes' /\ DownTypes' /\ TableTypes' /\ DiskTypes' /\ ServerTypes'
    BY <1>0 DEF TypeOK, ClientTypes, UpTypes, DownTypes, TableTypes, DiskTypes, ServerTypes,
                clients, disk, server
  <2>2. HandlerTypes'
    BY <1>0 DEF Step, TypeOK, HandlerTypes, Busy, Resting
  <2> QED
    BY <2>1, <2>2 DEF TypeOK
<1>3. /\ client'[s] = client[s] /\ calls'[s] = calls[s] /\ wants'[s] = wants[s]
      /\ handles'[s] = handles[s] /\ desynced'[s] = desynced[s] /\ up'[s] = up[s]
      /\ down'[s] = down[s] /\ models'[s] = models[s] /\ counter'[s] = counter[s]
  BY DEF clients
<1>3a. pc[s] \notin Resting /\ pc'[s] \notin Resting
  BY <1>1 DEF Busy, Resting
<1>4. HelloOK(s)'
  <2>1. /\ up[s] \in Seq([id : Nat, request : AllRequests])
        /\ client[s] \notin {"new", "hello"}
        /\ client[s] \in {"idle", "waiting"} => down[s] \in Seq(Replies)
    BY <1>0, <1>3a DEF SessionOK, HelloOK, Busy, Resting
  <2> QED
    BY <1>3, <1>3a, <2>1 DEF HelloOK, Resting
<1>5. CallOK(s)' /\ (~desynced[s] /\ client[s] = "waiting" => j.request = wants[s])
  <2>1. ~desynced[s] =>
            /\ client[s] # "idle"
            /\ client[s] = "waiting" =>
                /\ wants[s] \in AllRequests /\ up[s] = <<>> /\ down[s] = <<>>
                /\ job[s].id = calls[s] /\ job[s].request = wants[s]
    BY <1>0 DEF SessionOK, CallOK
  <2> QED
    BY <1>1, <1>3, <2>1 DEF CallOK
<1>6. ModelOK(s)'
  <2>1. \A h \in Handles : models[s][h] # None =>
            /\ h <= counter[s]
            /\ models[s][h].proc # 0 =>
                 /\ models[s][h].proc \in DOMAIN procs'
                 /\ procs'[models[s][h].proc].data = models[s][h].data
    BY <1>0 DEF SessionOK, ModelOK, ProcsKept
  <2>2. ~desynced[s] /\ client[s] = "waiting" /\ wants[s].op = "run"
        /\ w \in {"send", "running"} => procs'[j.proc].data = handles[s][wants[s].handle]
    BY <1>5
  <2> QED
    BY <1>0, <1>1, <1>3, <2>1, <2>2 DEF SessionOK, ModelOK
<1>7. \A q \in Sessions \ {s} : SameSession(q)
  BY <1>1 DEF SameSession, clients
<1> QED
  BY <1>1, <1>2, <1>4, <1>5, <1>6, <1>7, OneSession DEF SessionOK

\* A loaded model enters the table under a fresh handle.
LEMMA RegisterStep ==
    ASSUME NEW s \in Sessions, IInv, pc[s] \in {"make", "starting"},
           job[s].request.op # "once",
           NEW proc \in Nat, Register(s, proc),
           UNCHANGED <<clients, up, disk, lock, server>>, ProcTypes', ProcsKept,
           proc # 0 => proc \in DOMAIN procs' /\ procs'[proc].data = job[s].data
    PROVE  IInv'
<1> DEFINE h0 == counter[s] + 1
           runner == [data |-> job[s].data, proc |-> proc]
           reply == [id |-> job[s].id, ok |-> TRUE, handle |-> h0, data |-> job[s].data]
<1>0. /\ TypeOK /\ SessionOK(s) /\ Busy(s) /\ job[s] \in Jobs /\ job[s].data \in Data
      /\ counter[s] \in Nat /\ job[s].request.op \in {"load", "load_name"}
  BY DEF IInv, SessionOK, JobOK, TypeOK, HandlerTypes, TableTypes, Busy, Resting
<1>1. /\ Answer(s, TRUE, h0, job[s].data)
      /\ h0 \in Nat \union {None} /\ job[s].data \in Data \union {None}
  <2>1. Answer(s, TRUE, h0, job[s].data)
    BY DEF Register
  <2>2. h0 \in Nat
    BY <1>0
  <2>3. h0 \in Nat \union {None} /\ job[s].data \in Data \union {None}
    <3> HIDE DEF h0
    <3> QED
      BY <1>0, <2>2
  <2> HIDE DEF h0
  <2> QED
    BY <2>1, <2>3
<1>2. /\ DownTypes' /\ HandlerTypes' /\ pc'[s] = "recv"
      /\ \A q \in Sessions \ {s} : pc'[q] = pc[q] /\ job'[q] = job[q] /\ down'[q] = down[q]
  <2> HIDE DEF h0
  <2> QED
    BY <1>0, <1>1, AnswerTypes
<1>3. /\ JobOK(s)' /\ HelloOK(s)' /\ CallOK(s)'
      /\ ~desynced[s] /\ client[s] = "waiting" =>
            job[s].request = wants[s] /\ down'[s] = <<reply>>
  <2> HIDE DEF h0
  <2>1. UNCHANGED <<clients, up>>
    OBVIOUS
  <2> QED
    BY <1>0, <1>1, <2>1, AnswerCalls
<1>4. /\ counter' = [counter EXCEPT ![s] = h0]
      /\ models' = [models EXCEPT ![s][h0] = runner]
  BY DEF Register
<1>5. /\ counter'[s] = h0
      /\ \A h \in Handles : models'[s][h] = IF h = h0 THEN runner ELSE models[s][h]
      /\ \A q \in Sessions \ {s} : models'[q] = models[q] /\ counter'[q] = counter[q]
  BY <1>0, <1>4 DEF TypeOK, TableTypes
<1>6. TypeOK'
  <2>1. ClientTypes' /\ UpTypes' /\ DiskTypes' /\ ServerTypes'
    BY <1>0 DEF TypeOK, ClientTypes, UpTypes, DiskTypes, ServerTypes, clients, disk, server
  <2>2. runner \in [data : Data, proc : Nat]
    BY <1>0
  <2>3. TableTypes'
    <3> HIDE DEF runner, h0
    <3>1. [models[s] EXCEPT ![h0] = runner] \in [Handles -> [data : Data, proc : Nat] \union {None}]
      BY <1>0, <2>2 DEF TypeOK, TableTypes
    <3>2. models' \in [Sessions -> [Handles -> [data : Data, proc : Nat] \union {None}]]
      BY <1>0, <1>4, <3>1 DEF TypeOK, TableTypes
    <3>3. h0 \in Nat
      BY <1>0 DEF h0
    <3> QED
      BY <1>0, <1>4, <3>2, <3>3 DEF TypeOK, TableTypes
  <2> QED
    BY <1>2, <2>1, <2>3 DEF TypeOK
<1>7. ModelOK(s)'
  <2>0. /\ client'[s] = client[s] /\ wants'[s] = wants[s] /\ handles'[s] = handles[s]
        /\ desynced'[s] = desynced[s]
    BY DEF clients
  <2>1. \A h \in Handles : models'[s][h] # None =>
            /\ h <= counter'[s]
            /\ models'[s][h].proc # 0 =>
                 /\ models'[s][h].proc \in DOMAIN procs'
                 /\ procs'[models'[s][h].proc].data = models'[s][h].data
    <3> SUFFICES ASSUME NEW h \in Handles, models'[s][h] # None
                 PROVE  /\ h <= counter'[s]
                        /\ models'[s][h].proc # 0 =>
                             /\ models'[s][h].proc \in DOMAIN procs'
                             /\ procs'[models'[s][h].proc].data = models'[s][h].data
      OBVIOUS
    <3>1. CASE h = h0
      BY <3>1, <1>0, <1>5
    <3>2. CASE h # h0
      <4>1. /\ models[s][h] # None /\ h <= counter[s]
            /\ models[s][h].proc # 0 =>
                  /\ models[s][h].proc \in DOMAIN procs
                  /\ procs[models[s][h].proc].data = models[s][h].data
        BY <3>2, <1>0, <1>5 DEF SessionOK, ModelOK
      <4>2. h <= h0
        BY <4>1, <1>0 DEF Handles
      <4> QED
        BY <3>2, <4>1, <4>2, <1>5 DEF ProcsKept
    <3> QED
      BY <3>1, <3>2
  <2>2. ~desynced[s] => \A h \in Handles : handles'[s][h] # None =>
            /\ h <= counter'[s]
            /\ models'[s][h] # None => models'[s][h].data = handles'[s][h]
    <3> SUFFICES ASSUME ~desynced[s], NEW h \in Handles, handles[s][h] # None
                 PROVE  /\ h <= counter'[s]
                        /\ models'[s][h] # None => models'[s][h].data = handles[s][h]
      BY <2>0
    <3>1. h <= counter[s] /\ (models[s][h] # None => models[s][h].data = handles[s][h])
      BY <1>0 DEF SessionOK, ModelOK
    <3>2. h <= h0 /\ h # h0
      BY <3>1, <1>0 DEF Handles
    <3> QED
      BY <3>1, <3>2, <1>5
  <2>3. ~desynced[s] /\ client[s] = "waiting" =>
            /\ wants[s].op \notin {"run"}
            /\ Head(down'[s]).handle = h0 /\ Head(down'[s]).data = job[s].data
    BY <1>0, <1>3
  <2>4. h0 <= counter'[s] /\ (h0 \in Handles => models'[s][h0].data = job[s].data)
    BY <1>0, <1>5
  <2> QED
    BY <1>2, <2>0, <2>1, <2>2, <2>3, <2>4 DEF ModelOK
<1>8. \A q \in Sessions \ {s} : SameSession(q)
  BY <1>2, <1>5 DEF SameSession, clients
<1> QED
  BY <1>2, <1>3, <1>6, <1>7, <1>8, OneSession DEF SessionOK

-----------------------------------------------------------------------------
(* The actions of the handlers that end a request *)

Runners == [owner : Sessions, data : Data, state : {"starting", "idle", "busy", "gone"},
            out : {"ok", "error", None}]

\* A process changes its state or its output, never its model.
LEMMA ProcsWritten ==
    ASSUME ProcTypes, NEW p \in DOMAIN procs,
           NEW state \in {"starting", "idle", "busy", "gone"}, NEW out \in {"ok", "error", None},
           \/ procs' = [procs EXCEPT ![p].state = state, ![p].out = out]
           \/ procs' = [procs EXCEPT ![p].out = out]
           \/ procs' = [procs EXCEPT ![p].state = state]
    PROVE  ProcTypes' /\ ProcsKept
<1>0. procs \in Seq(Runners)
  BY DEF ProcTypes, Runners
<1>1. procs \in Seq(Runners) /\ procs[p] \in Runners
  BY <1>0
<1>2. PICK r \in Runners : r.data = procs[p].data /\ procs' = [procs EXCEPT ![p] = r]
  <2> DEFINE a == [procs[p] EXCEPT !.state = state, !.out = out]
             b == [procs[p] EXCEPT !.out = out]
             c == [procs[p] EXCEPT !.state = state]
  <2>1. /\ a \in Runners /\ b \in Runners /\ c \in Runners
        /\ a.data = procs[p].data /\ b.data = procs[p].data /\ c.data = procs[p].data
    BY <1>1 DEF Runners
  <2>2. \/ procs' = [procs EXCEPT ![p] = a]
        \/ procs' = [procs EXCEPT ![p] = b]
        \/ procs' = [procs EXCEPT ![p] = c]
    BY <1>1
  <2> QED
    BY <2>1, <2>2
<1>3. procs' \in Seq(Runners)
  BY <1>1, <1>2
<1>4. ProcsKept
  BY <1>1, <1>2 DEF ProcsKept
<1> QED
  BY <1>3, <1>4 DEF ProcTypes, Runners

\* An error reply, whatever became of the process.
LEMMA FailStep ==
    ASSUME NEW s \in Sessions, IInv, Busy(s), pc[s] # "write", Fail(s),
           UNCHANGED <<clients, up, models, counter, disk, server>>,
           ProcTypes', ProcsKept, lock' \in Sessions \union {None}
    PROVE  IInv'
<1>1. TableTypes' /\ Shrinks(s) /\ \A q \in Sessions \ {s} : models'[q] = models[q]
  BY DEF IInv, TypeOK, TableTypes, Shrinks
<1>2. Answer(s, FALSE, None, None) /\ FALSE \in BOOLEAN /\ None \in Data \union {None}
  BY DEF Fail
<1>3. UNCHANGED <<clients, up, counter, disk, server>>
  OBVIOUS
<1> QED
  BY <1>1, <1>2, <1>3, AnswerStep

\* A success that gives out nothing, or what a model computes.
LEMMA DoneStep ==
    ASSUME NEW s \in Sessions, IInv, Busy(s), pc[s] # "write",
           NEW data \in Data \union {None}, Answer(s, TRUE, None, data),
           UNCHANGED <<clients, up, models, counter, disk, server>>,
           ProcTypes', ProcsKept, lock' \in Sessions \union {None},
           job[s].request.op \notin {"load", "load_name"},
           job[s].request.op = "run" /\ ~desynced[s] /\ client[s] = "waiting" =>
                data = handles[s][job[s].request.handle]
    PROVE  IInv'
<1>1. TableTypes' /\ Shrinks(s) /\ \A q \in Sessions \ {s} : models'[q] = models[q]
  BY DEF IInv, TypeOK, TableTypes, Shrinks
<1>2. TRUE \in BOOLEAN
  OBVIOUS
<1>3. UNCHANGED <<clients, up, counter, disk, server>>
  OBVIOUS
<1> QED
  BY <1>1, <1>2, <1>3, AnswerStep

\* A step without a change of processes or lock.
LEMMA Quiet ==
    ASSUME IInv
    PROVE  /\ UNCHANGED procs => ProcTypes' /\ ProcsKept
           /\ UNCHANGED lock => lock' \in Sessions \union {None}
  BY DEF IInv, TypeOK, ProcTypes, ServerTypes, ProcsKept

\* _dispatch refuses a request.
LEMMA BadStep == ASSUME NEW s \in Sessions, IInv, Bad(s) PROVE IInv'
<1>1. Busy(s) /\ pc[s] # "write" /\ Fail(s)
  BY DEF Bad, Busy, Resting
<1>2. UNCHANGED <<clients, up, models, counter, procs, disk, lock, server>>
  BY DEF Bad
<1> QED
  BY <1>1, <1>2, Quiet, FailStep

\* An XDNA operation ends and gives the lock back.
LEMMA XdnaDoneStep == ASSUME NEW s \in Sessions, IInv, XdnaDone(s) PROVE IInv'
<1>1. /\ Busy(s) /\ pc[s] # "write" /\ lock' \in Sessions \union {None}
      /\ Fail(s) \/ Answer(s, TRUE, None, None)
  BY DEF XdnaDone, Busy, Resting
<1>2. UNCHANGED <<clients, up, models, counter, procs, disk, server>>
  BY DEF XdnaDone
<1>3. job[s].request.op \in {"bad", "xdna"}
  BY DEF XdnaDone, IInv, SessionOK, JobOK
<1>4. None \in Data \union {None}
  OBVIOUS
<1> QED
  BY <1>1, <1>2, <1>3, <1>4, Quiet, FailStep, DoneStep

\* unload closes the runner, if there is one.
LEMMA UnloadStep == ASSUME NEW s \in Sessions, IInv, Unload(s) PROVE IInv'
<1> DEFINE h == job[s].request.handle
<1>1. Busy(s) /\ pc[s] # "write" /\ Answer(s, TRUE, None, None) /\ job[s].request.op = "unload"
  BY DEF Unload, Busy, Resting, IInv, SessionOK, JobOK
<1>2. UNCHANGED <<clients, up, counter, disk, lock, server>>
  BY DEF Unload
<1>3. h \in Handles
  BY <1>1, RequestFields DEF IInv, TypeOK, HandlerTypes, Jobs
<1>4. models' = [models EXCEPT ![s][h] = None]
  BY DEF Unload, CloseRunner
<1>5. TableTypes' /\ Shrinks(s) /\ \A q \in Sessions \ {s} : models'[q] = models[q]
  <2> HIDE DEF h
  <2> QED
    BY <1>2, <1>3, <1>4 DEF IInv, TypeOK, TableTypes, Shrinks
<1>6. ProcTypes' /\ ProcsKept
  <2>1. CASE procs' = procs
    BY <2>1, Quiet
  <2>2. CASE models[s][h] # None /\ models[s][h].proc # 0 /\ procs' = Closed(models[s][h].proc)
    <3>1. models[s][h].proc \in DOMAIN procs
      BY <1>3, <2>2 DEF IInv, SessionOK, ModelOK
    <3> QED
      BY <2>2, <3>1, ProcsWritten DEF Closed, IInv, TypeOK
  <2> QED
    BY <2>1, <2>2 DEF Unload, CloseRunner
<1>7. TRUE \in BOOLEAN /\ None \in Data \union {None}
  OBVIOUS
<1> QED
  BY <1>1, <1>2, <1>5, <1>6, <1>7, Quiet, AnswerStep

-----------------------------------------------------------------------------
(* The actions that load and run models *)

\* load_model by name finds the file, or fails.
LEMMA ReadFileStep == ASSUME NEW s \in Sessions, IInv, ReadFile(s) PROVE IInv'
<1> DEFINE n == job[s].request.name
           j == [job[s] EXCEPT !.data = files[n]]
<1>1. Busy(s) /\ pc[s] # "write" /\ job[s].request.op = "load_name" /\ job[s] \in Jobs
  BY DEF ReadFile, Busy, Resting, IInv, SessionOK, JobOK, TypeOK, HandlerTypes
<1>2. UNCHANGED <<clients, up, models, counter, procs, disk, lock, server>>
  BY DEF ReadFile
<1>3. CASE files[n] = None
  BY <1>1, <1>2, <1>3, Quiet, FailStep DEF ReadFile
<1>4. CASE files[n] # None
  <2>1. n \in Names
    BY <1>1, RequestFields DEF Jobs
  <2>2. files[n] \in Data
    BY <2>1, <1>4 DEF IInv, TypeOK, DiskTypes
  <2>3. j \in Jobs /\ j.id = job[s].id /\ j.request = job[s].request /\ j.data \in Data
    <3> HIDE DEF n
    <3> QED
      BY <1>1, <2>2 DEF Jobs
  <2>4. job' = [job EXCEPT ![s] = j] /\ Step(s, "make") /\ UNCHANGED down
    BY <1>4 DEF ReadFile
  <2>5. job'[s] = j /\ pc'[s] = "make"
    BY <2>4 DEF Step, IInv, TypeOK, HandlerTypes
  <2> HIDE DEF j
  <2>6. JobOK(s)'
    BY <1>1, <2>3, <2>5 DEF JobOK
  <2>7. "make" \in {"make", "starting", "send", "running", "xdna_held"}
    OBVIOUS
  <2>8. UNCHANGED <<clients, up, down, models, counter, disk, server>>
    BY <1>2, <2>4
  <2>9. ProcTypes' /\ ProcsKept /\ lock' \in Sessions \union {None}
    BY <1>2, Quiet
  <2> QED
    BY <1>1, <2>3, <2>4, <2>6, <2>7, <2>8, <2>9, BusyStep
<1> QED
  BY <1>3, <1>4

\* An onnxruntime session is made, and run at once by run_once.
LEMMA MakeInProcessStep == ASSUME NEW s \in Sessions, IInv, MakeInProcess(s) PROVE IInv'
<1>1. /\ Busy(s) /\ pc[s] = "make" /\ job[s].data \in Data
      /\ job[s].request.op \in {"load", "load_name", "once"}
  BY DEF MakeInProcess, Busy, Resting, IInv, SessionOK, JobOK
<1>2. UNCHANGED <<clients, up, procs, disk, lock, server>>
  BY DEF MakeInProcess
<1>3. CASE Fail(s) /\ UNCHANGED <<models, counter>>
  BY <1>1, <1>2, <1>3, Quiet, FailStep
<1>4. CASE /\ job[s].request.op = "once" /\ Answer(s, TRUE, None, job[s].data)
           /\ UNCHANGED <<models, counter>>
  <2>1. job[s].data \in Data \union {None}
    BY <1>1
  <2> QED
    BY <1>1, <1>2, <1>4, <2>1, Quiet, DoneStep
<1>5. CASE job[s].request.op # "once" /\ Register(s, 0)
  <2>1. 0 \in Nat
    OBVIOUS
  <2> QED
    BY <1>1, <1>2, <1>5, <2>1, Quiet, RegisterStep
<1> QED
  BY <1>3, <1>4, <1>5 DEF MakeInProcess

\* A tinygrad worker is started, or there is no tinygrad.
LEMMA MakeProxyStep == ASSUME NEW s \in Sessions, IInv, MakeProxy(s) PROVE IInv'
<1> DEFINE p == Len(procs) + 1
           j == [job[s] EXCEPT !.proc = p]
           worker == [owner |-> s, data |-> job[s].data, state |-> "starting", out |-> None]
<1>1. /\ Busy(s) /\ pc[s] = "make" /\ job[s].data \in Data /\ job[s] \in Jobs
      /\ job[s].request.op \in {"load", "load_name", "once"}
      /\ procs \in Seq(Runners)
  BY DEF MakeProxy, Busy, Resting, IInv, SessionOK, JobOK, TypeOK, HandlerTypes, ProcTypes,
         Runners
<1>2. UNCHANGED <<clients, up, models, counter, disk, lock, server>>
  BY DEF MakeProxy
<1>3. CASE Fail(s) /\ UNCHANGED procs
  BY <1>1, <1>2, <1>3, Quiet, FailStep
<1>4. CASE /\ procs' = Append(procs, worker) /\ job' = [job EXCEPT ![s] = j]
           /\ Step(s, "starting") /\ UNCHANGED down
  <2>1. worker \in Runners
    BY <1>1 DEF Runners
  <2>2. procs' \in Seq(Runners) /\ p \in DOMAIN procs' /\ p \in Nat
    <3> HIDE DEF worker
    <3> QED
      BY <1>1, <1>4, <2>1
  <2>2a. procs'[p].data = job[s].data
    <3>1. procs'[p] = worker
      <4> HIDE DEF worker
      <4> QED
        BY <1>1, <1>4, <2>1
    <3> QED
      BY <3>1
  <2>3. ProcsKept
    <3> HIDE DEF worker
    <3> QED
      BY <1>1, <1>4, <2>1 DEF ProcsKept
  <2>4. ProcTypes'
    BY <2>2 DEF ProcTypes, Runners
  <2>5. /\ j \in Jobs /\ j.id = job[s].id /\ j.request = job[s].request /\ j.data = job[s].data
        /\ j.proc = p
    <3> HIDE DEF p
    <3> QED
      BY <1>1, <2>2 DEF Jobs
  <2>6. job'[s] = j /\ pc'[s] = "starting"
    BY <1>4 DEF Step, IInv, TypeOK, HandlerTypes
  <2> HIDE DEF j, p
  <2>7. JobOK(s)'
    BY <1>1, <2>2, <2>2a, <2>5, <2>6 DEF JobOK
  <2>8. "starting" \in {"make", "starting", "send", "running", "xdna_held"}
    OBVIOUS
  <2>9. UNCHANGED <<clients, up, down, models, counter, disk, server>>
    BY <1>2, <1>4
  <2>10. lock' \in Sessions \union {None}
    BY <1>2, Quiet
  <2> QED
    BY <1>1, <1>4, <2>3, <2>4, <2>5, <2>7, <2>8, <2>9, <2>10, BusyStep
<1> QED
  BY <1>3, <1>4 DEF MakeProxy

\* The answer of the worker's start, or its end.
LEMMA StartedStep == ASSUME NEW s \in Sessions, IInv, Started(s) PROVE IInv'
<1> DEFINE p == job[s].proc
<1>1. /\ Busy(s) /\ pc[s] = "starting" /\ p \in DOMAIN procs /\ job[s] \in Jobs
      /\ procs[p].data = job[s].data
      /\ job[s].request.op \in {"load", "load_name", "once"}
  BY DEF Started, Busy, Resting, IInv, SessionOK, JobOK, TypeOK, HandlerTypes
<1>2. /\ UNCHANGED <<clients, up, disk, lock, server>>
      /\ lock' \in Sessions \union {None} /\ ProcTypes
  BY Quiet DEF Started, IInv, TypeOK
<1>3. CASE /\ job[s].request.op # "once" /\ Register(s, p)
           /\ procs' = [procs EXCEPT ![p].out = None]
  <2>1. ProcTypes' /\ ProcsKept
    BY <1>1, <1>2, <1>3, ProcsWritten
  <2>2. p \in Nat /\ p \in DOMAIN procs' /\ procs'[p].data = job[s].data
    BY <1>1, <2>1 DEF Jobs, ProcsKept
  <2> HIDE DEF p
  <2> QED
    BY <1>1, <1>2, <1>3, <2>1, <2>2, RegisterStep
<1>4. CASE /\ job[s].request.op = "once" /\ Step(s, "send")
           /\ procs' = [procs EXCEPT ![p].out = None]
           /\ UNCHANGED <<job, down, models, counter>>
  <2>1. ProcTypes' /\ ProcsKept
    BY <1>1, <1>2, <1>4, ProcsWritten
  <2>2. job' = [job EXCEPT ![s] = job[s]] /\ pc'[s] = "send"
    BY <1>4 DEF IInv, TypeOK, HandlerTypes, Step
  <2>3. JobOK(s)'
    BY <1>1, <1>4, <2>1, <2>2 DEF JobOK, ProcsKept
  <2>4. "send" \in {"make", "starting", "send", "running", "xdna_held"}
    OBVIOUS
  <2>5. UNCHANGED <<clients, up, down, models, counter, disk, server>>
    BY <1>2, <1>4
  <2>6. pc[s] # "write" /\ job[s].request.op # "run"
    BY <1>1, <1>4
  <2> QED
    BY <1>1, <1>2, <1>4, <2>1, <2>2, <2>3, <2>4, <2>5, <2>6, BusyStep
<1>5. CASE Fail(s) /\ procs' = Closed(p) /\ UNCHANGED <<models, counter>>
  <2>1. ProcTypes' /\ ProcsKept
    BY <1>1, <1>2, <1>5, ProcsWritten DEF Closed
  <2> QED
    BY <1>1, <1>2, <1>5, <2>1, FailStep
<1> QED
  BY <1>3, <1>4, <1>5 DEF Started

\* run and time find the runner.
LEMMA RunStep == ASSUME NEW s \in Sessions, IInv, Run(s) PROVE IInv'
<1> DEFINE h == job[s].request.handle
           runner == models[s][h]
           j == [job[s] EXCEPT !.proc = runner.proc]
<1>1. Busy(s) /\ pc[s] = "run" /\ job[s] \in Jobs /\ job[s].request.op = "run"
  BY DEF Run, Busy, Resting, IInv, SessionOK, JobOK, TypeOK, HandlerTypes
<1>2. /\ UNCHANGED <<clients, up, models, counter, procs, disk, lock, server>>
      /\ lock' \in Sessions \union {None} /\ ProcTypes' /\ ProcsKept
  BY Quiet DEF Run
<1>3. h \in Handles
  BY <1>1, RequestFields DEF Jobs
<1>4. ~desynced[s] /\ client[s] = "waiting" /\ runner # None => runner.data = handles[s][h]
  <2>1. ~desynced[s] /\ client[s] = "waiting" => wants[s] = job[s].request
    BY <1>1 DEF IInv, SessionOK, CallOK
  <2>2. ~desynced[s] /\ client[s] = "waiting" => handles[s][h] # None
    BY <1>1, <2>1 DEF IInv, SessionOK, ModelOK
  <2> QED
    BY <1>3, <2>2 DEF IInv, SessionOK, ModelOK
<1>5. CASE Fail(s)
  BY <1>1, <1>2, <1>5, FailStep
<1>6. CASE runner # None /\ Answer(s, TRUE, None, runner.data)
  <2>1. runner.data \in Data \union {None}
    BY <1>3, <1>6 DEF IInv, TypeOK, TableTypes
  <2> HIDE DEF runner
  <2> QED
    BY <1>1, <1>2, <1>4, <1>6, <2>1, DoneStep
<1>7. CASE /\ runner # None /\ runner.proc # 0
           /\ job' = [job EXCEPT ![s] = j] /\ Step(s, "send") /\ UNCHANGED down
  <2>1. runner.proc \in Nat /\ runner.proc \in DOMAIN procs
        /\ procs[runner.proc].data = runner.data
    BY <1>3, <1>7 DEF IInv, TypeOK, TableTypes, SessionOK, ModelOK
  <2>2. /\ j \in Jobs /\ j.id = job[s].id /\ j.request = job[s].request
        /\ j.proc = runner.proc
    <3> HIDE DEF runner
    <3> QED
      BY <1>1, <2>1 DEF Jobs
  <2>3. job'[s] = j /\ pc'[s] = "send"
    BY <1>7 DEF Step, IInv, TypeOK, HandlerTypes
  <2> HIDE DEF j, runner
  <2>4. JobOK(s)'
    BY <1>1, <1>2, <2>1, <2>2, <2>3 DEF JobOK
  <2>5. "send" \in {"make", "starting", "send", "running", "xdna_held"}
    OBVIOUS
  <2>6. UNCHANGED <<clients, up, down, models, counter, disk, server>>
    BY <1>2, <1>7
  <2>7. ~desynced[s] /\ client[s] = "waiting" =>
            procs'[j.proc].data = handles[s][j.request.handle]
    BY <1>2, <1>4, <1>7, <2>1, <2>2
  <2> QED
    BY <1>1, <1>2, <1>7, <2>2, <2>4, <2>5, <2>6, <2>7, BusyStep
<1> QED
  BY <1>5, <1>6, <1>7 DEF Run

\* What a call to a worker is about.
LEMMA CallToWorker ==
    ASSUME NEW s \in Sessions, IInv, pc[s] \in {"send", "running"}
    PROVE  /\ Busy(s) /\ pc[s] # "write" /\ job[s] \in Jobs
           /\ job[s].proc \in DOMAIN procs /\ job[s].request.op \in {"run", "once"}
           /\ procs[job[s].proc].data \in Data
           /\ job[s].request.op = "run" /\ ~desynced[s] /\ client[s] = "waiting" =>
                procs[job[s].proc].data = handles[s][job[s].request.handle]
<1>1. /\ Busy(s) /\ pc[s] # "write" /\ job[s] \in Jobs
      /\ job[s].proc \in DOMAIN procs /\ job[s].request.op \in {"run", "once"}
  BY DEF Busy, Resting, IInv, SessionOK, JobOK, TypeOK, HandlerTypes
<1>2. procs \in Seq(Runners)
  BY DEF IInv, TypeOK, ProcTypes, Runners
<1>3. procs[job[s].proc] \in Runners
  BY <1>1, <1>2
<1>4. procs[job[s].proc].data \in Data
  BY <1>3 DEF Runners
<1>5. ~desynced[s] /\ client[s] = "waiting" => wants[s] = job[s].request
  BY <1>1 DEF IInv, SessionOK, CallOK
<1> QED
  BY <1>1, <1>4, <1>5 DEF IInv, SessionOK, ModelOK

\* The request goes to the worker, or the pipe is broken.
LEMMA SendStep == ASSUME NEW s \in Sessions, IInv, Send(s) PROVE IInv'
<1> DEFINE p == job[s].proc
<1>1. /\ pc[s] = "send" /\ Busy(s) /\ pc[s] # "write" /\ job[s] \in Jobs /\ p \in DOMAIN procs
      /\ job[s].request.op \in {"run", "once"}
      /\ job[s].request.op = "run" /\ ~desynced[s] /\ client[s] = "waiting" =>
            procs[p].data = handles[s][job[s].request.handle]
  BY CallToWorker DEF Send
<1>2. /\ UNCHANGED <<clients, up, models, counter, disk, lock, server>>
      /\ lock' \in Sessions \union {None} /\ ProcTypes
  BY Quiet DEF Send, IInv, TypeOK
<1>3. CASE Fail(s) /\ UNCHANGED procs
  BY <1>1, <1>2, <1>3, Quiet, FailStep
<1>4. CASE /\ procs' = [procs EXCEPT ![p].state = "busy"]
           /\ Step(s, "running") /\ UNCHANGED <<job, down>>
  <2>1. ProcTypes' /\ ProcsKept
    BY <1>1, <1>2, <1>4, ProcsWritten
  <2>2. job' = [job EXCEPT ![s] = job[s]] /\ pc'[s] = "running"
    BY <1>4 DEF IInv, TypeOK, HandlerTypes, Step
  <2>3. JobOK(s)'
    BY <1>1, <1>4, <2>1, <2>2 DEF JobOK, ProcsKept
  <2>4. "running" \in {"make", "starting", "send", "running", "xdna_held"}
    OBVIOUS
  <2>5. UNCHANGED <<clients, up, down, models, counter, disk, server>>
    BY <1>2, <1>4
  <2>6. procs'[p].data = procs[p].data
    BY <1>1, <2>1 DEF ProcsKept
  <2> QED
    BY <1>1, <1>2, <1>4, <2>1, <2>2, <2>3, <2>4, <2>5, <2>6, BusyStep
<1> QED
  BY <1>3, <1>4 DEF Send

\* The worker's answer, or its end.
LEMMA ReceivedStep == ASSUME NEW s \in Sessions, IInv, Received(s) PROVE IInv'
<1> DEFINE p == job[s].proc
<1>1. /\ Busy(s) /\ pc[s] # "write" /\ p \in DOMAIN procs
      /\ job[s].request.op \in {"run", "once"} /\ procs[p].data \in Data
      /\ job[s].request.op = "run" /\ ~desynced[s] /\ client[s] = "waiting" =>
            procs[p].data = handles[s][job[s].request.handle]
  BY CallToWorker DEF Received
<1>2. /\ UNCHANGED <<clients, up, models, counter, disk, lock, server>>
      /\ lock' \in Sessions \union {None} /\ ProcTypes
  BY Quiet DEF Received, IInv, TypeOK
<1>3. ProcTypes' /\ ProcsKept
  <2>1. \/ UNCHANGED procs \/ procs' = Closed(p) \/ procs' = [procs EXCEPT ![p].out = None]
    BY DEF Received
  <2> QED
    BY <1>1, <1>2, <2>1, Quiet, ProcsWritten DEF Closed
<1>4. CASE Answer(s, TRUE, None, procs[p].data)
  <2>1. procs[p].data \in Data \union {None}
    BY <1>1
  <2> QED
    BY <1>1, <1>2, <1>3, <1>4, <2>1, DoneStep
<1>5. CASE Fail(s)
  BY <1>1, <1>2, <1>3, <1>5, FailStep
<1> QED
  BY <1>4, <1>5 DEF Received

\* An XDNA operation gets the lock.
LEMMA XdnaLockStep == ASSUME NEW s \in Sessions, IInv, XdnaLock(s) PROVE IInv'
<1>1. /\ Busy(s) /\ pc[s] = "xdna" /\ job[s] \in Jobs /\ job[s].request.op \in {"bad", "xdna"}
      /\ UNCHANGED <<clients, up, down, models, counter, disk, server>>
      /\ UNCHANGED procs /\ UNCHANGED job
      /\ lock' \in Sessions \union {None} /\ Step(s, "xdna_held")
  BY DEF XdnaLock, Busy, Resting, IInv, SessionOK, JobOK, TypeOK, HandlerTypes
<1>2. ProcTypes' /\ ProcsKept
  BY <1>1, Quiet
<1>3. job' = [job EXCEPT ![s] = job[s]] /\ pc'[s] = "xdna_held"
  BY <1>1 DEF IInv, TypeOK, HandlerTypes, Step
<1>4. JobOK(s)'
  BY <1>1, <1>3 DEF JobOK
<1>5. "xdna_held" \in {"make", "starting", "send", "running", "xdna_held"}
  OBVIOUS
<1> QED
  BY <1>1, <1>2, <1>3, <1>4, <1>5, BusyStep

-----------------------------------------------------------------------------
(* The client's actions *)

\* The parts of the types a client's step leaves alone.
LEMMA ServerSide ==
    ASSUME IInv, UNCHANGED <<procs, disk, lock, server>>
    PROVE  ProcTypes' /\ DiskTypes' /\ ServerTypes' /\ ProcsKept
  BY DEF IInv, TypeOK, ProcTypes, DiskTypes, ServerTypes, disk, server, ProcsKept

\* connect sends the hello.
LEMMA ConnectStep == ASSUME NEW s \in Sessions, IInv, Connect(s) PROVE IInv'
<1>0. TypeOK /\ SessionOK(s)
  BY DEF IInv
<1>1. PICK m \in [op : {"hello"}, key : {"right", "wrong"}] : up' = [up EXCEPT ![s] = <<m>>]
  BY DEF Connect
<1>2. UNCHANGED <<plan, calls, wants, handles, desynced, interrupts, down, job, models,
                   counter, procs, disk, lock, server>>
  BY DEF Connect
<1>3. /\ pc'[s] = "hello" /\ client'[s] = "hello" /\ up'[s] = <<m>>
      /\ pc[s] = "none" /\ client[s] = "new"
  BY <1>0, <1>1 DEF Connect, SessionOK, HelloOK, TypeOK, ClientTypes, UpTypes, HandlerTypes
<1>4. TypeOK'
  <2>1. ClientTypes' /\ DownTypes' /\ TableTypes'
    BY <1>0, <1>2 DEF Connect, TypeOK, ClientTypes, DownTypes, TableTypes
  <2>2. UpTypes'
    BY <1>0, <1>1 DEF TypeOK, UpTypes
  <2>3. HandlerTypes'
    BY <1>0, <1>2 DEF Connect, TypeOK, HandlerTypes, Busy, Resting
  <2> QED
    BY <1>2, <2>1, <2>2, <2>3, ServerSide DEF TypeOK
<1>5. \A q \in Sessions \ {s} : SameSession(q)
  BY <1>0, <1>1, <1>2 DEF Connect, SameSession, TypeOK, ClientTypes, UpTypes, HandlerTypes
<1>6. down[s] = <<>>
  BY <1>0, <1>3 DEF SessionOK, HelloOK
<1>7. SessionOK(s)'
  <2>1. JobOK(s)' /\ HelloOK(s)'
    BY <1>2, <1>3, <1>6 DEF JobOK, HelloOK
  <2>2. CallOK(s)' /\ ModelOK(s)'
    BY <1>0, <1>2, <1>3 DEF SessionOK, CallOK, ModelOK
  <2> QED
    BY <2>1, <2>2 DEF SessionOK
<1> QED
  BY <1>2, <1>3, <1>4, <1>5, <1>7, ServerSide, OneSession

\* A step of the client or of the connection: nothing of the server moves but
\* perhaps where the handler is, between two requests.
LEMMA ClientStep ==
    ASSUME NEW s \in Sessions, IInv, ClientTypes', UpTypes', DownTypes',
           UNCHANGED <<pc, job, models, counter, procs, disk, lock, server>>,
           \A q \in Sessions \ {s} : SameSession(q),
           HelloOK(s)', CallOK(s)', ModelOK(s)'
    PROVE  IInv'
<1>1. TypeOK'
  BY DEF IInv, TypeOK, HandlerTypes, TableTypes, ProcTypes, DiskTypes, ServerTypes, disk,
         server, Busy
<1>2. JobOK(s)'
  BY DEF IInv, SessionOK, JobOK
<1>3. \A q \in Sessions : SessionOK(q)'
  <2>1. ProcsKept
    BY DEF ProcsKept
  <2> QED
    BY <1>2, <2>1, Frame DEF IInv, SessionOK
<1>4. ASSUME NEW n \in Names
      PROVE  FileOK(n)'
  <2>1. Writing(n)' = Writing(n)
    BY DEF Writing
  <2> QED
    BY <2>1, FileFrame DEF IInv
<1> QED
  BY <1>1, <1>3, <1>4 DEF IInv

\* A sequence without its head.
LEMMA TailOK ==
    ASSUME NEW S, NEW q \in Seq(S), q # <<>>
    PROVE  /\ Tail(q) \in Seq(S) /\ Head(q) \in S /\ Len(Tail(q)) = Len(q) - 1
           /\ Len(q) = 1 => Tail(q) = <<>>
<1>1. Len(q) \in Nat /\ Len(q) > 0
  OBVIOUS
<1>2. Tail(q) \in Seq(S) /\ Len(Tail(q)) = Len(q) - 1
  BY <1>1
<1>3. Head(q) \in S
  BY <1>1
<1>4. ASSUME NEW t \in Seq(S), Len(t) = 0
      PROVE  t = <<>>
  BY <1>4
<1> QED
  BY <1>1, <1>2, <1>3, <1>4

\* The answer to the hello.
LEMMA WelcomedStep == ASSUME NEW s \in Sessions, IInv, Welcomed(s) PROVE IInv'
<1>0. TypeOK /\ HelloOK(s) /\ CallOK(s) /\ ModelOK(s)
  BY DEF IInv, SessionOK
<1>1. /\ UNCHANGED <<plan, calls, wants, handles, desynced, interrupts, up, handlers, procs,
                     disk, lock, server>>
      /\ client[s] = "hello" /\ down[s] # <<>>
      /\ down' = [down EXCEPT ![s] = Tail(down[s])]
  BY DEF Welcomed
<1>2. /\ down[s] \in Seq(Replies \union [ok : BOOLEAN]) /\ pc[s] # "hello"
      /\ up[s] = <<>> /\ ~Busy(s) /\ Len(down[s]) <= 1
  BY <1>0, <1>1 DEF HelloOK, TypeOK, DownTypes
<1>3. Tail(down[s]) = <<>>
  BY <1>1, <1>2
<1>4. client'[s] \in {"idle", "over"} /\ down'[s] = <<>>
  BY <1>0, <1>1, <1>3 DEF Welcomed, TypeOK, ClientTypes, DownTypes
<1>5. ClientTypes' /\ UpTypes' /\ DownTypes'
  BY <1>0, <1>1, <1>3 DEF Welcomed, TypeOK, ClientTypes, UpTypes, DownTypes
<1>6. \A q \in Sessions \ {s} : SameSession(q)
  BY <1>0, <1>1 DEF Welcomed, SameSession, handlers, TypeOK, ClientTypes, DownTypes
<1>6a. <<>> \in Seq(Replies) /\ pc' = pc /\ up' = up
  BY <1>1 DEF handlers
<1>7. HelloOK(s)'
  BY <1>0, <1>2, <1>4, <1>6a DEF HelloOK
<1>7a. CallOK(s)'
  BY <1>2, <1>4, <1>6a DEF CallOK, Busy
<1>8. ModelOK(s)'
  BY <1>0, <1>1, <1>4 DEF ModelOK, handlers
<1> QED
  BY <1>1, <1>5, <1>6, <1>7, <1>7a, <1>8, ClientStep DEF handlers

\* A call joins the connection.
LEMMA CallStep == ASSUME NEW s \in Sessions, IInv, Call(s) PROVE IInv'
<1>0. TypeOK /\ HelloOK(s) /\ CallOK(s) /\ ModelOK(s) /\ calls[s] \in Nat
  BY DEF IInv, SessionOK, TypeOK, ClientTypes
<1>1. PICK r \in Requests(s) :
        /\ wants' = [wants EXCEPT ![s] = r]
        /\ up' = [up EXCEPT ![s] = Append(up[s], [id |-> calls[s] + 1, request |-> r])]
  BY DEF Call
<1> DEFINE m == [id |-> calls[s] + 1, request |-> r]
<1>2. /\ UNCHANGED <<plan, handles, desynced, interrupts, down, handlers, procs, disk, lock,
                     server>>
      /\ client[s] = "idle"
      /\ calls' = [calls EXCEPT ![s] = calls[s] + 1]
      /\ client' = [client EXCEPT ![s] = "waiting"]
  BY DEF Call
<1>3. /\ r \in AllRequests
      /\ r.op = "run" => handles[s][r.handle] # None
  BY DEF Requests
<1>4. m \in [id : Nat, request : AllRequests]
  BY <1>0, <1>3
<1>5. /\ client'[s] = "waiting" /\ calls'[s] = calls[s] + 1 /\ wants'[s] = r
      /\ up'[s] = Append(up[s], m)
  BY <1>0, <1>1, <1>2 DEF TypeOK, ClientTypes, UpTypes
<1>6. ClientTypes' /\ UpTypes' /\ DownTypes'
  <2>1. ClientTypes'
    BY <1>0, <1>1, <1>2, <1>3 DEF TypeOK, ClientTypes
  <2>2. UpTypes'
    <3> HIDE DEF m
    <3>1. Append(up[s], m) \in Seq([id : Nat, request : AllRequests]
                                   \union [op : {"hello"}, key : {"right", "wrong"}])
      BY <1>0, <1>4 DEF TypeOK, UpTypes
    <3>2. up' = [up EXCEPT ![s] = Append(up[s], m)]
      BY <1>1 DEF m
    <3> QED
      BY <1>0, <3>1, <3>2 DEF TypeOK, UpTypes
  <2> QED
    BY <1>0, <1>2, <2>1, <2>2 DEF TypeOK, DownTypes
<1>7. \A q \in Sessions \ {s} : SameSession(q)
  BY <1>0, <1>1, <1>2 DEF SameSession, handlers, TypeOK, ClientTypes, UpTypes
<1>8. HelloOK(s)'
  <2>1. pc[s] # "hello"
    BY <1>0, <1>2 DEF HelloOK
  <2>2. pc[s] # "ending" => up'[s] \in Seq([id : Nat, request : AllRequests])
    <3> HIDE DEF m
    <3> QED
      BY <1>0, <1>4, <1>5, <2>1 DEF HelloOK
  <2> QED
    BY <1>0, <1>2, <1>5, <2>1, <2>2 DEF HelloOK, handlers
<1>9. CallOK(s)'
  <2>0. Append(<<>>, m) = <<m>>
    OBVIOUS
  <2>1. ~desynced[s] => up'[s] = <<m>> /\ down[s] = <<>> /\ ~Busy(s)
    <3> HIDE DEF m
    <3>1. ~desynced[s] => up[s] = <<>> /\ down[s] = <<>> /\ ~Busy(s)
      BY <1>0, <1>2 DEF CallOK
    <3> QED
      BY <1>5, <2>0, <3>1
  <2> QED
    BY <1>2, <1>3, <1>5, <2>1 DEF CallOK, Busy, handlers
<1>10. ModelOK(s)'
  <2>1. ~desynced[s] => down[s] = <<>> /\ ~Busy(s)
    BY <1>0, <1>2 DEF CallOK
  <2> QED
    BY <1>0, <1>2, <1>3, <1>5, <2>1 DEF ModelOK, handlers, Busy, Resting
<1> QED
  BY <1>2, <1>6, <1>7, <1>8, <1>9, <1>10, ClientStep DEF handlers

\* A call reads its answer.
LEMMA ReturnStep == ASSUME NEW s \in Sessions, IInv, Return(s) PROVE IInv'
<1> DEFINE reply == Head(down[s])
           k == reply.handle
<1>0. TypeOK /\ HelloOK(s) /\ CallOK(s) /\ ModelOK(s)
  BY DEF IInv, SessionOK
<1>1. /\ UNCHANGED <<plan, calls, desynced, interrupts, up, handlers, procs, disk, lock,
                     server>>
      /\ client[s] = "waiting" /\ down[s] # <<>>
      /\ down' = [down EXCEPT ![s] = Tail(down[s])]
      /\ wants' = [wants EXCEPT ![s] = None]
  BY DEF Return
<1>2. /\ pc[s] # "hello" /\ down[s] \in Seq(Replies)
      /\ down[s] \in Seq(Replies \union [ok : BOOLEAN])
  BY <1>0, <1>1 DEF HelloOK, TypeOK, DownTypes
<1>3. /\ Tail(down[s]) \in Seq(Replies) /\ reply \in Replies
      /\ Tail(down[s]) \in Seq(Replies \union [ok : BOOLEAN])
      /\ Len(down[s]) = 1 => Tail(down[s]) = <<>>
  BY <1>1, <1>2, TailOK
<1>4. client'[s] \in {"idle", "over"} /\ down'[s] = Tail(down[s])
  BY <1>0, <1>1 DEF Return, TypeOK, ClientTypes, DownTypes
<1>5. \/ /\ wants[s].op \in {"load", "load_name"} /\ reply.ok /\ k # None
         /\ handles[s][k] = None /\ handles' = [handles EXCEPT ![s][k] = reply.data]
      \/ handles' = handles
  BY DEF Return
<1>6. reply.data \in Data \union {None} /\ k \in Nat \union {None}
  <2> HIDE DEF reply
  <2> QED
    BY <1>3 DEF Replies
<1>7. handles' \in [Sessions -> [Handles -> Data \union {None}]]
  <2> HIDE DEF reply, k
  <2>1. [handles[s] EXCEPT ![k] = reply.data] \in [Handles -> Data \union {None}]
    BY <1>0, <1>6 DEF TypeOK, ClientTypes
  <2> QED
    BY <1>0, <1>5, <2>1 DEF TypeOK, ClientTypes
<1>8. ClientTypes' /\ UpTypes' /\ DownTypes'
  <2>1. ClientTypes'
    BY <1>0, <1>1, <1>7 DEF Return, TypeOK, ClientTypes
  <2>2. UpTypes' /\ DownTypes'
    BY <1>0, <1>1, <1>3 DEF TypeOK, UpTypes, DownTypes
  <2> QED
    BY <2>1, <2>2
<1>9. \A q \in Sessions \ {s} : SameSession(q)
  <2>1. \A q \in Sessions \ {s} : handles'[q] = handles[q]
    BY <1>0, <1>5 DEF TypeOK, ClientTypes
  <2>2. \A q \in Sessions \ {s} : client'[q] = client[q]
    BY <1>0 DEF Return, TypeOK, ClientTypes
  <2> QED
    BY <1>0, <1>1, <2>1, <2>2 DEF SameSession, handlers, TypeOK, ClientTypes, DownTypes
<1>10. HelloOK(s)'
  BY <1>0, <1>1, <1>2, <1>3, <1>4 DEF HelloOK, handlers
<1>11. CallOK(s)'
  <2>1. ~desynced[s] => up[s] = <<>> /\ Len(down[s]) = 1 /\ ~Busy(s)
    BY <1>0, <1>1 DEF CallOK
  <2> QED
    BY <1>1, <1>3, <1>4, <2>1 DEF CallOK, handlers, Busy
<1>12. ModelOK(s)'
  <2>1. ASSUME ~desynced[s], NEW h \in Handles, handles'[s][h] # None
        PROVE  h <= counter[s] /\ (models[s][h] # None => models[s][h].data = handles'[s][h])
    <3>1. CASE handles'[s][h] = handles[s][h]
      BY <2>1, <3>1, <1>0 DEF ModelOK
    <3>2. CASE handles'[s][h] # handles[s][h]
      <4>1. wants[s].op \in {"load", "load_name"} /\ reply.ok /\ h = k /\ handles'[s][h] = reply.data
        <5> HIDE DEF reply, k
        <5> QED
          BY <3>2, <1>0, <1>5 DEF TypeOK, ClientTypes
      <4> QED
        BY <2>1, <4>1, <1>0, <1>1 DEF ModelOK
    <3> QED
      BY <3>1, <3>2
  <2> QED
    BY <1>0, <1>1, <1>4, <2>1 DEF ModelOK, handlers
<1> QED
  BY <1>1, <1>8, <1>9, <1>10, <1>11, <1>12, ClientStep DEF handlers

\* A call is given up.
LEMMA InterruptedStep == ASSUME NEW s \in Sessions, IInv, Interrupted(s) PROVE IInv'
<1>0. TypeOK /\ HelloOK(s) /\ ModelOK(s)
  BY DEF IInv, SessionOK
<1>1. /\ UNCHANGED <<plan, calls, handles, up, down, handlers, procs, disk, lock, server>>
      /\ client[s] = "waiting"
  BY DEF Interrupted
<1>2. client'[s] = "idle" /\ desynced'[s]
  BY <1>0 DEF Interrupted, TypeOK, ClientTypes
<1>3. ClientTypes' /\ UpTypes' /\ DownTypes'
  BY <1>0, <1>1 DEF Interrupted, TypeOK, ClientTypes, UpTypes, DownTypes
<1>4. \A q \in Sessions \ {s} : SameSession(q)
  BY <1>0, <1>1 DEF Interrupted, SameSession, handlers, TypeOK, ClientTypes
<1>5. HelloOK(s)'
  BY <1>0, <1>1, <1>2 DEF HelloOK, handlers
<1>6. CallOK(s)' /\ ModelOK(s)'
  BY <1>0, <1>1, <1>2 DEF CallOK, ModelOK, handlers
<1> QED
  BY <1>1, <1>3, <1>4, <1>5, <1>6, ClientStep DEF handlers

\* The client goes away.
LEMMA HangUpStep == ASSUME NEW s \in Sessions, IInv, HangUp(s) PROVE IInv'
<1>0. TypeOK /\ HelloOK(s) /\ ModelOK(s)
  BY DEF IInv, SessionOK
<1>1. UNCHANGED <<plan, calls, handles, desynced, interrupts, up, handlers,
                   procs, disk, lock, server>>
  BY DEF HangUp
<1>2. client'[s] = "over" /\ down'[s] = <<>>
  BY <1>0 DEF HangUp, TypeOK, ClientTypes, DownTypes
<1>3. ClientTypes' /\ UpTypes' /\ DownTypes'
  BY <1>0, <1>1 DEF HangUp, TypeOK, ClientTypes, UpTypes, DownTypes
<1>4. \A q \in Sessions \ {s} : SameSession(q)
  BY <1>0, <1>1 DEF HangUp, SameSession, handlers, TypeOK, ClientTypes, DownTypes
<1>5. HelloOK(s)'
  BY <1>0, <1>1, <1>2 DEF HelloOK, handlers
<1>6. CallOK(s)' /\ ModelOK(s)'
  BY <1>0, <1>1, <1>2 DEF CallOK, ModelOK, handlers
<1> QED
  BY <1>1, <1>3, <1>4, <1>5, <1>6, ClientStep DEF handlers

\* The client finds the connection closed.
LEMMA ConnectionLostStep == ASSUME NEW s \in Sessions, IInv, ConnectionLost(s) PROVE IInv'
<1>0. TypeOK /\ HelloOK(s) /\ ModelOK(s)
  BY DEF IInv, SessionOK
<1>1. /\ UNCHANGED <<plan, calls, wants, handles, desynced, interrupts, up, down, handlers,
                     procs, disk, lock, server>>
      /\ pc[s] = "none"
  BY DEF ConnectionLost
<1>2. client'[s] \in {"over", "lost"}
  BY <1>0 DEF ConnectionLost, TypeOK, ClientTypes
<1>3. ClientTypes' /\ UpTypes' /\ DownTypes'
  BY <1>0, <1>1 DEF ConnectionLost, TypeOK, ClientTypes, UpTypes, DownTypes
<1>4. \A q \in Sessions \ {s} : SameSession(q)
  BY <1>0, <1>1 DEF ConnectionLost, SameSession, handlers, TypeOK, ClientTypes
<1>5. HelloOK(s)'
  BY <1>0, <1>1, <1>2 DEF HelloOK, handlers
<1>6. CallOK(s)' /\ ModelOK(s)'
  BY <1>0, <1>1, <1>2 DEF CallOK, ModelOK, handlers
<1> QED
  BY <1>1, <1>3, <1>4, <1>5, <1>6, ClientStep DEF handlers

-----------------------------------------------------------------------------
(* The handler between two requests *)

\* The parts of the types a handler between two requests leaves alone.
LEMMA BetweenRequests ==
    ASSUME NEW s \in Sessions, IInv, UNCHANGED <<clients, models, counter, procs, disk, lock, server>>
    PROVE  /\ ClientTypes' /\ TableTypes' /\ ProcTypes' /\ DiskTypes' /\ ServerTypes' /\ ProcsKept
           /\ client' = client /\ calls' = calls /\ wants' = wants
           /\ handles' = handles /\ desynced' = desynced
  BY DEF IInv, TypeOK, ClientTypes, TableTypes, ProcTypes, DiskTypes, ServerTypes, clients,
         disk, server, ProcsKept

\* The handler reads the hello.
LEMMA HelloStep == ASSUME NEW s \in Sessions, IInv, Hello(s) PROVE IInv'
<1>0. TypeOK /\ HelloOK(s) /\ ModelOK(s)
  BY DEF IInv, SessionOK
<1>1. /\ UNCHANGED <<clients, job, models, counter, procs, disk, lock, server>>
      /\ pc[s] = "hello" /\ up' = [up EXCEPT ![s] = Tail(up[s])]
  BY DEF Hello
<1>2. /\ ClientTypes' /\ TableTypes' /\ ProcTypes' /\ DiskTypes' /\ ServerTypes' /\ ProcsKept
      /\ client' = client /\ calls' = calls /\ wants' = wants
      /\ handles' = handles /\ desynced' = desynced
  BY <1>1, BetweenRequests
<1>3. PICK ok \in BOOLEAN : /\ Post(s, [ok |-> ok])
                            /\ Step(s, IF ok THEN "recv" ELSE "ending")
  BY DEF Hello
<1>4. /\ client[s] \in {"hello", "over"} /\ down[s] = <<>> /\ Tail(up[s]) = <<>>
  <2>1. PICK m \in [op : {"hello"}, key : {"right", "wrong"}] : up[s] = <<m>>
    BY <1>0, <1>1 DEF HelloOK
  <2>2. Tail(<<m>>) = <<>>
    OBVIOUS
  <2> QED
    BY <1>0, <1>1, <2>1, <2>2 DEF HelloOK
<1>5. /\ down'[s] \in {<<>>, <<[ok |-> ok]>>}
      /\ down' = [down EXCEPT ![s] = down'[s]]
      /\ client[s] = "over" => down'[s] = <<>>
  <2>1. Append(<<>>, [ok |-> ok]) = <<[ok |-> ok]>>
    OBVIOUS
  <2>2. CASE client[s] = "hello"
    <3>1. down' = [down EXCEPT ![s] = Append(down[s], [ok |-> ok])]
      BY <1>3, <2>2 DEF Post, Open
    <3>2. down'[s] = <<[ok |-> ok]>>
      BY <1>0, <1>4, <2>1, <3>1 DEF TypeOK, DownTypes
    <3> QED
      BY <1>4, <2>1, <2>2, <3>1, <3>2
  <2>3. CASE client[s] = "over"
    BY <1>0, <1>3, <1>4, <2>3 DEF Post, Open, TypeOK, DownTypes
  <2> QED
    BY <1>4, <2>2, <2>3
<1>6. Len(down'[s]) <= 1 /\ down'[s] \in Seq(Replies \union [ok : BOOLEAN])
  <2>1. [ok |-> ok] \in Replies \union [ok : BOOLEAN]
    OBVIOUS
  <2>2. CASE down'[s] = <<>>
    BY <2>2
  <2>3. CASE down'[s] = <<[ok |-> ok]>>
    BY <2>1, <2>3
  <2> QED
    BY <1>5, <2>2, <2>3
<1>7. pc'[s] \in {"recv", "ending"} /\ up'[s] = <<>>
  BY <1>0, <1>1, <1>3, <1>4 DEF Step, TypeOK, HandlerTypes, UpTypes
<1>8. TypeOK'
  <2>1. UpTypes'
    <3>1. up' = [up EXCEPT ![s] = <<>>]
      BY <1>1, <1>4
    <3> QED
      BY <1>0, <3>1 DEF TypeOK, UpTypes
  <2>2. DownTypes'
    BY <1>0, <1>5, <1>6 DEF TypeOK, DownTypes
  <2>3. HandlerTypes'
    BY <1>0, <1>1, <1>3 DEF Step, TypeOK, HandlerTypes, Busy, Resting
  <2> QED
    BY <1>2, <2>1, <2>2, <2>3 DEF TypeOK
<1>9. \A q \in Sessions \ {s} : SameSession(q)
  <2>1. \A q \in Sessions \ {s} : down'[q] = down[q] /\ pc'[q] = pc[q] /\ up'[q] = up[q]
    BY <1>0, <1>1, <1>3, <1>5 DEF Step, TypeOK, DownTypes, HandlerTypes, UpTypes
  <2> QED
    BY <1>1, <1>2, <2>1 DEF SameSession
<1>10. SessionOK(s)'
  <2>1. JobOK(s)'
    BY <1>7 DEF JobOK
  <2>2. HelloOK(s)'
    BY <1>2, <1>4, <1>6, <1>7 DEF HelloOK, Busy, Resting
  <2>3. CallOK(s)' /\ ModelOK(s)'
    BY <1>0, <1>1, <1>2, <1>4 DEF CallOK, ModelOK
  <2> QED
    BY <2>1, <2>2, <2>3 DEF SessionOK
<1>11. pc[s] # "write" /\ pc'[s] # "write" /\ UNCHANGED disk
  BY <1>1, <1>7
<1> QED
  BY <1>2, <1>8, <1>9, <1>10, <1>11, OneSession

\* The handler finds the client gone.
LEMMA SeesHangUpStep == ASSUME NEW s \in Sessions, IInv, SeesHangUp(s) PROVE IInv'
<1>0. TypeOK /\ SessionOK(s)
  BY DEF IInv
<1>1. /\ UNCHANGED <<clients, up, down, job, models, counter, procs, disk, lock, server>>
      /\ pc[s] \in {"hello", "recv"} /\ client[s] \in {"over", "lost"}
  BY <1>0 DEF SeesHangUp, Open, TypeOK, ClientTypes
<1>2. /\ ClientTypes' /\ TableTypes' /\ ProcTypes' /\ DiskTypes' /\ ServerTypes' /\ ProcsKept
      /\ client' = client /\ calls' = calls /\ wants' = wants
      /\ handles' = handles /\ desynced' = desynced
  BY <1>1, BetweenRequests
<1>3. pc'[s] = "ending" /\ \A q \in Sessions \ {s} : pc'[q] = pc[q]
  BY <1>0 DEF SeesHangUp, Step, TypeOK, HandlerTypes
<1>4. TypeOK'
  <2>1. UpTypes' /\ DownTypes' /\ HandlerTypes'
    BY <1>0, <1>1 DEF SeesHangUp, Step, TypeOK, UpTypes, DownTypes, HandlerTypes, Busy, Resting
  <2> QED
    BY <1>2, <2>1 DEF TypeOK
<1>5. SessionOK(s)'
  BY <1>0, <1>1, <1>2, <1>3 DEF SessionOK, JobOK, HelloOK, CallOK, ModelOK
<1>6. \A q \in Sessions \ {s} : SameSession(q)
  BY <1>1, <1>2, <1>3 DEF SameSession
<1> QED
  BY <1>1, <1>2, <1>3, <1>4, <1>5, <1>6, OneSession

\* The handler's thread ends.
LEMMA EndedStep == ASSUME NEW s \in Sessions, IInv, Ended(s) PROVE IInv'
<1>0. TypeOK /\ SessionOK(s)
  BY DEF IInv
<1>1. /\ UNCHANGED <<clients, down, job, models, counter, procs, disk, lock, server>>
      /\ pc[s] = "ending"
  BY DEF Ended
<1>2. /\ ClientTypes' /\ TableTypes' /\ ProcTypes' /\ DiskTypes' /\ ServerTypes' /\ ProcsKept
      /\ client' = client /\ calls' = calls /\ wants' = wants
      /\ handles' = handles /\ desynced' = desynced
  BY <1>1, BetweenRequests
<1>3. /\ pc'[s] = "none" /\ up'[s] = <<>>
      /\ \A q \in Sessions \ {s} : pc'[q] = pc[q] /\ up'[q] = up[q]
  BY <1>0 DEF Ended, Step, TypeOK, HandlerTypes, UpTypes
<1>4. TypeOK'
  <2>1. UpTypes' /\ DownTypes'
    BY <1>0, <1>1 DEF Ended, TypeOK, UpTypes, DownTypes
  <2>2. HandlerTypes'
    BY <1>0, <1>1 DEF Ended, Step, TypeOK, HandlerTypes, Busy, Resting
  <2> QED
    BY <1>2, <2>1, <2>2 DEF TypeOK
<1>5. SessionOK(s)'
  <2>1. JobOK(s)'
    BY <1>3 DEF JobOK
  <2>2. HelloOK(s)'
    BY <1>0, <1>1, <1>2, <1>3 DEF SessionOK, HelloOK, Busy, Resting
  <2>3. CallOK(s)'
    BY <1>0, <1>1, <1>2, <1>3 DEF SessionOK, CallOK, Busy, Resting
  <2>4. ModelOK(s)'
    BY <1>0, <1>1, <1>2, <1>3 DEF SessionOK, ModelOK
  <2> QED
    BY <2>1, <2>2, <2>3, <2>4 DEF SessionOK
<1>6. \A q \in Sessions \ {s} : SameSession(q)
  BY <1>1, <1>2, <1>3 DEF SameSession
<1> QED
  BY <1>1, <1>2, <1>3, <1>4, <1>5, <1>6, OneSession

\* A runner leaves the table, and its process is told to end.
LEMMA EndClosesStep == ASSUME NEW s \in Sessions, IInv, EndCloses(s) PROVE IInv'
<1>0. TypeOK /\ SessionOK(s)
  BY DEF IInv
<1>1. /\ UNCHANGED <<clients, up, down, pc, job, counter, disk, lock, server>>
      /\ pc[s] = "ending"
  BY DEF EndCloses
<1>2. PICK h \in Handles : models[s][h] # None /\ CloseRunner(s, h)
  BY DEF EndCloses
<1>3. /\ models' = [models EXCEPT ![s][h] = None]
      /\ \/ procs' = procs
         \/ models[s][h].proc # 0 /\ procs' = Closed(models[s][h].proc)
  BY <1>2 DEF CloseRunner
<1>4. Shrinks(s) /\ \A q \in Sessions \ {s} : models'[q] = models[q]
  BY <1>0, <1>3 DEF Shrinks, TypeOK, TableTypes
<1>5. ProcTypes' /\ ProcsKept
  <2>1. CASE procs' = procs
    BY <2>1, Quiet
  <2>2. CASE models[s][h].proc # 0 /\ procs' = Closed(models[s][h].proc)
    <3>1. models[s][h].proc \in DOMAIN procs
      BY <1>0, <1>2, <2>2 DEF SessionOK, ModelOK
    <3> QED
      BY <1>0, <2>2, <3>1, ProcsWritten DEF Closed, TypeOK
  <2> QED
    BY <1>3, <2>1, <2>2
<1>6. /\ client' = client /\ calls' = calls /\ wants' = wants
      /\ handles' = handles /\ desynced' = desynced
  BY <1>1 DEF clients
<1>7. TypeOK'
  <2>1. ClientTypes' /\ UpTypes' /\ DownTypes' /\ DiskTypes' /\ ServerTypes'
    BY <1>0, <1>1 DEF TypeOK, ClientTypes, UpTypes, DownTypes, DiskTypes, ServerTypes,
                      clients, disk, server
  <2>2. HandlerTypes'
    BY <1>0, <1>1 DEF TypeOK, HandlerTypes, Busy
  <2>3. TableTypes'
    BY <1>0, <1>1, <1>3 DEF TypeOK, TableTypes
  <2> QED
    BY <1>5, <2>1, <2>2, <2>3 DEF TypeOK
<1>8. SessionOK(s)'
  <2>1. JobOK(s)' /\ HelloOK(s)' /\ CallOK(s)'
    BY <1>0, <1>1, <1>6 DEF SessionOK, JobOK, HelloOK, CallOK, Busy
  <2>2. \A k \in Handles : models'[s][k] # None =>
            /\ k <= counter[s]
            /\ models'[s][k].proc # 0 =>
                 /\ models'[s][k].proc \in DOMAIN procs'
                 /\ procs'[models'[s][k].proc].data = models'[s][k].data
    BY <1>0, <1>4, <1>5 DEF SessionOK, ModelOK, Shrinks, ProcsKept
  <2>3. \A k \in Handles : models'[s][k] # None => models'[s][k] = models[s][k]
    BY <1>4 DEF Shrinks
  <2>4. ModelOK(s)'
    BY <1>0, <1>1, <1>6, <2>2, <2>3 DEF SessionOK, ModelOK
  <2> QED
    BY <2>1, <2>4 DEF SessionOK
<1>9. \A q \in Sessions \ {s} : SameSession(q)
  BY <1>1, <1>4, <1>6 DEF SameSession
<1> QED
  BY <1>1, <1>5, <1>7, <1>8, <1>9, OneSession

\* The request at the head of the connection.
LEMMA TakeStep == ASSUME NEW s \in Sessions, IInv, Take(s) PROVE IInv'
<1> DEFINE m == Head(up[s])
           r == m.request
           data == IF r.op \in {"load", "once"} THEN Whole(r.data) ELSE None
           j == [id |-> m.id, request |-> r, proc |-> 0, at |-> 0, data |-> data]
           w == IF r.op \in {"load", "once"} THEN "make" ELSE r.op
           reply == [id |-> m.id, ok |-> TRUE, handle |-> None, data |-> None]
<1>0. TypeOK /\ HelloOK(s) /\ CallOK(s) /\ ModelOK(s)
  BY DEF IInv, SessionOK
<1>1. /\ UNCHANGED <<clients, models, counter, procs, disk, lock, server>>
      /\ pc[s] = "recv" /\ up[s] # <<>>
      /\ up' = [up EXCEPT ![s] = Tail(up[s])]
  BY DEF Take
<1>2. /\ ClientTypes' /\ TableTypes' /\ ProcTypes' /\ DiskTypes' /\ ServerTypes' /\ ProcsKept
      /\ client' = client /\ calls' = calls /\ wants' = wants
      /\ handles' = handles /\ desynced' = desynced
  BY <1>1, BetweenRequests
<1>3. /\ \/ /\ r.op = "huge" /\ Step(s, "ending") /\ job' = job /\ down' = down
         \/ /\ r.op = "close" /\ Post(s, reply) /\ Step(s, "ending") /\ job' = job
         \/ /\ r.op \notin {"huge", "close"} /\ job' = [job EXCEPT ![s] = j] /\ Step(s, w)
            /\ down' = down
  BY DEF Take
<1>4. up[s] \in Seq([id : Nat, request : AllRequests])
  BY <1>0, <1>1 DEF HelloOK
<1>5. /\ m \in [id : Nat, request : AllRequests]
      /\ Tail(up[s]) \in Seq([id : Nat, request : AllRequests])
      /\ Len(up[s]) = 1 => Tail(up[s]) = <<>>
  BY <1>1, <1>4, TailOK
<1>6. m.id \in Nat /\ r \in AllRequests
  <2> HIDE DEF m
  <2> QED
    BY <1>5
<1>7. /\ r.op \in Ops /\ (r.op \in {"load", "once"} => r.data \in Contents)
  BY <1>6, RequestFields
<1>8. data \in Data \union {None} /\ (r.op \in {"load", "once"} => data \in Data)
  BY <1>7, WholeIsData
<1>9. /\ j \in Jobs /\ reply \in Replies
      /\ j.request = r /\ j.id = m.id /\ j.at = 0 /\ j.data = data
  <2> HIDE DEF m, r, data
  <2> QED
    BY <1>6, <1>8 DEF Jobs, Replies
<1>10. r.op \notin {"huge", "close"} =>
        /\ w \in {"upload", "load_name", "run", "unload", "xdna", "bad", "make"}
        /\ w = "make" => r.op \in {"load", "once"}
        /\ w # "make" => w = r.op
  BY <1>7 DEF Ops
<1>11. /\ up'[s] = Tail(up[s])
       /\ pc'[s] = IF r.op \in {"huge", "close"} THEN "ending" ELSE w
       /\ r.op \notin {"huge", "close"} => job'[s] = j
       /\ \A q \in Sessions \ {s} : pc'[q] = pc[q] /\ job'[q] = job[q] /\ up'[q] = up[q]
  <2> HIDE DEF m, r, j, w, reply
  <2> QED
    BY <1>0, <1>1, <1>3 DEF Step, TypeOK, HandlerTypes, UpTypes
<1>12. /\ down' = [down EXCEPT ![s] = down'[s]]
       /\ down'[s] = IF r.op = "close" /\ Open(s) THEN Append(down[s], reply) ELSE down[s]
  <2> HIDE DEF m, r, j, w, reply
  <2> QED
    BY <1>0, <1>3 DEF Post, TypeOK, DownTypes
<1> HIDE DEF m, r, data, j, w, reply
<1>13. TypeOK'
  <2>1. UpTypes'
    <3>1. Tail(up[s]) \in Seq([id : Nat, request : AllRequests]
                              \union [op : {"hello"}, key : {"right", "wrong"}])
      BY <1>1, <1>4, <1>5, TailOK, <1>0 DEF TypeOK, UpTypes
    <3> QED
      BY <1>0, <1>1, <3>1 DEF TypeOK, UpTypes
  <2>2. DownTypes'
    <3>1. down'[s] \in Seq(Replies \union [ok : BOOLEAN])
      BY <1>0, <1>9, <1>12 DEF TypeOK, DownTypes
    <3> QED
      BY <1>0, <1>12, <3>1 DEF TypeOK, DownTypes
  <2>3. HandlerTypes'
    <3>1. CASE r.op \in {"huge", "close"}
      BY <1>0, <1>3, <3>1 DEF Step, TypeOK, HandlerTypes, Busy, Resting
    <3>2. CASE r.op \notin {"huge", "close"}
      BY <1>0, <1>3, <1>9, <1>10, <3>2 DEF Step, TypeOK, HandlerTypes, Busy, Resting
    <3> QED
      BY <3>1, <3>2
  <2> QED
    BY <1>2, <2>1, <2>2, <2>3 DEF TypeOK
<1>14. \A q \in Sessions \ {s} : SameSession(q)
  <2>1. \A q \in Sessions \ {s} : down'[q] = down[q]
    BY <1>0, <1>12 DEF TypeOK, DownTypes
  <2> QED
    BY <1>1, <1>2, <1>11, <2>1 DEF SameSession
<1>15. JobOK(s)'
  BY <1>8, <1>9, <1>10, <1>11 DEF JobOK
<1>16. pc'[s] \notin {"hello", "none", "recv", "write", "starting", "send", "running", "xdna_held"}
  BY <1>10, <1>11
<1>17. HelloOK(s)'
  <2>1. client[s] \notin {"new", "hello"}
    BY <1>0, <1>1 DEF HelloOK
  <2>2. client[s] \in {"idle", "waiting"} => down'[s] \in Seq(Replies)
    BY <1>0, <1>9, <1>12 DEF HelloOK
  <2> QED
    BY <1>2, <1>5, <1>11, <1>16, <2>1, <2>2 DEF HelloOK
<1>18. ~desynced[s] /\ client[s] = "waiting" =>
        /\ r = wants[s] /\ m.id = calls[s] /\ down[s] = <<>> /\ Tail(up[s]) = <<>>
        /\ wants[s] \in AllRequests
  <2>1. ~Busy(s)
    BY <1>1 DEF Busy, Resting
  <2>2. ~desynced[s] /\ client[s] = "waiting" =>
        /\ up[s] = <<[id |-> calls[s], request |-> wants[s]]>> /\ down[s] = <<>>
        /\ wants[s] \in AllRequests
    BY <1>0, <1>1, <2>1 DEF CallOK
  <2>3. up[s] = <<[id |-> calls[s], request |-> wants[s]]>> =>
            m = [id |-> calls[s], request |-> wants[s]] /\ Tail(up[s]) = <<>>
    BY DEF m
  <2> QED
    BY <2>2, <2>3 DEF r
<1>19. ~desynced[s] /\ client[s] = "waiting" =>
        down'[s] = IF r.op = "close" THEN <<reply>> ELSE <<>>
  <2>1. Append(<<>>, reply) = <<reply>>
    OBVIOUS
  <2> QED
    BY <1>12, <1>18, <2>1 DEF Open
<1>20. CallOK(s)'
  <2>1. ~desynced[s] => client[s] # "idle"
    BY <1>0, <1>1 DEF CallOK
  <2>2. Len(<<reply>>) = 1 /\ Head(<<reply>>) = reply /\ reply.id = m.id
    BY DEF reply
  <2>3. CASE r.op = "close"
    BY <1>2, <1>11, <1>18, <1>19, <2>1, <2>2, <2>3 DEF CallOK, Busy, Resting
  <2>4. CASE r.op # "close"
    BY <1>2, <1>9, <1>11, <1>18, <1>19, <2>1, <2>4 DEF CallOK, Busy, Resting
  <2> QED
    BY <2>3, <2>4
<1>21. ModelOK(s)'
  BY <1>0, <1>1, <1>2, <1>16, <1>18, <1>19 DEF ModelOK
<1>22. SessionOK(s)' /\ pc[s] # "write" /\ pc'[s] # "write" /\ UNCHANGED disk
  BY <1>1, <1>15, <1>16, <1>17, <1>20, <1>21 DEF SessionOK
<1> QED
  BY <1>2, <1>13, <1>14, <1>22, OneSession

-----------------------------------------------------------------------------
(* Uploads *)

\* Another file.
SameFile(k) == files'[k] = files[k] /\ last'[k] = last[k] /\ (clash'[k] <=> clash[k])

\* A step of one session's upload of the file n.
LEMMA UploadStep ==
    ASSUME NEW s \in Sessions, NEW n \in Names, IInv, TypeOK', SessionOK(s)', ProcsKept,
           \A q \in Sessions \ {s} : SameSession(q),
           pc[s] \in {"upload", "write"} /\ job[s].request.name = n,
           pc'[s] = "write" => job'[s].request = job[s].request,
           \A k \in Names \ {n} : SameFile(k),
           FileOK(n)'
    PROVE  IInv'
<1>1. \A q \in Sessions : SessionOK(q)'
  BY Frame DEF IInv
<1>2. ASSUME NEW k \in Names \ {n}
      PROVE  FileOK(k)'
  <2>1. Writing(k)' = Writing(k) /\ \A q \in Writing(k) : job'[q] = job[q]
    BY DEF Writing, SameSession
  <2>2. FileOK(k) /\ SameFile(k)
    BY DEF IInv
  <2>3. IF last'[k] = None THEN Writing(k)' = {} ELSE files'[k] \in Data
    BY <2>1, <2>2 DEF FileOK, SameFile
  <2>4. ASSUME last'[k] # None, ~clash'[k]
        PROVE  \/ Writing(k)' = {} /\ files'[k] = Whole(last'[k])
               \/ \E q \in Sessions :
                    /\ Writing(k)' = {q} /\ job'[q].request.data = last'[k]
                    /\ files'[k] = [i \in 1..job'[q].at |-> last'[k]]
    <3>1. CASE Writing(k) = {} /\ files[k] = Whole(last[k])
      BY <2>1, <2>2, <3>1 DEF SameFile
    <3>2. ASSUME NEW q \in Sessions, Writing(k) = {q}, job[q].request.data = last[k],
                 files[k] = [i \in 1..job[q].at |-> last[k]]
          PROVE  /\ Writing(k)' = {q} /\ job'[q].request.data = last'[k]
                 /\ files'[k] = [i \in 1..job'[q].at |-> last'[k]]
      <4>1. job'[q] = job[q]
        BY <2>1, <3>2
      <4> QED
        BY <2>1, <2>2, <3>2, <4>1 DEF SameFile
    <3> QED
      BY <2>2, <2>4, <3>1, <3>2 DEF FileOK, SameFile
  <2> QED
    BY <2>3, <2>4 DEF FileOK
<1> QED
  BY <1>1, <1>2 DEF IInv

\* The upload a session is at.
LEMMA UploadFacts ==
    ASSUME NEW s \in Sessions, IInv, pc[s] \in {"upload", "write"}
    PROVE  /\ Busy(s) /\ job[s] \in Jobs /\ job[s].request.op = "upload" /\ job[s].at \in Nat
           /\ job[s].request.name \in Names /\ job[s].request.data \in Contents
           /\ Size[job[s].request.data] \in Nat
<1>1. Busy(s) /\ job[s] \in Jobs /\ job[s].request.op = "upload"
  BY DEF Busy, Resting, IInv, SessionOK, JobOK, TypeOK, HandlerTypes
<1>2. job[s].at \in Nat /\ job[s].request \in AllRequests
  BY <1>1 DEF Jobs
<1> QED
  BY <1>1, <1>2, RequestFields, WholeIsData

\* upload truncates the file.
LEMMA OpenFileStep == ASSUME NEW s \in Sessions, IInv, OpenFile(s) PROVE IInv'
<1>0. TypeOK /\ SessionOK(s) /\ pc[s] = "upload"
  BY DEF IInv, OpenFile
<1>n. PICK n \in Names, c \in Contents : n = job[s].request.name /\ c = job[s].request.data
  BY <1>0, UploadFacts
<1>1. /\ UNCHANGED <<clients, up, down, job, models, counter, procs, lock, server>>
      /\ pc[s] = "upload" /\ Step(s, "write")
      /\ files' = [files EXCEPT ![n] = <<>>] /\ last' = [last EXCEPT ![n] = c]
      /\ clash' = [clash EXCEPT ![n] = Writing(n) # {}]
  BY <1>n DEF OpenFile
<1>2. /\ Busy(s) /\ job[s] \in Jobs /\ job[s].request.op = "upload"
      /\ job[s].at = 0 /\ Size[c] \in Nat /\ Size[c] > 0
  BY <1>0, <1>1, UploadFacts, WholeIsData DEF SessionOK, JobOK
<1>3. pc'[s] = "write" /\ \A q \in Sessions \ {s} : pc'[q] = pc[q]
  BY <1>0, <1>1 DEF Step, TypeOK, HandlerTypes
<1>4. TypeOK' /\ ProcsKept
  <2>1. ClientTypes' /\ UpTypes' /\ DownTypes' /\ TableTypes' /\ ProcTypes' /\ ServerTypes'
    BY <1>0, <1>1 DEF TypeOK, ClientTypes, UpTypes, DownTypes, TableTypes, ProcTypes,
                      ServerTypes, clients, server
  <2>2. HandlerTypes'
    BY <1>0, <1>1, <1>2 DEF Step, TypeOK, HandlerTypes, Busy, Resting
  <2>3. <<>> \in Data
    BY DEF Data
  <2>4. DiskTypes'
    BY <1>0, <1>1, <1>2, <2>3 DEF TypeOK, DiskTypes
  <2> QED
    BY <1>1, <2>1, <2>2, <2>4 DEF TypeOK, ProcsKept
<1>5. /\ client' = client /\ calls' = calls /\ wants' = wants
      /\ handles' = handles /\ desynced' = desynced
  BY <1>1 DEF clients
<1>6. SessionOK(s)'
  <2>1. JobOK(s)'
    BY <1>n, <1>1, <1>2, <1>3 DEF JobOK
  <2>2. HelloOK(s)'
    BY <1>0, <1>1, <1>3, <1>5 DEF SessionOK, HelloOK, Busy, Resting
  <2>3. CallOK(s)'
    BY <1>0, <1>1, <1>2, <1>3, <1>5 DEF SessionOK, CallOK, Busy, Resting
  <2>4. ModelOK(s)'
    BY <1>0, <1>1, <1>3, <1>5 DEF SessionOK, ModelOK
  <2> QED
    BY <2>1, <2>2, <2>3, <2>4 DEF SessionOK
<1>7. \A q \in Sessions \ {s} : SameSession(q)
  BY <1>1, <1>3, <1>5 DEF SameSession
<1>8. FileOK(n)'
  <2>1. /\ files'[n] = <<>> /\ last'[n] = c /\ clash'[n] = (Writing(n) # {})
    BY <1>0, <1>1, <1>2 DEF TypeOK, DiskTypes
  <2>2. Writing(n)' = Writing(n) \union {s}
    BY <1>n, <1>1, <1>3 DEF Writing
  <2>3. c # None
    BY <1>2, NoneFresh
  <2>4. [i \in 1..0 |-> c] = <<>>
    OBVIOUS
  <2>5. ~clash'[n] => /\ Writing(n)' = {s} /\ job'[s].request.data = last'[n]
                      /\ files'[n] = [i \in 1..job'[s].at |-> last'[n]]
    BY <1>n, <1>1, <1>2, <2>1, <2>2, <2>4
  <2>6. last'[n] # None /\ files'[n] \in Data
    BY <2>1, <2>3 DEF Data
  <2> QED
    BY <2>5, <2>6 DEF FileOK
<1>9. \A k \in Names \ {n} : SameFile(k)
  BY <1>0, <1>1 DEF TypeOK, DiskTypes, SameFile
<1>10. job[s].request.name = n /\ job'[s].request = job[s].request
  BY <1>n, <1>1
<1> QED
  BY <1>1, <1>2, <1>4, <1>6, <1>7, <1>8, <1>9, <1>10, UploadStep

\* The answer of an upload.
LEMMA UploadAnswer ==
    ASSUME NEW s \in Sessions, IInv, pc[s] = "write", NEW ok \in BOOLEAN,
           Answer(s, ok, None, None),
           UNCHANGED <<clients, up, models, counter, procs, lock, server>>, DiskTypes'
    PROVE  /\ TypeOK' /\ SessionOK(s)' /\ ProcsKept /\ pc'[s] = "recv"
           /\ \A q \in Sessions \ {s} : SameSession(q)
<1>0. TypeOK
  BY DEF IInv
<1>1. Busy(s) /\ job[s].request.op = "upload"
  BY UploadFacts
<1>2. None \in Nat \union {None} /\ None \in Data \union {None}
  OBVIOUS
<1>3. /\ DownTypes' /\ HandlerTypes' /\ pc'[s] = "recv"
      /\ \A q \in Sessions \ {s} : pc'[q] = pc[q] /\ job'[q] = job[q] /\ down'[q] = down[q]
  BY <1>0, <1>1, <1>2, AnswerTypes
<1>4. ClientTypes' /\ UpTypes' /\ TableTypes' /\ ProcTypes' /\ ServerTypes'
  BY <1>0 DEF TypeOK, ClientTypes, UpTypes, TableTypes, ProcTypes, ServerTypes, clients, server
<1>5. ProcsKept /\ Shrinks(s)
  BY DEF ProcsKept, Shrinks
<1>6. SessionOK(s)'
  <2>1. UNCHANGED <<clients, up, counter>>
    OBVIOUS
  <2> QED
    BY <1>1, <1>2, <1>5, <2>1, AnswerKeeps
<1>7. \A q \in Sessions \ {s} : SameSession(q)
  BY <1>3 DEF SameSession, clients
<1> QED
  BY <1>3, <1>4, <1>5, <1>6, <1>7 DEF TypeOK

\* upload cannot write.
LEMMA WriteFailsStep == ASSUME NEW s \in Sessions, IInv, WriteFails(s) PROVE IInv'
<1>0. TypeOK /\ pc[s] = "write"
  BY DEF IInv, WriteFails
<1>n. PICK n \in Names : n = job[s].request.name
  BY <1>0, UploadFacts
<1>1. /\ UNCHANGED <<clients, up, models, counter, procs, lock, server>>
      /\ files' = files /\ last' = last /\ clash' = [clash EXCEPT ![n] = TRUE]
      /\ Answer(s, FALSE, None, None)
  BY <1>n DEF WriteFails, Fail
<1>2. DiskTypes'
  BY <1>0, <1>1 DEF TypeOK, DiskTypes
<1>3. /\ TypeOK' /\ SessionOK(s)' /\ ProcsKept /\ pc'[s] = "recv"
      /\ \A q \in Sessions \ {s} : SameSession(q)
  <2>1. FALSE \in BOOLEAN
    OBVIOUS
  <2> QED
    BY <1>0, <1>1, <1>2, <2>1, UploadAnswer
<1>4. \A k \in Names \ {n} : SameFile(k)
  BY <1>0, <1>1 DEF TypeOK, DiskTypes, SameFile
<1>5. FileOK(n)'
  <2>1. clash'[n]
    BY <1>0, <1>1 DEF TypeOK, DiskTypes
  <2>2. last[n] # None /\ files[n] \in Data
    <3>1. s \in Writing(n)
      BY <1>0, <1>n DEF Writing
    <3>2. FileOK(n)
      BY DEF IInv
    <3> QED
      BY <3>1, <3>2 DEF FileOK
  <2> QED
    BY <1>1, <2>1, <2>2 DEF FileOK
<1> QED
  BY <1>0, <1>n, <1>3, <1>4, <1>5, UploadStep

\* upload writes the next unit.
LEMMA WriteUnitStep == ASSUME NEW s \in Sessions, IInv, WriteUnit(s) PROVE IInv'
<1>0. TypeOK /\ SessionOK(s) /\ pc[s] = "write" /\ Busy(s) /\ job[s] \in Jobs
  BY UploadFacts DEF IInv, WriteUnit
<1>n. PICK n \in Names, c \in Contents, a \in Nat :
        n = job[s].request.name /\ c = job[s].request.data /\ a = job[s].at
  BY <1>0, UploadFacts
<1> DEFINE end == IF a + 1 > Len(files[n]) THEN a + 1 ELSE Len(files[n])
           new == [i \in 1..end |-> IF i = a + 1 THEN c
                                    ELSE IF i \in DOMAIN files[n] THEN files[n][i] ELSE None]
           j == [job[s] EXCEPT !.at = a + 1]
<1>1. /\ UNCHANGED <<clients, up, models, counter, procs, lock, server>>
      /\ last' = last /\ clash' = clash /\ files' = [files EXCEPT ![n] = new]
      /\ \/ /\ a + 1 < Size[c] /\ job' = [job EXCEPT ![s] = j] /\ pc' = pc /\ down' = down
         \/ /\ ~(a + 1 < Size[c]) /\ Answer(s, TRUE, None, None)
  BY <1>n DEF WriteUnit
<1>2. /\ s \in Writing(n) /\ FileOK(n) /\ last[n] # None /\ files[n] \in Data
  <2>1. s \in Writing(n) /\ FileOK(n)
    BY <1>0, <1>n DEF Writing, IInv
  <2> QED
    BY <2>1 DEF FileOK
<1>3. Size[c] \in Nat /\ a < Size[c]
  BY <1>0, <1>n, WholeIsData DEF SessionOK, JobOK
<1>4. new \in Data
  <2>1. Len(files[n]) \in Nat /\ \A i \in DOMAIN files[n] : files[n][i] \in Contents \union {None}
    BY <1>2 DEF Data
  <2>2. end \in Nat
    BY <2>1
  <2> HIDE DEF end
  <2>3. new \in [1..end -> Contents \union {None}]
    BY <2>1
  <2> QED
    BY <2>2, <2>3 DEF Data
<1>5. ~clash[n] => /\ Writing(n) = {s} /\ last[n] = c
                   /\ new = [i \in 1..(a + 1) |-> c]
  <2>1. ASSUME ~clash[n]
        PROVE  Writing(n) = {s} /\ last[n] = c /\ files[n] = [i \in 1..a |-> c]
    BY <1>n, <1>2, <2>1 DEF FileOK
  <2>2. ASSUME ~clash[n]
        PROVE  new = [i \in 1..(a + 1) |-> c]
    <3>1. files[n] = [i \in 1..a |-> c]
      BY <2>1, <2>2
    <3>2. Len(files[n]) = a /\ DOMAIN files[n] = 1..a
      BY <3>1
    <3>3. end = a + 1
      BY <3>2
    <3>4. \A i \in 1..(a + 1) : new[i] = c
      BY <3>1, <3>2, <3>3
    <3> QED
      BY <3>3, <3>4
  <2> QED
    BY <2>1, <2>2
<1> HIDE DEF end, new
<1>6. /\ files'[n] = new /\ DiskTypes' /\ \A k \in Names \ {n} : SameFile(k)
  BY <1>0, <1>1, <1>4 DEF TypeOK, DiskTypes, SameFile
<1>7. CASE /\ a + 1 < Size[c] /\ job' = [job EXCEPT ![s] = j] /\ pc' = pc /\ down' = down
  <2>1. /\ j \in Jobs /\ j.id = job[s].id /\ j.request = job[s].request /\ j.at = a + 1
        /\ j.proc = job[s].proc /\ j.data = job[s].data
    BY <1>0, <1>n DEF Jobs
  <2> HIDE DEF j
  <2>2. job'[s] = j /\ \A q \in Sessions \ {s} : job'[q] = job[q]
    BY <1>0, <1>7 DEF TypeOK, HandlerTypes
  <2>3. TypeOK' /\ ProcsKept
    <3>1. ClientTypes' /\ UpTypes' /\ DownTypes' /\ TableTypes' /\ ProcTypes' /\ ServerTypes'
      BY <1>0, <1>1, <1>7 DEF TypeOK, ClientTypes, UpTypes, DownTypes, TableTypes, ProcTypes,
                              ServerTypes, clients, server
    <3>2. HandlerTypes'
      BY <1>0, <1>7, <2>1 DEF TypeOK, HandlerTypes, Busy
    <3> QED
      BY <1>1, <1>6, <3>1, <3>2 DEF TypeOK, ProcsKept
  <2>4. /\ client' = client /\ calls' = calls /\ wants' = wants
        /\ handles' = handles /\ desynced' = desynced
    BY <1>1 DEF clients
  <2>5. SessionOK(s)'
    <3>1. JobOK(s)'
      BY <1>0, <1>1, <1>n, <1>7, <2>1, <2>2 DEF SessionOK, JobOK
    <3>2. HelloOK(s)'
      BY <1>0, <1>1, <1>7, <2>4 DEF SessionOK, HelloOK, Busy
    <3>3. CallOK(s)'
      BY <1>0, <1>1, <1>7, <2>1, <2>2, <2>4 DEF SessionOK, CallOK, Busy
    <3>4. ModelOK(s)'
      BY <1>0, <1>1, <1>7, <2>4 DEF SessionOK, ModelOK
    <3> QED
      BY <3>1, <3>2, <3>3, <3>4 DEF SessionOK
  <2>6. \A q \in Sessions \ {s} : SameSession(q)
    BY <1>1, <1>7, <2>2, <2>4 DEF SameSession
  <2>7. FileOK(n)'
    <3>1. Writing(n)' = Writing(n)
      BY <1>n, <1>7, <2>1, <2>2 DEF Writing
    <3>2. ~clash'[n] =>
            /\ Writing(n)' = {s} /\ job'[s].request.data = last'[n]
            /\ files'[n] = [i \in 1..job'[s].at |-> last'[n]]
      BY <1>n, <1>1, <1>5, <1>6, <2>1, <2>2, <3>1
    <3>3. last'[n] # None /\ files'[n] \in Data
      BY <1>1, <1>2, <1>4, <1>6
    <3> QED
      BY <3>2, <3>3 DEF FileOK
  <2> QED
    BY <1>0, <1>n, <1>6, <2>1, <2>2, <2>3, <2>5, <2>6, <2>7, UploadStep
<1>8. CASE ~(a + 1 < Size[c]) /\ Answer(s, TRUE, None, None)
  <2>1. /\ TypeOK' /\ SessionOK(s)' /\ ProcsKept /\ pc'[s] = "recv"
        /\ \A q \in Sessions \ {s} : SameSession(q)
    <3>1. TRUE \in BOOLEAN
      OBVIOUS
    <3> QED
      BY <1>0, <1>1, <1>6, <1>8, <3>1, UploadAnswer
  <2>2. a + 1 = Size[c]
    BY <1>3, <1>8
  <2>3. FileOK(n)'
    <3>1. Writing(n)' = Writing(n) \ {s}
      BY <2>1 DEF Writing, SameSession
    <3>2. ~clash'[n] => Writing(n)' = {} /\ files'[n] = Whole(last'[n])
      BY <1>1, <1>5, <1>6, <2>2, <3>1 DEF Whole
    <3>3. last'[n] # None /\ files'[n] \in Data
      BY <1>1, <1>2, <1>4, <1>6
    <3> QED
      BY <3>2, <3>3 DEF FileOK
  <2> QED
    BY <1>0, <1>n, <1>6, <2>1, <2>3, UploadStep
<1> QED
  BY <1>1, <1>7, <1>8

-----------------------------------------------------------------------------
(* The processes and the server *)

\* A step of processes alone.
LEMMA ProcsStep ==
    ASSUME IInv, ProcTypes', ProcsKept, UNCHANGED <<clients, up, down, handlers, disk, lock, server>>
    PROVE  IInv'
<1>0. TypeOK
  BY DEF IInv
<1>1. TypeOK'
  <2>1. ClientTypes' /\ UpTypes' /\ DownTypes' /\ TableTypes' /\ DiskTypes' /\ ServerTypes'
    BY <1>0 DEF TypeOK, ClientTypes, UpTypes, DownTypes, TableTypes, DiskTypes, ServerTypes,
                clients, handlers, disk, server
  <2>2. HandlerTypes'
    BY <1>0 DEF TypeOK, HandlerTypes, handlers, Busy
  <2> QED
    BY <2>1, <2>2 DEF TypeOK
<1>2. \A q \in Sessions : SameSession(q)
  BY DEF SameSession, clients, handlers
<1>3. \A q \in Sessions : SessionOK(q)'
  BY <1>0, <1>2, Frame DEF IInv
<1>4. ASSUME NEW n \in Names
      PROVE  FileOK(n)'
  <2>1. Writing(n)' = Writing(n) /\ \A q \in Writing(n) : job'[q] = job[q]
    BY DEF Writing, handlers
  <2> QED
    BY <2>1, FileFrame DEF IInv
<1> QED
  BY <1>1, <1>3, <1>4 DEF IInv

\* A worker process takes a step or dies.
LEMMA WorkStep ==
    ASSUME NEW p \in DOMAIN procs, IInv, Work(p) \/ WorkerDies(p)
    PROVE  IInv'
<1>1. UNCHANGED <<clients, up, down, handlers, disk, lock, server>>
  BY DEF Work, WorkerStarts, WorkerRuns, WorkerOrphaned, WorkerDies
<1>2. procs \in Seq(Runners) /\ ProcTypes
  BY DEF IInv, TypeOK, ProcTypes, Runners
<1>3. procs[p] \in Runners
  BY <1>2
<1>4. procs[p].out \in {"ok", "error", None}
  BY <1>3 DEF Runners
<1>5. PICK state \in {"starting", "idle", "busy", "gone"}, out \in {"ok", "error", None} :
        procs' = [procs EXCEPT ![p].state = state, ![p].out = out]
  BY <1>4 DEF Work, WorkerStarts, WorkerRuns, WorkerOrphaned, WorkerDies, Set
<1>6. ProcTypes' /\ ProcsKept
  BY <1>2, <1>5, ProcsWritten
<1> QED
  BY <1>1, <1>6, ProcsStep

\* The server is killed.
LEMMA CrashStep == ASSUME IInv, Crash PROVE IInv'
<1>0. TypeOK
  BY DEF IInv
<1>1. /\ UNCHANGED <<clients, down, counter, procs, files, last>>
      /\ pc' = [s \in Sessions |-> "none"] /\ job' = [s \in Sessions |-> None]
      /\ models' = [s \in Sessions |-> [h \in Handles |-> None]]
      /\ up' = [s \in Sessions |-> <<>>]
      /\ clash' = [n \in Names |-> clash[n] \/ Writing(n) # {}]
  BY DEF Crash
<1>2. TypeOK'
  <2>1. ClientTypes' /\ DownTypes' /\ ProcTypes'
    BY <1>0, <1>1 DEF TypeOK, ClientTypes, DownTypes, ProcTypes, clients
  <2>2. UpTypes'
    <3>1. <<>> \in Seq([id : Nat, request : AllRequests]
                       \union [op : {"hello"}, key : {"right", "wrong"}])
      OBVIOUS
    <3> QED
      BY <1>1, <3>1 DEF UpTypes
  <2>3. HandlerTypes'
    BY <1>1 DEF HandlerTypes, Busy, Resting
  <2>4. TableTypes'
    BY <1>0, <1>1 DEF TypeOK, TableTypes
  <2>5. DiskTypes'
    BY <1>0, <1>1 DEF TypeOK, DiskTypes
  <2>6. ServerTypes'
    <3>1. /\ lock' = None /\ alive' = FALSE /\ crashes' = crashes + 1
          /\ killed' = killed \union {s \in Sessions : pc[s] # "none"}
      BY DEF Crash
    <3>2. crashes \in Nat /\ killed \subseteq Sessions
      BY <1>0 DEF TypeOK, ServerTypes
    <3>3. crashes' \in Nat /\ lock' \in Sessions \union {None}
      BY <3>1, <3>2
    <3>4. killed' \subseteq Sessions
      BY <3>1, <3>2
    <3> QED
      BY <3>1, <3>3, <3>4 DEF ServerTypes
  <2> QED
    BY <2>1, <2>2, <2>3, <2>4, <2>5, <2>6 DEF TypeOK
<1>3. ASSUME NEW s \in Sessions
      PROVE  SessionOK(s)'
  <2>0. SessionOK(s)
    BY DEF IInv
  <2>1. /\ pc'[s] = "none" /\ up'[s] = <<>> /\ \A h \in Handles : models'[s][h] = None
        /\ down' = down /\ counter' = counter /\ ~Busy(s)'
    BY <1>1 DEF Busy, Resting
  <2>2. /\ client' = client /\ calls' = calls /\ wants' = wants
        /\ handles' = handles /\ desynced' = desynced
    BY <1>1 DEF clients
  <2>3. JobOK(s)'
    BY <2>1 DEF JobOK
  <2>4. HelloOK(s)'
    <3>1. client[s] = "hello" => Len(down[s]) <= 1
      BY <2>0 DEF SessionOK, HelloOK
    <3>2. <<>> \in Seq([id : Nat, request : AllRequests])
      OBVIOUS
    <3> QED
      BY <2>0, <2>1, <2>2, <3>1, <3>2 DEF SessionOK, HelloOK
  <2>5. CallOK(s)'
    BY <2>0, <2>1, <2>2 DEF SessionOK, CallOK
  <2>6. ModelOK(s)'
    BY <2>0, <2>1, <2>2 DEF SessionOK, ModelOK
  <2> QED
    BY <2>3, <2>4, <2>5, <2>6 DEF SessionOK
<1>4. ASSUME NEW n \in Names
      PROVE  FileOK(n)'
  <2>1. Writing(n)' = {}
    BY <1>1 DEF Writing
  <2>2. FileOK(n) /\ files'[n] = files[n] /\ last'[n] = last[n]
    BY <1>1 DEF IInv
  <2>3. ~clash'[n] => ~clash[n] /\ Writing(n) = {}
    BY <1>1
  <2>4. last'[n] # None /\ ~clash'[n] => files'[n] = Whole(last'[n])
    BY <2>2, <2>3 DEF FileOK
  <2> QED
    BY <2>1, <2>2, <2>4 DEF FileOK
<1> QED
  BY <1>2, <1>3, <1>4 DEF IInv

\* The server is started again.
LEMMA RestartStep == ASSUME IInv, Restart PROVE IInv'
<1>0. TypeOK
  BY DEF IInv
<1>1. /\ UNCHANGED <<clients, up, down, handlers, procs, disk, lock, crashes, killed>>
      /\ alive' = TRUE
  BY DEF Restart
<1>2. TypeOK'
  <2>1. ClientTypes' /\ UpTypes' /\ DownTypes' /\ TableTypes' /\ ProcTypes' /\ DiskTypes'
    BY <1>0, <1>1 DEF TypeOK, ClientTypes, UpTypes, DownTypes, TableTypes, ProcTypes,
                      DiskTypes, clients, handlers, disk
  <2>2. HandlerTypes' /\ ServerTypes'
    BY <1>0, <1>1 DEF TypeOK, HandlerTypes, ServerTypes, handlers, Busy
  <2> QED
    BY <2>1, <2>2 DEF TypeOK
<1>3. \A q \in Sessions : SessionOK(q)'
  <2>1. ProcsKept /\ \A q \in Sessions : SameSession(q)
    BY <1>1 DEF SameSession, clients, handlers, ProcsKept
  <2> QED
    BY <1>0, <2>1, Frame DEF IInv
<1>4. ASSUME NEW n \in Names
      PROVE  FileOK(n)'
  <2>1. Writing(n)' = Writing(n) /\ \A q \in Writing(n) : job'[q] = job[q]
    BY <1>1 DEF Writing, handlers
  <2> QED
    BY <1>1, <2>1, FileFrame DEF IInv
<1> QED
  BY <1>2, <1>3, <1>4 DEF IInv

-----------------------------------------------------------------------------
(* The theorems *)

\* The invariant holds at the start ...
LEMMA InitOK == Init => IInv
<1> SUFFICES ASSUME Init PROVE IInv
  OBVIOUS
<1>1. TypeOK
  <2>1. ClientTypes /\ TableTypes /\ DiskTypes /\ ServerTypes
    BY DEF Init, ClientTypes, TableTypes, DiskTypes, ServerTypes
  <2>2. UpTypes /\ DownTypes
    BY DEF Init, UpTypes, DownTypes
  <2>3. ProcTypes
    BY DEF Init, ProcTypes
  <2>4. HandlerTypes
    BY DEF Init, HandlerTypes, Busy, Resting
  <2> QED
    BY <2>1, <2>2, <2>3, <2>4 DEF TypeOK
<1>2. ASSUME NEW s \in Sessions
      PROVE  SessionOK(s)
  <2>1. /\ pc[s] = "none" /\ up[s] = <<>> /\ down[s] = <<>> /\ client[s] = "new"
        /\ \A h \in Handles : models[s][h] = None /\ handles[s][h] = None
    BY DEF Init
  <2>2. <<>> \in Seq([id : Nat, request : AllRequests])
    OBVIOUS
  <2> QED
    BY <2>1, <2>2 DEF SessionOK, JobOK, HelloOK, CallOK, ModelOK
<1>3. \A n \in Names : FileOK(n)
  BY DEF Init, FileOK, Writing
<1> QED
  BY <1>1, <1>2, <1>3 DEF IInv

\* ... and every step keeps it.
LEMMA NextOK == IInv /\ [Next]_vars => IInv'
<1> SUFFICES ASSUME IInv, [Next]_vars PROVE IInv'
  OBVIOUS
<1>1. ASSUME NEW s \in Sessions,
             Connect(s) \/ Call(s) \/ Interrupted(s) \/ HangUp(s) \/ Listen(s)
      PROVE  IInv'
  BY <1>1, ConnectStep, CallStep, InterruptedStep, HangUpStep, WelcomedStep, ReturnStep,
     ConnectionLostStep DEF Listen
<1>2. ASSUME NEW s \in Sessions, Serve(s) \/ XdnaLock(s)
      PROVE  IInv'
  BY <1>2, HelloStep, TakeStep, SeesHangUpStep, BadStep, OpenFileStep, WriteUnitStep,
     WriteFailsStep, ReadFileStep, MakeInProcessStep, MakeProxyStep, StartedStep, RunStep,
     SendStep, ReceivedStep, UnloadStep, XdnaDoneStep, EndClosesStep, EndedStep, XdnaLockStep
     DEF Serve
<1>3. CASE UNCHANGED vars
  <2>1. ProcTypes' /\ ProcsKept
    BY <1>3, Quiet DEF vars
  <2> QED
    BY <1>3, <2>1, ProcsStep DEF vars
<1> QED
  BY <1>1, <1>2, <1>3, WorkStep, CrashStep, RestartStep DEF Next

\* The invariant holds in every state the sessions reach.
THEOREM SessionInvariant == Spec => []IInv
  BY InitOK, NextOK, PTL DEF Spec

\* The clients, the connections, the handlers of server.py, the worker
\* processes and the work directory keep their types, for every number of
\* sessions, files and calls.
THEOREM SessionTypes == Spec => []TypeOK
<1>1. IInv => TypeOK
  BY DEF IInv
<1> QED
  BY <1>1, SessionInvariant, PTL

\* Session._call: a client that never gave up a call reads the answer of the
\* call it made.
THEOREM SessionAnswersMatch == Spec => []AnswersMatch
<1>1. IInv => AnswersMatch
  <2> SUFFICES ASSUME IInv, NEW s \in Sessions, client[s] = "waiting", ~desynced[s],
                      NEW i \in DOMAIN down[s]
               PROVE  down[s][i].id = calls[s]
    BY DEF AnswersMatch
  <2>1. down[s] \in Seq(Replies)
    BY DEF IInv, SessionOK, HelloOK
  <2>2. down[s] = <<>> \/ (Len(down[s]) = 1 /\ Head(down[s]).id = calls[s])
    BY DEF IInv, SessionOK, CallOK
  <2>3. Len(down[s]) = 1 /\ i = 1 /\ Head(down[s]) = down[s][1]
    BY <2>1, <2>2
  <2> QED
    BY <2>2, <2>3
<1> QED
  BY <1>1, SessionInvariant, PTL

\* A run that succeeds ran the model its handle was given out for.
THEOREM SessionRightModel == Spec => []RightModel
<1>1. IInv => RightModel
  BY DEF IInv, SessionOK, ModelOK, RightModel
<1> QED
  BY <1>1, SessionInvariant, PTL

\* upload: a file that no upload is writing is whole, unless two uploads of it
\* met, the last one failed or the server died in it.
THEOREM SessionWholeFiles == Spec => []WholeUnlessClash
<1>1. IInv => WholeUnlessClash
  BY DEF IInv, FileOK, WholeUnlessClash
<1> QED
  BY <1>1, SessionInvariant, PTL

-----------------------------------------------------------------------------
(* What ends a session, and who owns a worker process *)

\* How a connection that no crash cut off comes to its end: refused in the
\* handshake, by a message over the limit, or by close, which is answered.
LostOK(s) ==
    s \notin killed /\ ~desynced[s] =>
        /\ client[s] = "hello" =>
            pc[s] = "hello" \/ (down[s] # <<>> /\ (Head(down[s]).ok => pc[s] = "recv"))
        /\ client[s] = "idle" => pc[s] = "recv"
        /\ client[s] = "waiting" /\ pc[s] \in {"ending", "none"} =>
            \/ wants[s].op = "huge" /\ down[s] = <<>>
            \/ wants[s].op = "close" /\ down[s] # <<>>
        /\ client[s] = "lost" => wants[s] # None /\ wants[s].op = "huge"

\* The calls of a client that the handler has not answered.
Pending(s) == Len(up[s]) + IF Busy(s) THEN 1 ELSE 0

\* A handle is given out per call at most, so that there are enough of them.
CountOK(s) ==
    /\ calls[s] <= plan[s].calls
    /\ counter[s] + (IF Busy(s) THEN 1 ELSE 0) <= calls[s]
    /\ pc[s] \notin {"hello", "ending"} => counter[s] + Pending(s) <= calls[s]

\* A request holds a worker only while it starts it or calls it, and a run
\* calls the worker of the model in the table.
CallerOK(s) ==
    /\ ~Busy(s) => job[s] = None
    /\ Busy(s) /\ pc[s] \notin {"starting", "send", "running"} => job[s].proc = 0
    /\ pc[s] \in {"send", "running"} /\ job[s].request.op = "run" =>
        /\ models[s][job[s].request.handle] # None
        /\ models[s][job[s].request.handle].proc = job[s].proc
    /\ pc[s] = "none" => \A h \in Handles : models[s][h] = None

\* A model of the table or the request under way will close the worker.
Owned(p) ==
    LET s == procs[p].owner
    IN  \/ \E h \in Handles : models[s][h] # None /\ models[s][h].proc = p
        \/ Busy(s) /\ job[s].proc = p

WorkerOK(p) == procs[p].state # "gone" /\ procs[p].owner \notin killed => Owned(p)

OwnInv == /\ \A s \in Sessions : LostOK(s) /\ CountOK(s) /\ CallerOK(s)
          /\ \A p \in DOMAIN procs : WorkerOK(p)

-----------------------------------------------------------------------------

\* An answer puts the handler back to recv and leaves the others alone.
LEMMA AnswerShape ==
    ASSUME NEW s \in Sessions, TypeOK, NEW ok, NEW handle, NEW data,
           Answer(s, ok, handle, data)
    PROVE  /\ pc'[s] = "recv" /\ job'[s] = None
           /\ \A q \in Sessions \ {s} : pc'[q] = pc[q] /\ job'[q] = job[q] /\ down'[q] = down[q]
<1>1. down \in [Sessions -> Seq(Replies \union [ok : BOOLEAN])]
  BY DEF TypeOK, DownTypes
<1>2. \A q \in Sessions \ {s} : down'[q] = down[q]
  BY <1>1 DEF Answer, Post
<1>3. pc' = [pc EXCEPT ![s] = "recv"] /\ job' = [job EXCEPT ![s] = None]
  BY DEF Answer, Step
<1> QED
  BY <1>2, <1>3 DEF TypeOK, HandlerTypes

\* A step of the handler that is not at its end.
LEMMA StepShape ==
    ASSUME NEW s \in Sessions, TypeOK, NEW where, Step(s, where)
    PROVE  pc'[s] = where /\ \A q \in Sessions \ {s} : pc'[q] = pc[q]
  BY DEF Step, TypeOK, HandlerTypes

\* The steps of a handler with a request.
Dispatch(s) == \/ Bad(s) \/ OpenFile(s) \/ WriteUnit(s) \/ WriteFails(s) \/ ReadFile(s)
               \/ MakeInProcess(s) \/ MakeProxy(s) \/ Started(s) \/ Run(s) \/ Send(s)
               \/ Received(s) \/ Unload(s) \/ XdnaDone(s) \/ XdnaLock(s)

\* The request is answered, with a handle or without one ...
Answered(s) ==
    /\ pc'[s] = "recv" /\ job'[s] = None
    /\ \A q \in Sessions \ {s} : pc'[q] = pc[q] /\ job'[q] = job[q] /\ down'[q] = down[q]
    /\ \/ counter' = counter
       \/ counter' = [counter EXCEPT ![s] = counter[s] + 1]

\* ... or goes on.
GoesOn(s) ==
    /\ pc'[s] \notin Resting /\ down' = down /\ counter' = counter
    /\ \A q \in Sessions \ {s} : pc'[q] = pc[q] /\ job'[q] = job[q]

\* One or the other is what becomes of a request in every step.
LEMMA DispatchShape ==
    ASSUME NEW s \in Sessions, IInv, Dispatch(s)
    PROVE  /\ Busy(s) /\ UNCHANGED <<clients, up, server>>
           /\ Answered(s) \/ GoesOn(s)
<1>0. TypeOK
  BY DEF IInv
<1>1. ASSUME Bad(s) \/ WriteFails(s) \/ Unload(s) \/ XdnaDone(s) PROVE Answered(s)
  BY <1>0, <1>1, AnswerShape DEF Bad, WriteFails, Unload, XdnaDone, Fail, Answered
<1>2. ASSUME OpenFile(s) PROVE GoesOn(s)
  BY <1>0, <1>2, StepShape DEF OpenFile, GoesOn, Resting
<1>3. ASSUME WriteUnit(s) PROVE Answered(s) \/ GoesOn(s)
  <2>1. CASE Answer(s, TRUE, None, None)
    BY <1>0, <1>3, <2>1, AnswerShape DEF WriteUnit, Answered
  <2>2. CASE job' = [job EXCEPT ![s].at = job[s].at + 1] /\ UNCHANGED <<pc, down>>
    <3>1. \A q \in Sessions \ {s} : pc'[q] = pc[q] /\ job'[q] = job[q]
      BY <1>0, <2>2 DEF TypeOK, HandlerTypes
    <3> QED
      BY <1>3, <2>2, <3>1 DEF WriteUnit, GoesOn, Resting
  <2> QED
    BY <1>3, <2>1, <2>2 DEF WriteUnit
<1>4. ASSUME ReadFile(s) PROVE Answered(s) \/ GoesOn(s)
  <2>1. CASE Fail(s)
    BY <1>0, <1>4, <2>1, AnswerShape DEF ReadFile, Fail, Answered
  <2>2. CASE /\ job' = [job EXCEPT ![s].data = files[job[s].request.name]]
             /\ Step(s, "make") /\ UNCHANGED down
    <3>1. \A q \in Sessions \ {s} : job'[q] = job[q]
      BY <1>0, <2>2 DEF TypeOK, HandlerTypes
    <3> QED
      BY <1>0, <1>4, <2>2, <3>1, StepShape DEF ReadFile, GoesOn, Resting
  <2> QED
    BY <1>4, <2>1, <2>2 DEF ReadFile
<1>5. ASSUME NEW proc, Register(s, proc) PROVE Answered(s)
  BY <1>0, <1>5, AnswerShape DEF Register, Answered
<1>6. ASSUME MakeInProcess(s) PROVE Answered(s)
  <2>1. CASE Register(s, 0)
    BY <1>5, <2>1
  <2>2. CASE (Fail(s) \/ Answer(s, TRUE, None, job[s].data)) /\ UNCHANGED <<models, counter>>
    BY <1>0, <2>2, AnswerShape DEF Fail, Answered
  <2> QED
    BY <1>6, <2>1, <2>2 DEF MakeInProcess
<1>7. ASSUME MakeProxy(s) PROVE Answered(s) \/ GoesOn(s)
  <2>1. CASE Fail(s)
    BY <1>0, <1>7, <2>1, AnswerShape DEF MakeProxy, Fail, Answered
  <2>2. CASE /\ job' = [job EXCEPT ![s].proc = Len(procs) + 1]
             /\ Step(s, "starting") /\ UNCHANGED down
    <3>1. \A q \in Sessions \ {s} : job'[q] = job[q]
      BY <1>0, <2>2 DEF TypeOK, HandlerTypes
    <3> QED
      BY <1>0, <1>7, <2>2, <3>1, StepShape DEF MakeProxy, GoesOn, Resting
  <2> QED
    BY <1>7, <2>1, <2>2 DEF MakeProxy
<1>8. ASSUME Started(s) PROVE Answered(s) \/ GoesOn(s)
  <2>1. CASE Register(s, job[s].proc)
    BY <1>5, <2>1
  <2>2. CASE Fail(s) /\ UNCHANGED <<models, counter>>
    BY <1>0, <2>2, AnswerShape DEF Fail, Answered
  <2>3. CASE Step(s, "send") /\ UNCHANGED <<job, down, models, counter>>
    BY <1>0, <2>3, StepShape DEF GoesOn, Resting
  <2> QED
    BY <1>8, <2>1, <2>2, <2>3 DEF Started
<1>9. ASSUME Run(s) PROVE Answered(s) \/ GoesOn(s)
  <2> DEFINE runner == models[s][job[s].request.handle]
  <2>1. CASE Fail(s) \/ Answer(s, TRUE, None, runner.data)
    BY <1>0, <1>9, <2>1, AnswerShape DEF Run, Fail, Answered
  <2>2. CASE /\ job' = [job EXCEPT ![s].proc = runner.proc]
             /\ Step(s, "send") /\ UNCHANGED down
    <3>1. \A q \in Sessions \ {s} : job'[q] = job[q]
      BY <1>0, <2>2 DEF TypeOK, HandlerTypes
    <3> QED
      BY <1>0, <1>9, <2>2, <3>1, StepShape DEF Run, GoesOn, Resting
  <2> QED
    BY <1>9, <2>1, <2>2 DEF Run
<1>10. ASSUME Send(s) PROVE Answered(s) \/ GoesOn(s)
  <2>1. CASE Fail(s)
    BY <1>0, <1>10, <2>1, AnswerShape DEF Send, Fail, Answered
  <2>2. CASE Step(s, "running") /\ UNCHANGED <<job, down>>
    BY <1>0, <1>10, <2>2, StepShape DEF Send, GoesOn, Resting
  <2> QED
    BY <1>10, <2>1, <2>2 DEF Send
<1>11. ASSUME Received(s) PROVE Answered(s)
  BY <1>0, <1>11, AnswerShape DEF Received, Fail, Answered
<1>12. ASSUME XdnaLock(s) PROVE GoesOn(s)
  BY <1>0, <1>12, StepShape DEF XdnaLock, GoesOn, Resting
<1>13. Busy(s) /\ UNCHANGED <<clients, up, server>>
  BY DEF Dispatch, Bad, OpenFile, WriteUnit, WriteFails, ReadFile, MakeInProcess, MakeProxy,
         Started, Run, Send, Received, Unload, XdnaDone, XdnaLock, Busy, Resting
<1> QED
  BY <1>1, <1>2, <1>3, <1>4, <1>6, <1>7, <1>8, <1>9, <1>10, <1>11, <1>12, <1>13 DEF Dispatch

-----------------------------------------------------------------------------
(* What ends a session *)

\* What the end of a session depends on stays as it is.
LEMMA LostFrame ==
    ASSUME NEW q \in Sessions, LostOK(q), q \in killed => q \in killed',
           client'[q] = client[q], wants'[q] = wants[q], desynced'[q] = desynced[q],
           pc'[q] = pc[q], down'[q] = down[q]
    PROVE  LostOK(q)'
  BY DEF LostOK

\* A request that is served, whether it succeeds or not, ends nothing.
LEMMA LostDispatch ==
    ASSUME NEW s \in Sessions, IInv, Dispatch(s), \A q \in Sessions : LostOK(q)
    PROVE  \A q \in Sessions : LostOK(q)'
<1>1. /\ Busy(s) /\ UNCHANGED <<clients, up, server>>
      /\ Answered(s) \/ GoesOn(s)
  BY DispatchShape
<1>2. /\ UNCHANGED <<client, wants, desynced, killed>> /\ pc'[s] \notin {"ending", "none"}
      /\ \A q \in Sessions \ {s} : pc'[q] = pc[q] /\ down'[q] = down[q]
  BY <1>1 DEF clients, server, Answered, GoesOn, Resting
<1>3. pc[s] \notin Resting /\ HelloOK(s) /\ CallOK(s)
  BY <1>1 DEF Busy, IInv, SessionOK
<1>4. client[s] # "hello" /\ (~desynced[s] => client[s] # "idle")
  BY <1>1, <1>3 DEF HelloOK, CallOK, Resting
<1>5. LostOK(s)'
  BY <1>2, <1>4 DEF LostOK
<1> QED
  BY <1>2, <1>5, LostFrame

\* The handshake, the top of the loop and the end of it.
LEMMA LostServe ==
    ASSUME NEW s \in Sessions, IInv, \A q \in Sessions : LostOK(q),
           Hello(s) \/ Take(s) \/ SeesHangUp(s) \/ EndCloses(s) \/ Ended(s)
    PROVE  \A q \in Sessions : LostOK(q)'
<1>0. TypeOK /\ HelloOK(s) /\ CallOK(s) /\ LostOK(s)
  BY DEF IInv, SessionOK
<1>1. UNCHANGED <<client, wants, desynced, killed>>
  BY DEF Hello, Take, SeesHangUp, EndCloses, Ended, clients, server
<1>2. ASSUME NEW reply, Post(s, reply)
      PROVE  /\ \A q \in Sessions \ {s} : down'[q] = down[q]
             /\ down'[s] = IF Open(s) THEN Append(down[s], reply) ELSE down[s]
  BY <1>0, <1>2 DEF Post, TypeOK, DownTypes
<1>2a. \A reply : Append(<<>>, reply) = <<reply>> /\ <<reply>> # <<>> /\ Head(<<reply>>) = reply
  OBVIOUS
<1>3. CASE Hello(s)
  <2>1. PICK ok \in BOOLEAN : Post(s, [ok |-> ok]) /\ Step(s, IF ok THEN "recv" ELSE "ending")
    BY <1>3 DEF Hello
  <2>2. /\ \A q \in Sessions \ {s} : pc'[q] = pc[q] /\ down'[q] = down[q]
        /\ pc'[s] = IF ok THEN "recv" ELSE "ending"
    BY <1>0, <1>2, <2>1, StepShape
  <2>3. client[s] \in {"hello", "over"} /\ down[s] = <<>>
    BY <1>0, <1>3 DEF Hello, HelloOK
  <2>4. client[s] = "hello" => down'[s] = <<[ok |-> ok]>>
    BY <1>2, <1>2a, <2>1, <2>3 DEF Open
  <2>5. LostOK(s)'
    BY <1>1, <1>2a, <2>2, <2>3, <2>4 DEF LostOK
  <2> QED
    BY <1>1, <2>2, <2>5, LostFrame
<1>4. CASE Take(s)
  <2> DEFINE m == Head(up[s])
             op == m.request.op
             reply == [id |-> m.id, ok |-> TRUE, handle |-> None, data |-> None]
  <2>1. pc[s] = "recv" /\ up[s] # <<>>
    BY <1>4 DEF Take
  <2>2. ~desynced[s] /\ client[s] = "waiting" => m.request = wants[s] /\ down[s] = <<>>
    <3>1. CASE ~desynced[s] /\ client[s] = "waiting"
      <4>1. down[s] = <<>> /\ up[s] = <<[id |-> calls[s], request |-> wants[s]]>>
        BY <1>0, <2>1, <3>1 DEF CallOK
      <4> QED
        BY <4>1
    <3> QED
      BY <3>1
  <2>3. client[s] # "hello" /\ (~desynced[s] => client[s] # "idle")
    BY <1>0, <2>1 DEF HelloOK, CallOK
  <2>4. CASE op = "huge" /\ Step(s, "ending") /\ UNCHANGED <<job, down>>
    <3>1. pc'[s] = "ending" /\ \A q \in Sessions \ {s} : pc'[q] = pc[q]
      BY <1>0, <2>4, StepShape
    <3>2. LostOK(s)'
      BY <1>0, <1>1, <2>2, <2>3, <2>4, <3>1 DEF LostOK
    <3> QED
      BY <1>1, <2>4, <3>1, <3>2, LostFrame
  <2>5. CASE op = "close" /\ Post(s, reply) /\ Step(s, "ending")
    <3>1. /\ pc'[s] = "ending"
          /\ \A q \in Sessions \ {s} : pc'[q] = pc[q] /\ down'[q] = down[q]
      BY <1>0, <1>2, <2>5, StepShape
    <3>2. ~desynced[s] /\ client[s] = "waiting" => down'[s] # <<>>
      BY <1>2, <1>2a, <2>2, <2>5 DEF Open
    <3>3. LostOK(s)'
      BY <1>0, <1>1, <2>2, <2>3, <2>5, <3>1, <3>2 DEF LostOK
    <3> QED
      BY <1>1, <3>1, <3>3, LostFrame
  <2>6. CASE /\ op \notin {"huge", "close"} /\ UNCHANGED down
             /\ Step(s, IF op \in {"load", "once"} THEN "make" ELSE op)
    <3>1. pc'[s] \in {"make", op} /\ \A q \in Sessions \ {s} : pc'[q] = pc[q]
      BY <1>0, <2>6, StepShape
    <3>2. op \in Ops
      <4>1. up[s] \in Seq([id : Nat, request : AllRequests])
        BY <1>0, <2>1 DEF HelloOK
      <4>2. m \in [id : Nat, request : AllRequests]
        BY <2>1, <4>1, TailOK
      <4> QED
        BY <4>2, RequestFields
    <3>3. pc'[s] \notin {"ending", "none"}
      BY <3>1, <3>2 DEF Ops
    <3>4. LostOK(s)'
      BY <1>0, <1>1, <2>3, <3>3 DEF LostOK
    <3> QED
      BY <1>1, <2>6, <3>1, <3>4, LostFrame
  <2> QED
    BY <1>4, <2>4, <2>5, <2>6 DEF Take
<1>5. CASE SeesHangUp(s)
  <2>1. ~Open(s) /\ down' = down /\ \A q \in Sessions \ {s} : pc'[q] = pc[q]
    BY <1>0, <1>5, StepShape DEF SeesHangUp
  <2>2. LostOK(s)'
    BY <1>0, <1>1, <2>1 DEF LostOK, Open
  <2> QED
    BY <1>1, <2>1, <2>2, LostFrame
<1>6. CASE EndCloses(s)
  BY <1>1, <1>6, LostFrame DEF EndCloses
<1>7. CASE Ended(s)
  <2>1. /\ pc[s] = "ending" /\ pc'[s] = "none" /\ down' = down
        /\ \A q \in Sessions \ {s} : pc'[q] = pc[q]
    BY <1>0, <1>7, StepShape DEF Ended
  <2>2. LostOK(s)'
    BY <1>0, <1>1, <2>1 DEF LostOK
  <2> QED
    BY <1>1, <2>1, <2>2, LostFrame
<1> QED
  BY <1>3, <1>4, <1>5, <1>6, <1>7

\* The client's own steps.
LEMMA LostClient ==
    ASSUME NEW s \in Sessions, IInv, \A q \in Sessions : LostOK(q),
           \/ Connect(s) \/ Welcomed(s) \/ Call(s) \/ Return(s) \/ Interrupted(s)
           \/ HangUp(s) \/ ConnectionLost(s)
    PROVE  \A q \in Sessions : LostOK(q)'
<1>0. /\ TypeOK /\ HelloOK(s) /\ CallOK(s) /\ LostOK(s)
      /\ client \in [Sessions -> {"new", "hello", "idle", "waiting", "over", "lost"}]
      /\ wants \in [Sessions -> AllRequests \union {None}]
      /\ desynced \in [Sessions -> BOOLEAN]
      /\ DOMAIN pc = Sessions /\ DOMAIN down = Sessions
  BY DEF IInv, SessionOK, TypeOK, ClientTypes, HandlerTypes, DownTypes
<1>1. /\ killed' = killed
      /\ \A q \in Sessions \ {s} :
            /\ client'[q] = client[q] /\ wants'[q] = wants[q] /\ desynced'[q] = desynced[q]
            /\ pc'[q] = pc[q] /\ down'[q] = down[q]
  BY <1>0 DEF Connect, Welcomed, Call, Return, Interrupted, HangUp, ConnectionLost,
              handlers, server
<1> SUFFICES LostOK(s)'
  BY <1>1, LostFrame
<1>2. CASE Connect(s)
  BY <1>0, <1>2 DEF Connect, LostOK
<1>3. CASE Welcomed(s)
  <2>1. /\ client[s] = "hello" /\ down[s] # <<>> /\ UNCHANGED <<pc, killed, desynced>>
        /\ client'[s] = IF Head(down[s]).ok THEN "idle" ELSE "over"
    BY <1>0, <1>3 DEF Welcomed, handlers, server
  <2>2. pc[s] # "hello"
    BY <1>0, <2>1 DEF HelloOK
  <2> QED
    BY <1>0, <2>1, <2>2 DEF LostOK
<1>4. CASE Call(s)
  <2>1. /\ client[s] = "idle" /\ client'[s] = "waiting" /\ UNCHANGED <<pc, killed, desynced>>
    BY <1>0, <1>4 DEF Call, handlers, server
  <2> QED
    BY <1>0, <2>1 DEF LostOK
<1>5. CASE Return(s)
  <2>1. /\ client[s] = "waiting" /\ down[s] # <<>> /\ UNCHANGED <<pc, killed, desynced>>
        /\ client'[s] = IF wants[s].op = "close" THEN "over" ELSE "idle"
    BY <1>0, <1>5 DEF Return, handlers, server
  <2>2. ~desynced[s] => ~Busy(s) /\ pc[s] # "hello"
    BY <1>0, <2>1 DEF CallOK, HelloOK
  <2>3. ~desynced[s] /\ s \notin killed /\ wants[s].op # "close" => pc[s] = "recv"
    BY <1>0, <2>1, <2>2 DEF LostOK, Busy, Resting
  <2> QED
    BY <1>0, <2>1, <2>3 DEF LostOK
<1>6. CASE Interrupted(s)
  BY <1>0, <1>6 DEF Interrupted, LostOK
<1>7. CASE HangUp(s)
  <2>1. client'[s] = "over"
    BY <1>0, <1>7 DEF HangUp
  <2> QED
    BY <2>1 DEF LostOK
<1>8. CASE ConnectionLost(s)
  <2>1. /\ client[s] \in {"hello", "waiting"} /\ down[s] = <<>> /\ pc[s] = "none"
        /\ UNCHANGED <<pc, killed, desynced, wants, down>>
        /\ client'[s] = IF client[s] = "waiting" /\ wants[s].op = "close" THEN "over" ELSE "lost"
    BY <1>0, <1>8 DEF ConnectionLost, handlers, server
  <2>2. s \notin killed /\ ~desynced[s] => /\ client[s] = "waiting" /\ wants[s].op = "huge"
                                          /\ wants[s] # None
    BY <1>0, <2>1, NoneIsAbsence DEF LostOK, CallOK
  <2> QED
    BY <2>1, <2>2 DEF LostOK
<1> QED
  BY <1>2, <1>3, <1>4, <1>5, <1>6, <1>7, <1>8

\* A crash and the steps of the workers.
LEMMA LostServer ==
    ASSUME IInv, \A q \in Sessions : LostOK(q),
           \/ Crash \/ Restart \/ UNCHANGED vars
           \/ \E p \in DOMAIN procs : Work(p) \/ WorkerDies(p)
    PROVE  \A q \in Sessions : LostOK(q)'
<1>1. CASE Crash
  <2> SUFFICES ASSUME NEW q \in Sessions PROVE LostOK(q)'
    OBVIOUS
  <2>1. /\ UNCHANGED <<client, wants, desynced, down>> /\ pc'[q] = "none"
        /\ killed' = killed \union {s \in Sessions : pc[s] # "none"}
    BY <1>1 DEF Crash, clients
  <2>2. CASE pc[q] = "none"
    BY <2>1, <2>2, LostFrame
  <2>3. CASE pc[q] # "none"
    BY <2>1, <2>3 DEF LostOK
  <2> QED
    BY <2>2, <2>3
<1>2. CASE ~Crash
  <2>1. UNCHANGED <<client, wants, desynced, pc, down, killed>>
    BY <1>2 DEF Restart, vars, Work, WorkerStarts, WorkerRuns, WorkerOrphaned, WorkerDies,
                clients, handlers, server
  <2> QED
    BY <2>1, LostFrame
<1> QED
  BY <1>1, <1>2

\* Every step keeps it.
LEMMA LostNext ==
    ASSUME IInv, \A q \in Sessions : LostOK(q), [Next]_vars
    PROVE  \A q \in Sessions : LostOK(q)'
<1>1. ASSUME NEW s \in Sessions, Serve(s) \/ XdnaLock(s) PROVE \A q \in Sessions : LostOK(q)'
  BY <1>1, LostDispatch, LostServe DEF Serve, Dispatch
<1>2. ASSUME NEW s \in Sessions,
             Connect(s) \/ Call(s) \/ Interrupted(s) \/ HangUp(s) \/ Listen(s)
      PROVE  \A q \in Sessions : LostOK(q)'
  BY <1>2, LostClient DEF Listen
<1> QED
  BY <1>1, <1>2, LostServer DEF Next

-----------------------------------------------------------------------------
(* Handles are never short *)

\* The steps of one session, seen by the count of its calls.
LEMMA CountFrame ==
    ASSUME NEW q \in Sessions, CountOK(q), plan' = plan, calls'[q] = calls[q],
           counter'[q] = counter[q], up'[q] = up[q], pc'[q] = pc[q]
    PROVE  CountOK(q)'
  BY DEF CountOK, Pending, Busy

\* The numbers that are counted.
LEMMA CountTypes ==
    ASSUME NEW s \in Sessions, IInv
    PROVE  calls[s] \in Nat /\ counter[s] \in Nat /\ Len(up[s]) \in Nat /\ plan[s].calls \in Nat
           /\ plan[s].calls <= MaxCalls
<1>1. calls[s] \in Nat /\ counter[s] \in Nat
  BY DEF IInv, TypeOK, ClientTypes, TableTypes
<1>2. Len(up[s]) \in Nat
  BY DEF IInv, TypeOK, UpTypes
<1>3. plan[s] \in [ops : SUBSET Ops, runtimes : SUBSET Runtimes, calls : 0..MaxCalls]
  BY PlansType DEF IInv, TypeOK, ClientTypes
<1>4. plan[s].calls \in 0..MaxCalls
  BY <1>3
<1>5. MaxCalls \in Nat
  BY BoundsType
<1> QED
  BY <1>1, <1>2, <1>4, <1>5

\* A request that is answered gives out one handle at most.
LEMMA CountDispatch ==
    ASSUME NEW s \in Sessions, IInv, Dispatch(s), \A q \in Sessions : CountOK(q)
    PROVE  \A q \in Sessions : CountOK(q)'
<1>1. /\ Busy(s) /\ UNCHANGED <<clients, up, server>>
      /\ Answered(s) \/ GoesOn(s)
  BY DispatchShape
<1>2. counter \in [Sessions -> Nat]
  BY DEF IInv, TypeOK, TableTypes
<1>3. /\ plan' = plan /\ calls' = calls /\ up' = up
      /\ \A q \in Sessions \ {s} : pc'[q] = pc[q] /\ counter'[q] = counter[q]
      /\ \/ Busy(s)' /\ counter'[s] = counter[s]
         \/ pc'[s] = "recv" /\ ~Busy(s)' /\ counter'[s] \in {counter[s], counter[s] + 1}
  BY <1>1, <1>2 DEF clients, Answered, GoesOn, Busy, Resting
<1>4. calls[s] \in Nat /\ counter[s] \in Nat /\ Len(up[s]) \in Nat
  BY CountTypes
<1>5. /\ calls[s] <= plan[s].calls /\ counter[s] + 1 <= calls[s]
      /\ counter[s] + (Len(up[s]) + 1) <= calls[s]
  BY <1>1 DEF CountOK, Pending, Busy, Resting
<1>6. CountOK(s)'
  <2>1. CASE Busy(s)' /\ counter'[s] = counter[s]
    BY <1>3, <1>4, <1>5, <2>1 DEF CountOK, Pending
  <2>2. CASE ~Busy(s)' /\ counter'[s] \in {counter[s], counter[s] + 1}
    <3>1. counter'[s] + 0 <= calls[s] /\ counter'[s] + (Len(up[s]) + 0) <= calls[s]
      BY <1>4, <1>5, <2>2
    <3> QED
      BY <1>3, <1>5, <2>2, <3>1 DEF CountOK, Pending
  <2> QED
    BY <1>3, <2>1, <2>2
<1> QED
  BY <1>3, <1>6, CountFrame

\* The rest of the handler.
LEMMA CountServe ==
    ASSUME NEW s \in Sessions, IInv, \A q \in Sessions : CountOK(q),
           Hello(s) \/ Take(s) \/ SeesHangUp(s) \/ EndCloses(s) \/ Ended(s)
    PROVE  \A q \in Sessions : CountOK(q)'
<1>0. TypeOK /\ HelloOK(s) /\ CountOK(s) /\ DOMAIN up = Sessions
  BY DEF IInv, SessionOK, TypeOK, UpTypes
<1>1. UNCHANGED <<plan, calls, counter>>
  BY DEF Hello, Take, SeesHangUp, EndCloses, Ended, clients
<1>2. \A q \in Sessions \ {s} : pc'[q] = pc[q] /\ up'[q] = up[q]
  BY <1>0, StepShape DEF Hello, Take, SeesHangUp, EndCloses, Ended
<1>3. calls[s] \in Nat /\ counter[s] \in Nat /\ Len(up[s]) \in Nat
  BY CountTypes
<1> SUFFICES CountOK(s)'
  BY <1>1, <1>2, CountFrame
<1>4. CASE Hello(s)
  <2>1. pc[s] = "hello" /\ pc'[s] \in {"recv", "ending"} /\ up'[s] = Tail(up[s])
    BY <1>0, <1>4, StepShape DEF Hello
  <2>2. up'[s] = <<>>
    <3>1. PICK m : up[s] = <<m>>
      BY <1>0, <2>1 DEF HelloOK
    <3> QED
      BY <2>1, <3>1
  <2>3. Len(up'[s]) = 0 /\ ~Busy(s) /\ ~Busy(s)'
    BY <2>1, <2>2 DEF Busy, Resting
  <2> QED
    BY <1>0, <1>1, <1>3, <2>3 DEF CountOK, Pending
<1>5. CASE Take(s)
  <2>1. pc[s] = "recv" /\ up[s] # <<>> /\ up'[s] = Tail(up[s])
    BY <1>0, <1>5 DEF Take
  <2>2. Len(up[s]) > 0 /\ Len(up'[s]) = Len(up[s]) - 1
    BY <1>0, <2>1 DEF TypeOK, UpTypes
  <2>3. ~Busy(s) /\ counter[s] + Len(up[s]) <= calls[s] /\ calls[s] <= plan[s].calls
    BY <1>0, <1>3, <2>1 DEF CountOK, Pending, Busy, Resting
  <2>4. /\ counter[s] + 0 <= calls[s] /\ counter[s] + 1 <= calls[s]
        /\ counter[s] + (Len(up'[s]) + 0) <= calls[s]
        /\ counter[s] + (Len(up'[s]) + 1) <= calls[s]
    BY <1>3, <2>2, <2>3
  <2> QED
    BY <1>1, <2>3, <2>4 DEF CountOK, Pending
<1>6. CASE SeesHangUp(s)
  <2>1. pc'[s] = "ending" /\ ~Busy(s) /\ ~Busy(s)'
    BY <1>0, <1>6, StepShape DEF SeesHangUp, Busy, Resting
  <2> QED
    BY <1>0, <1>1, <2>1 DEF CountOK
<1>7. CASE EndCloses(s)
  BY <1>0, <1>1, <1>7, CountFrame DEF EndCloses
<1>8. CASE Ended(s)
  <2>1. pc[s] = "ending" /\ pc'[s] = "none" /\ Len(up'[s]) = 0 /\ ~Busy(s) /\ ~Busy(s)'
    BY <1>0, <1>8, StepShape DEF Ended, Busy, Resting
  <2> QED
    BY <1>0, <1>1, <1>3, <2>1 DEF CountOK, Pending
<1> QED
  BY <1>4, <1>5, <1>6, <1>7, <1>8

\* The clients, the server process and its workers.
LEMMA CountOther ==
    ASSUME IInv, \A q \in Sessions : CountOK(q),
           \/ \E s \in Sessions :
                \/ Connect(s) \/ Welcomed(s) \/ Call(s) \/ Return(s) \/ Interrupted(s)
                \/ HangUp(s) \/ ConnectionLost(s)
           \/ Crash \/ Restart \/ UNCHANGED vars
           \/ \E p \in DOMAIN procs : Work(p) \/ WorkerDies(p)
    PROVE  \A q \in Sessions : CountOK(q)'
<1>0. /\ TypeOK /\ DOMAIN up = Sessions /\ DOMAIN pc = Sessions /\ calls \in [Sessions -> Nat]
      /\ \A s \in Sessions : /\ calls[s] \in Nat /\ counter[s] \in Nat /\ Len(up[s]) \in Nat
                             /\ plan[s].calls \in Nat
  BY CountTypes DEF IInv, TypeOK, UpTypes, HandlerTypes, ClientTypes
<1>1. ASSUME NEW s \in Sessions, Connect(s) PROVE \A q \in Sessions : CountOK(q)'
  <2>1. /\ UNCHANGED <<plan, calls, counter>> /\ pc'[s] = "hello"
        /\ \A q \in Sessions \ {s} : pc'[q] = pc[q] /\ up'[q] = up[q]
    BY <1>0, <1>1 DEF Connect
  <2>2. ~Busy(s)'
    BY <2>1 DEF Busy, Resting
  <2>3. CountOK(s)'
    BY <1>0, <2>1, <2>2 DEF CountOK
  <2> QED
    BY <2>1, <2>3, CountFrame
<1>2. ASSUME NEW s \in Sessions, Call(s) PROVE \A q \in Sessions : CountOK(q)'
  <2>1. /\ UNCHANGED <<plan, counter, pc>> /\ calls'[s] = calls[s] + 1
        /\ calls[s] < plan[s].calls
        /\ \A q \in Sessions \ {s} : calls'[q] = calls[q] /\ up'[q] = up[q]
    BY <1>0, <1>2 DEF Call, handlers
  <2>2. Len(up'[s]) = Len(up[s]) + 1
    <3>1. PICK m : up' = [up EXCEPT ![s] = Append(up[s], m)]
      BY <1>2 DEF Call
    <3>2. up'[s] = Append(up[s], m)
      BY <1>0, <3>1
    <3> QED
      BY <1>0, <3>2 DEF TypeOK, UpTypes
  <2>3. Busy(s)' <=> Busy(s)
    BY <2>1 DEF Busy
  <2>4. CountOK(s)'
    BY <1>0, <2>1, <2>2, <2>3 DEF CountOK, Pending
  <2> QED
    BY <2>1, <2>4, CountFrame
<1>3. CASE Crash
  <2>1. /\ UNCHANGED <<plan, calls, counter>>
        /\ \A q \in Sessions : pc'[q] = "none" /\ up'[q] = <<>> /\ Len(up'[q]) = 0
    BY <1>3 DEF Crash, clients
  <2>2. \A q \in Sessions : ~Busy(q)'
    BY <2>1 DEF Busy, Resting
  <2>3. ASSUME NEW q \in Sessions PROVE CountOK(q)'
    <3>1. counter[q] + 0 <= calls[q] /\ counter[q] + (0 + 0) <= calls[q]
      BY <1>0 DEF CountOK
    <3> QED
      BY <2>1, <2>2, <3>1 DEF CountOK, Pending
  <2> QED
    BY <2>3
<1>4. ASSUME UNCHANGED <<plan, calls, counter, pc, up>> PROVE \A q \in Sessions : CountOK(q)'
  BY <1>4, CountFrame
<1>5. ASSUME NEW s \in Sessions,
             Welcomed(s) \/ Return(s) \/ Interrupted(s) \/ HangUp(s) \/ ConnectionLost(s)
      PROVE  \A q \in Sessions : CountOK(q)'
  BY <1>4, <1>5 DEF Welcomed, Return, Interrupted, HangUp, ConnectionLost, handlers
<1>6. ASSUME NEW p \in DOMAIN procs, Work(p) \/ WorkerDies(p)
      PROVE  \A q \in Sessions : CountOK(q)'
  BY <1>4, <1>6 DEF Work, WorkerStarts, WorkerRuns, WorkerOrphaned, WorkerDies, clients, handlers
<1>7. CASE Restart \/ UNCHANGED vars
  BY <1>4, <1>7 DEF Restart, vars, clients, handlers
<1> QED
  BY <1>1, <1>2, <1>3, <1>5, <1>6, <1>7

\* Every step keeps the count.
LEMMA CountNext ==
    ASSUME IInv, \A q \in Sessions : CountOK(q), [Next]_vars
    PROVE  \A q \in Sessions : CountOK(q)'
<1>1. ASSUME NEW s \in Sessions, Serve(s) \/ XdnaLock(s) PROVE \A q \in Sessions : CountOK(q)'
  BY <1>1, CountDispatch, CountServe DEF Serve, Dispatch
<1> QED
  BY <1>1, CountOther DEF Next, Listen

-----------------------------------------------------------------------------
(* Who owns a worker *)

\* The sessions other than s, as far as workers are concerned.
OthersKeep(s) ==
    \A q \in Sessions \ {s} : pc'[q] = pc[q] /\ job'[q] = job[q] /\ models'[q] = models[q]

\* No process is new, changes its owner or comes back.
ProcsOlder ==
    /\ DOMAIN procs' = DOMAIN procs
    /\ \A p \in DOMAIN procs : /\ procs'[p].owner = procs[p].owner
                               /\ procs'[p].state # "gone" => procs[p].state # "gone"

\* What a write to a process' record does.
LEMMA ProcsSet ==
    ASSUME ProcTypes, NEW p \in DOMAIN procs,
           NEW state \in {"starting", "idle", "busy", "gone"}, NEW out,
           \/ procs' = [procs EXCEPT ![p].state = state, ![p].out = out]
           \/ procs' = [procs EXCEPT ![p].state = state]
           \/ procs' = [procs EXCEPT ![p].out = out] /\ state = procs[p].state
    PROVE  /\ DOMAIN procs' = DOMAIN procs /\ procs'[p].state = state
           /\ \A q \in DOMAIN procs : procs'[q].owner = procs[q].owner
           /\ \A q \in DOMAIN procs : q # p => procs'[q] = procs[q]
           /\ procs[p].state # "gone" \/ state = "gone" => ProcsOlder
<1>0. procs \in Seq(Runners)
  BY DEF ProcTypes, Runners
<1>1. procs[p] \in Runners /\ DOMAIN procs = 1..Len(procs)
  BY <1>0
<1>2. PICK r : /\ r.owner = procs[p].owner /\ r.state = state
               /\ procs' = [procs EXCEPT ![p] = r]
  <2> DEFINE a == [procs[p] EXCEPT !.state = state, !.out = out]
             b == [procs[p] EXCEPT !.out = out]
             c == [procs[p] EXCEPT !.state = state]
  <2>1. /\ a.owner = procs[p].owner /\ b.owner = procs[p].owner /\ c.owner = procs[p].owner
        /\ a.state = state /\ b.state = procs[p].state /\ c.state = state
    BY <1>1 DEF Runners
  <2>2. \/ procs' = [procs EXCEPT ![p] = a]
        \/ procs' = [procs EXCEPT ![p] = c]
        \/ procs' = [procs EXCEPT ![p] = b] /\ state = procs[p].state
    BY <1>1
  <2> QED
    BY <2>1, <2>2
<1>3. /\ DOMAIN procs' = DOMAIN procs /\ procs'[p] = r
      /\ \A q \in DOMAIN procs : q # p => procs'[q] = procs[q]
  BY <1>1, <1>2
<1>4. \A q \in DOMAIN procs : procs'[q].owner = procs[q].owner
  BY <1>2, <1>3
<1>5. procs[p].state # "gone" \/ state = "gone" => ProcsOlder
  BY <1>2, <1>3, <1>4 DEF ProcsOlder
<1> QED
  BY <1>2, <1>3, <1>4, <1>5

\* Who stays owned and who is gone need not be looked at again.
LEMMA WorkersFrame ==
    ASSUME NEW s \in Sessions, killed' = killed, OthersKeep(s), ProcsOlder, IInv,
           \A p \in DOMAIN procs : WorkerOK(p),
           \A p \in DOMAIN procs :
                procs[p].owner = s /\ procs'[p].state # "gone" /\ Owned(p) => Owned(p)'
    PROVE  \A p \in DOMAIN procs' : WorkerOK(p)'
<1> SUFFICES ASSUME NEW p \in DOMAIN procs', procs'[p].state # "gone", procs'[p].owner \notin killed
             PROVE  Owned(p)'
  BY DEF WorkerOK
<1>1. /\ p \in DOMAIN procs /\ procs'[p].owner = procs[p].owner
      /\ procs[p].state # "gone"
  BY DEF ProcsOlder
<1>2. Owned(p)
  BY <1>1 DEF WorkerOK
<1>3. procs[p].owner \in Sessions
  <2>1. procs \in Seq(Runners)
    BY DEF IInv, TypeOK, ProcTypes, Runners
  <2>2. procs[p] \in Runners
    BY <1>1, <2>1
  <2> QED
    BY <2>2 DEF Runners
<1>4. CASE procs[p].owner = s
  BY <1>1, <1>2, <1>4
<1>5. CASE procs[p].owner # s
  BY <1>1, <1>2, <1>3, <1>5 DEF Owned, OthersKeep, Busy
<1> QED
  BY <1>4, <1>5

\* The request that ends owned no worker that is left, or a model owns it too.
LEMMA AnswerWorkers ==
    ASSUME NEW s \in Sessions, IInv, killed' = killed, Answered(s), models' = models, ProcsOlder,
           \A p \in DOMAIN procs : WorkerOK(p),
           job[s].proc \in DOMAIN procs =>
                \/ procs'[job[s].proc].state = "gone"
                \/ \E h \in Handles : models[s][h] # None /\ models[s][h].proc = job[s].proc
    PROVE  /\ \A p \in DOMAIN procs' : WorkerOK(p)'
           /\ OthersKeep(s) /\ CallerOK(s)'
<1>1. OthersKeep(s) /\ CallerOK(s)'
  BY DEF OthersKeep, Answered, CallerOK, Busy, Resting
<1>2. \A p \in DOMAIN procs :
        procs[p].owner = s /\ procs'[p].state # "gone" /\ Owned(p) => Owned(p)'
  <2> SUFFICES ASSUME NEW p \in DOMAIN procs, procs[p].owner = s, procs'[p].state # "gone",
                      Owned(p)
               PROVE  Owned(p)'
    OBVIOUS
  <2>1. \E h \in Handles : models[s][h] # None /\ models[s][h].proc = p
    BY DEF Owned
  <2> QED
    BY <2>1 DEF Owned, ProcsOlder
<1> QED
  BY <1>1, <1>2, WorkersFrame

\* A request that goes on keeps the worker it has.
LEMMA GoesOnWorkers ==
    ASSUME NEW s \in Sessions, IInv, killed' = killed, GoesOn(s), models' = models, ProcsOlder,
           \A p \in DOMAIN procs : WorkerOK(p),
           job[s].proc \in DOMAIN procs => job'[s].proc = job[s].proc
    PROVE  (\A p \in DOMAIN procs' : WorkerOK(p)') /\ OthersKeep(s)
<1>1. OthersKeep(s)
  BY DEF OthersKeep, GoesOn
<1>2. ASSUME NEW p \in DOMAIN procs, procs[p].owner = s, procs'[p].state # "gone", Owned(p)
      PROVE  Owned(p)'
  <2>1. procs'[p].owner = s /\ Busy(s)'
    BY <1>2 DEF ProcsOlder, GoesOn, Busy
  <2> QED
    BY <1>2, <2>1 DEF Owned
<1> QED
  BY <1>1, <1>2, WorkersFrame

\* A model that enters the table takes its worker along, and replaces none.
LEMMA RegisterWorkers ==
    ASSUME NEW s \in Sessions, IInv, killed' = killed, CountOK(s), ProcsOlder,
           \A p \in DOMAIN procs : WorkerOK(p),
           pc[s] \in {"make", "starting"}, Register(s, job[s].proc)
    PROVE  /\ \A p \in DOMAIN procs' : WorkerOK(p)'
           /\ OthersKeep(s) /\ CallerOK(s)'
<1> DEFINE h0 == counter[s] + 1
           runner == [data |-> job[s].data, proc |-> job[s].proc]
<1>0. /\ TypeOK /\ ModelOK(s) /\ Busy(s) /\ job[s] \in Jobs /\ job[s].data \in Data
      /\ models \in [Sessions -> [Handles -> [data : Data, proc : Nat] \union {None}]]
  BY DEF IInv, SessionOK, JobOK, TypeOK, HandlerTypes, TableTypes, Busy, Resting
<1>1. runner \in [data : Data, proc : Nat] /\ runner # None /\ runner.proc = job[s].proc
  BY <1>0, NoneIsAbsence DEF Jobs
<1>2. counter[s] \in Nat /\ h0 \in Handles
  <2>1. /\ counter[s] \in Nat /\ calls[s] \in Nat /\ plan[s].calls \in Nat
        /\ plan[s].calls <= MaxCalls /\ MaxCalls \in Nat
    BY CountTypes, BoundsType
  <2>2. calls[s] <= plan[s].calls /\ counter[s] + 1 <= calls[s]
    BY <1>0 DEF CountOK
  <2> QED
    BY <2>1, <2>2 DEF Handles
<1>3. models' = [models EXCEPT ![s][h0] = runner]
  BY DEF Register
<1>4. pc'[s] = "recv" /\ job'[s] = None
      /\ \A q \in Sessions \ {s} : pc'[q] = pc[q] /\ job'[q] = job[q]
  BY <1>0, AnswerShape DEF Register
<1>5. models[s][h0] = None
  BY <1>0, <1>2 DEF ModelOK
<1> HIDE DEF h0, runner
<1>6. /\ models'[s][h0] = runner
      /\ \A h \in Handles : h # h0 => models'[s][h] = models[s][h]
      /\ \A q \in Sessions \ {s} : models'[q] = models[q]
  BY <1>0, <1>2, <1>3
<1>7. OthersKeep(s) /\ CallerOK(s)'
  BY <1>4, <1>6 DEF OthersKeep, CallerOK, Busy, Resting
<1>8. ASSUME NEW p \in DOMAIN procs, procs[p].owner = s, procs'[p].state # "gone", Owned(p)
      PROVE  Owned(p)'
  <2>1. procs'[p].owner = s
    BY <1>8 DEF ProcsOlder
  <2>2. \E h \in Handles : models'[s][h] # None /\ models'[s][h].proc = p
    BY <1>1, <1>2, <1>5, <1>6, <1>8 DEF Owned
  <2> QED
    BY <2>1, <2>2 DEF Owned
<1> QED
  BY <1>7, <1>8, WorkersFrame

\* A runner that leaves the table is closed.
LEMMA CloseWorkers ==
    ASSUME NEW s \in Sessions, IInv, NEW h \in Handles, CloseRunner(s, h), killed' = killed,
           \A p \in DOMAIN procs : WorkerOK(p),
           \A q \in Sessions \ {s} : pc'[q] = pc[q] /\ job'[q] = job[q],
           Busy(s) => job[s].proc = 0
    PROVE  /\ \A p \in DOMAIN procs' : WorkerOK(p)'
           /\ OthersKeep(s) /\ \A k \in Handles : models[s][k] = None => models'[s][k] = None
<1>0. /\ ProcTypes /\ ModelOK(s) /\ procs \in Seq(Runners)
      /\ models \in [Sessions -> [Handles -> [data : Data, proc : Nat] \union {None}]]
  BY DEF IInv, SessionOK, TypeOK, TableTypes, ProcTypes, Runners
<1>1. models' = [models EXCEPT ![s][h] = None]
  BY DEF CloseRunner
<1>2. /\ models'[s][h] = None
      /\ \A k \in Handles : k # h => models'[s][k] = models[s][k]
      /\ \A q \in Sessions \ {s} : models'[q] = models[q]
  BY <1>0, <1>1
<1>3. OthersKeep(s)
  BY <1>2 DEF OthersKeep
<1>4. /\ ProcsOlder
      /\ \A p \in DOMAIN procs : models[s][h] # None /\ models[s][h].proc = p =>
            procs'[p].state = "gone"
  <2> DEFINE p0 == models[s][h].proc
  <2>1. CASE models[s][h] = None \/ p0 = 0
    <3>1. procs' = procs
      BY <2>1 DEF CloseRunner
    <3>2. \A p \in DOMAIN procs : p # 0
      BY <1>0
    <3> QED
      BY <2>1, <3>1, <3>2 DEF ProcsOlder
  <2>2. CASE models[s][h] # None /\ p0 # 0
    <3>1. p0 \in DOMAIN procs
      BY <1>0, <2>2 DEF ModelOK
    <3>2. procs' = [procs EXCEPT ![p0].state = "gone", ![p0].out = None]
      BY <2>2 DEF CloseRunner, Closed
    <3> HIDE DEF p0
    <3>3. ProcsOlder /\ procs'[p0].state = "gone"
      BY <1>0, <3>1, <3>2, ProcsSet
    <3> QED
      BY <3>3 DEF p0
  <2> QED
    BY <2>1, <2>2
<1>5. ASSUME NEW p \in DOMAIN procs, procs[p].owner = s, procs'[p].state # "gone", Owned(p)
      PROVE  Owned(p)'
  <2>1. p # 0 /\ procs'[p].owner = s
    BY <1>0, <1>4, <1>5 DEF ProcsOlder
  <2>2. PICK k \in Handles : models[s][k] # None /\ models[s][k].proc = p
    BY <1>5, <2>1 DEF Owned
  <2>3. k # h
    BY <1>4, <1>5, <2>2
  <2> QED
    BY <1>2, <2>1, <2>2, <2>3 DEF Owned
<1> QED
  BY <1>2, <1>3, <1>4, <1>5, WorkersFrame

\* What a step of s comes to for the workers.
WorkersKept(s) ==
    (\A p \in DOMAIN procs' : WorkerOK(p)') /\ OthersKeep(s) /\ CallerOK(s)'

\* A request without a worker fails, is answered or goes on without one.
LEMMA PlainStep ==
    ASSUME NEW s \in Sessions, IInv, Dispatch(s), CallerOK(s),
           \A p \in DOMAIN procs : WorkerOK(p),
           pc[s] \notin {"starting", "send", "running"}, models' = models, procs' = procs,
           \/ Answered(s)
           \/ GoesOn(s) /\ job'[s].proc = 0 /\ pc'[s] \notin {"send", "running"}
    PROVE  WorkersKept(s)
<1>1. Busy(s) /\ killed' = killed
  BY DispatchShape DEF server
<1>2. procs \in Seq(Runners)
  BY DEF IInv, TypeOK, ProcTypes, Runners
<1>3. job[s].proc = 0 /\ job[s].proc \notin DOMAIN procs
  BY <1>1, <1>2 DEF CallerOK
<1>4. ProcsOlder
  BY DEF ProcsOlder
<1>5. CASE Answered(s)
  BY <1>1, <1>3, <1>4, <1>5, AnswerWorkers DEF WorkersKept
<1>6. CASE GoesOn(s) /\ job'[s].proc = 0 /\ pc'[s] \notin {"send", "running"}
  <2>1. (\A p \in DOMAIN procs' : WorkerOK(p)') /\ OthersKeep(s)
    BY <1>1, <1>3, <1>4, <1>6, GoesOnWorkers
  <2>2. CallerOK(s)'
    BY <1>6 DEF CallerOK, GoesOn, Busy, Resting
  <2> QED
    BY <2>1, <2>2 DEF WorkersKept
<1> QED
  BY <1>5, <1>6

\* The handler's steps until there is a worker.
LEMMA BeforeWorker ==
    ASSUME NEW s \in Sessions, IInv, CallerOK(s), CountOK(s),
           \A p \in DOMAIN procs : WorkerOK(p),
           \/ Bad(s) \/ OpenFile(s) \/ WriteUnit(s) \/ WriteFails(s) \/ ReadFile(s)
           \/ MakeInProcess(s) \/ Unload(s) \/ XdnaDone(s) \/ XdnaLock(s)
    PROVE  WorkersKept(s)
<1>0. /\ TypeOK /\ Dispatch(s) /\ Busy(s) /\ job[s] \in Jobs /\ killed' = killed
      /\ (Answered(s) \/ GoesOn(s)) /\ pc[s] \notin {"starting", "send", "running"}
  <2>1. Dispatch(s)
    BY DEF Dispatch
  <2>2. Busy(s) /\ killed' = killed /\ (Answered(s) \/ GoesOn(s))
    BY <2>1, DispatchShape DEF server
  <2>3. pc[s] \notin {"starting", "send", "running"}
    BY DEF Bad, OpenFile, WriteUnit, WriteFails, ReadFile, MakeInProcess, Unload, XdnaDone,
           XdnaLock
  <2> QED
    BY <2>1, <2>2, <2>3 DEF IInv, TypeOK, HandlerTypes
<1>1. job[s].proc = 0
  BY <1>0 DEF CallerOK
<1>2. ASSUME NEW j, j.proc = 0, job' = [job EXCEPT ![s] = j], models' = models, procs' = procs,
             pc'[s] \notin {"send", "running"}
      PROVE  WorkersKept(s)
  <2>1. job'[s].proc = 0
    BY <1>0, <1>2 DEF TypeOK, HandlerTypes
  <2> QED
    BY <1>0, <1>2, <2>1, PlainStep
<1>3. CASE Bad(s) \/ WriteFails(s) \/ XdnaDone(s)
  <2>1. Answered(s)
    <3>1. \/ Answer(s, FALSE, None, None) \/ Answer(s, TRUE, None, None)
      BY <1>3 DEF Bad, WriteFails, XdnaDone, Fail
    <3>2. pc'[s] = "recv"
      BY <1>0, <3>1, AnswerShape
    <3> QED
      BY <1>0, <3>2 DEF GoesOn, Resting
  <2>2. models' = models /\ procs' = procs
    BY <1>3 DEF Bad, WriteFails, XdnaDone
  <2> QED
    BY <1>0, <2>1, <2>2, PlainStep
<1>4. CASE OpenFile(s) \/ XdnaLock(s)
  <2>1. job' = [job EXCEPT ![s] = job[s]] /\ models' = models /\ procs' = procs
    BY <1>0, <1>4 DEF OpenFile, XdnaLock, TypeOK, HandlerTypes
  <2>2. pc'[s] \notin {"send", "running"}
    BY <1>0, <1>4, StepShape DEF OpenFile, XdnaLock
  <2> QED
    BY <1>1, <1>2, <2>1, <2>2
<1>5. CASE WriteUnit(s)
  <2>0. models' = models /\ procs' = procs
    BY <1>5 DEF WriteUnit
  <2>1. CASE Answered(s)
    BY <1>0, <2>0, <2>1, PlainStep
  <2>2. CASE job' = [job EXCEPT ![s].at = job[s].at + 1] /\ UNCHANGED <<pc, down>>
    <3> DEFINE j == [job[s] EXCEPT !.at = job[s].at + 1]
    <3>1. j.proc = 0 /\ job' = [job EXCEPT ![s] = j]
      BY <1>0, <1>1, <2>2 DEF Jobs
    <3> HIDE DEF j
    <3>2. pc'[s] \notin {"send", "running"}
      BY <1>5, <2>2 DEF WriteUnit
    <3> QED
      BY <1>2, <2>0, <3>1, <3>2
  <2>3. CASE Answer(s, TRUE, None, None)
    <3>1. pc'[s] = "recv"
      BY <1>0, <2>3, AnswerShape
    <3> QED
      BY <1>0, <2>1, <3>1 DEF GoesOn, Resting
  <2> QED
    BY <1>5, <2>2, <2>3 DEF WriteUnit
<1>6. CASE ReadFile(s)
  <2>0. models' = models /\ procs' = procs
    BY <1>6 DEF ReadFile
  <2>1. CASE /\ job' = [job EXCEPT ![s].data = files[job[s].request.name]]
             /\ Step(s, "make") /\ UNCHANGED down
    <3> DEFINE j == [job[s] EXCEPT !.data = files[job[s].request.name]]
    <3>1. j.proc = 0 /\ job' = [job EXCEPT ![s] = j]
      BY <1>0, <1>1, <2>1 DEF Jobs
    <3> HIDE DEF j
    <3>2. pc'[s] \notin {"send", "running"}
      BY <1>0, <2>1, StepShape
    <3> QED
      BY <1>2, <2>0, <3>1, <3>2
  <2>2. CASE Fail(s)
    <3>1. pc'[s] = "recv"
      BY <1>0, <2>2, AnswerShape DEF Fail
    <3> QED
      BY <1>0, <2>0, <3>1, PlainStep DEF GoesOn, Resting
  <2> QED
    BY <1>6, <2>1, <2>2 DEF ReadFile
<1>7. CASE MakeInProcess(s)
  <2>0. procs' = procs /\ pc[s] = "make"
    BY <1>7 DEF MakeInProcess
  <2>1. CASE (Fail(s) \/ Answer(s, TRUE, None, job[s].data)) /\ UNCHANGED <<models, counter>>
    <3>1. pc'[s] = "recv"
      BY <1>0, <2>1, AnswerShape DEF Fail
    <3> QED
      BY <1>0, <2>0, <2>1, <3>1, PlainStep DEF GoesOn, Resting
  <2>2. CASE Register(s, 0)
    <3>1. Register(s, job[s].proc) /\ ProcsOlder
      BY <1>1, <2>0, <2>2 DEF ProcsOlder
    <3> QED
      BY <1>0, <2>0, <3>1, RegisterWorkers DEF WorkersKept
  <2> QED
    BY <1>7, <2>1, <2>2 DEF MakeInProcess
<1>8. CASE Unload(s)
  <2>1. /\ pc[s] = "unload" /\ CloseRunner(s, job[s].request.handle)
        /\ Answer(s, TRUE, None, None)
    BY <1>8 DEF Unload
  <2>2. job[s].request.handle \in Handles
    BY <1>0, <2>1, RequestFields DEF IInv, SessionOK, JobOK, Jobs
  <2>3. /\ pc'[s] = "recv" /\ job'[s] = None
        /\ \A q \in Sessions \ {s} : pc'[q] = pc[q] /\ job'[q] = job[q]
    BY <1>0, <2>1, AnswerShape
  <2>4. CallerOK(s)'
    BY <2>3 DEF CallerOK, Busy, Resting
  <2> QED
    BY <1>0, <1>1, <2>1, <2>2, <2>3, <2>4, CloseWorkers DEF WorkersKept
<1> QED
  BY <1>3, <1>4, <1>5, <1>6, <1>7, <1>8

\* A worker is started for the request.
LEMMA MakeProxyOwned ==
    ASSUME NEW s \in Sessions, IInv, CallerOK(s),
           \A p \in DOMAIN procs : WorkerOK(p), MakeProxy(s)
    PROVE  WorkersKept(s)
<1>p. PICK p0 : p0 = Len(procs) + 1
  OBVIOUS
<1> DEFINE j == [job[s] EXCEPT !.proc = p0]
           worker == [owner |-> s, data |-> job[s].data, state |-> "starting", out |-> None]
<1>0. /\ TypeOK /\ Dispatch(s) /\ Busy(s) /\ job[s] \in Jobs /\ killed' = killed
      /\ (Answered(s) \/ GoesOn(s)) /\ pc[s] = "make" /\ models' = models
      /\ procs \in Seq(Runners) /\ job[s].proc = 0
  <2>1. Dispatch(s) /\ pc[s] = "make" /\ models' = models
    BY DEF Dispatch, MakeProxy
  <2>2. Busy(s) /\ killed' = killed /\ (Answered(s) \/ GoesOn(s))
    BY <2>1, DispatchShape DEF server
  <2> QED
    BY <2>1, <2>2 DEF IInv, TypeOK, HandlerTypes, ProcTypes, Runners, CallerOK
<1>1. CASE Fail(s) /\ UNCHANGED procs
  <2>1. pc'[s] = "recv"
    BY <1>0, <1>1, AnswerShape DEF Fail
  <2> QED
    BY <1>0, <1>1, <2>1, PlainStep DEF GoesOn, Resting
<1>2. CASE /\ procs' = Append(procs, worker)
           /\ job' = [job EXCEPT ![s].proc = p0]
           /\ Step(s, "starting")
  <2>1. j.proc = p0 /\ job' = [job EXCEPT ![s] = j]
    BY <1>0, <1>2 DEF Jobs
  <2>2. job'[s].proc = p0 /\ pc'[s] = "starting"
        /\ \A q \in Sessions \ {s} : pc'[q] = pc[q] /\ job'[q] = job[q]
    <3> HIDE DEF j
    <3> QED
      BY <1>0, <1>2, <2>1, StepShape DEF TypeOK, HandlerTypes
  <2>3. worker.owner = s
    OBVIOUS
  <2>4. /\ DOMAIN procs = 1..Len(procs) /\ DOMAIN procs' = 1..p0 /\ Len(procs) \in Nat
        /\ procs'[p0] = worker
        /\ \A p \in DOMAIN procs : procs'[p] = procs[p]
    <3>1. worker \in Runners
      BY <1>0 DEF Runners, IInv, SessionOK, JobOK
    <3> HIDE DEF worker
    <3> QED
      BY <1>0, <1>p, <1>2, <3>1
  <2> HIDE DEF worker, j
  <2>5. \A p \in DOMAIN procs' : p \in DOMAIN procs \/ p = p0
    BY <1>p, <2>4
  <2>6. Busy(s)'
    BY <2>2 DEF Busy, Resting
  <2>7. WorkerOK(p0)'
    BY <2>2, <2>3, <2>4, <2>6 DEF WorkerOK, Owned
  <2>8. ASSUME NEW p \in DOMAIN procs PROVE WorkerOK(p)'
    <3>1. procs[p].owner \in Sessions
      <4>1. procs[p] \in Runners
        BY <1>0
      <4> QED
        BY <4>1 DEF Runners
    <3>2. p # 0 /\ procs'[p] = procs[p] /\ WorkerOK(p)
      BY <2>4
    <3>3. Owned(p) => Owned(p)'
      <4>1. CASE procs[p].owner = s
        BY <1>0, <3>2, <4>1 DEF Owned
      <4>2. CASE procs[p].owner # s
        BY <1>0, <2>2, <3>1, <3>2, <4>2 DEF Owned, Busy
      <4> QED
        BY <4>1, <4>2
    <3> QED
      BY <1>0, <3>2, <3>3 DEF WorkerOK
  <2>9. OthersKeep(s) /\ CallerOK(s)'
    BY <1>0, <2>2, <2>6 DEF OthersKeep, CallerOK
  <2> QED
    BY <2>5, <2>7, <2>8, <2>9 DEF WorkersKept
<1> QED
  BY <1>p, <1>1, <1>2 DEF MakeProxy

\* The steps of a request that has a worker: when it ends, the worker is gone
\* or a model of the table has it.
LEMMA WithWorker ==
    ASSUME NEW s \in Sessions, IInv, CallerOK(s), CountOK(s),
           \A p \in DOMAIN procs : WorkerOK(p),
           Started(s) \/ Run(s) \/ Send(s) \/ Received(s)
    PROVE  WorkersKept(s)
<1> DEFINE p0 == job[s].proc
           op == job[s].request.op
           Mine == \E h \in Handles : models[s][h] # None /\ models[s][h].proc = p0
<1>0. /\ TypeOK /\ Dispatch(s) /\ Busy(s) /\ job[s] \in Jobs /\ killed' = killed
      /\ (Answered(s) \/ GoesOn(s)) /\ ProcTypes /\ JobOK(s)
      /\ job[s].request \in AllRequests
  <2>1. Dispatch(s)
    BY DEF Dispatch
  <2>2. Busy(s) /\ killed' = killed /\ (Answered(s) \/ GoesOn(s))
    BY <2>1, DispatchShape DEF server
  <2>3. job[s] \in Jobs
    BY <2>2 DEF IInv, TypeOK, HandlerTypes
  <2> QED
    BY <2>1, <2>2, <2>3 DEF IInv, TypeOK, SessionOK, Jobs
<1>1. ASSUME NEW ok, NEW handle, NEW data, Answer(s, ok, handle, data) PROVE Answered(s)
  <2>1. pc'[s] = "recv"
    BY <1>0, <1>1, AnswerShape
  <2> QED
    BY <1>0, <2>1 DEF GoesOn, Resting
<1>2. CASE Started(s)
  <2>0. /\ pc[s] = "starting" /\ p0 \in DOMAIN procs /\ op \in {"load", "load_name", "once"}
    BY <1>0, <1>2 DEF Started, JobOK
  <2>1. CASE op # "once" /\ Register(s, p0) /\ procs' = [procs EXCEPT ![p0].out = None]
    <3>1. ProcsOlder
      <4>1. PICK state : state = procs[p0].state /\ state \in {"starting", "idle", "busy", "gone"}
        <5>1. procs \in Seq(Runners)
          BY <1>0 DEF ProcTypes, Runners
        <5>2. procs[p0] \in Runners
          BY <2>0, <5>1
        <5> QED
          BY <5>2 DEF Runners
      <4> HIDE DEF p0
      <4> QED
        BY <1>0, <2>0, <2>1, <4>1, ProcsSet
    <3> QED
      BY <1>0, <2>0, <2>1, <3>1, RegisterWorkers DEF WorkersKept
  <2>2. CASE /\ op = "once" /\ Step(s, "send") /\ procs' = [procs EXCEPT ![p0].out = None]
             /\ UNCHANGED <<job, down, models, counter>>
    <3>1. ProcsOlder
      <4>1. PICK state : state = procs[p0].state /\ state \in {"starting", "idle", "busy", "gone"}
        <5>1. procs \in Seq(Runners)
          BY <1>0 DEF ProcTypes, Runners
        <5>2. procs[p0] \in Runners
          BY <2>0, <5>1
        <5> QED
          BY <5>2 DEF Runners
      <4> HIDE DEF p0
      <4> QED
        BY <1>0, <2>0, <2>2, <4>1, ProcsSet
    <3>2. pc'[s] = "send"
      BY <1>0, <2>2, StepShape
    <3>3. GoesOn(s)
      BY <1>0, <3>2 DEF Answered
    <3>4. (\A p \in DOMAIN procs' : WorkerOK(p)') /\ OthersKeep(s)
      BY <1>0, <2>2, <3>1, <3>3, GoesOnWorkers
    <3>5. CallerOK(s)'
      BY <2>2, <3>2 DEF CallerOK, Busy, Resting
    <3> QED
      BY <3>4, <3>5 DEF WorkersKept
  <2>3. CASE Fail(s) /\ procs' = Closed(p0) /\ UNCHANGED <<models, counter>>
    <3>1. ProcsOlder /\ procs'[p0].state = "gone"
      <4> HIDE DEF p0
      <4> QED
        BY <1>0, <2>0, <2>3, ProcsSet DEF Closed
    <3>2. Answered(s)
      BY <1>1, <2>3 DEF Fail
    <3> QED
      BY <1>0, <2>3, <3>1, <3>2, AnswerWorkers DEF WorkersKept
  <2> QED
    BY <1>2, <2>1, <2>2, <2>3 DEF Started
<1>3. CASE Run(s)
  <2> DEFINE h == job[s].request.handle
             runner == models[s][h]
             j == [job[s] EXCEPT !.proc = runner.proc]
  <2>0. pc[s] = "run" /\ models' = models /\ procs' = procs
    BY <1>3 DEF Run
  <2>1. CASE Answered(s)
    BY <1>0, <2>0, <2>1, PlainStep
  <2>2. CASE /\ runner # None /\ job' = [job EXCEPT ![s].proc = runner.proc]
             /\ Step(s, "send")
    <3>1. j.proc = runner.proc /\ j.request = job[s].request /\ job' = [job EXCEPT ![s] = j]
      BY <1>0, <2>2 DEF Jobs
    <3>2. job'[s].proc = runner.proc /\ job'[s].request = job[s].request /\ pc'[s] = "send"
      <4> HIDE DEF j
      <4> QED
        BY <1>0, <2>2, <3>1, StepShape DEF TypeOK, HandlerTypes
    <3>3. ProcsOlder /\ p0 = 0 /\ p0 \notin DOMAIN procs
      <4>1. procs \in Seq(Runners)
        BY <1>0 DEF ProcTypes, Runners
      <4> QED
        BY <1>0, <2>0, <4>1 DEF ProcsOlder, CallerOK
    <3>4. GoesOn(s)
      BY <1>0, <3>2 DEF Answered
    <3>5. (\A p \in DOMAIN procs' : WorkerOK(p)') /\ OthersKeep(s)
      BY <1>0, <2>0, <3>3, <3>4, GoesOnWorkers
    <3>6. CallerOK(s)'
      BY <2>0, <2>2, <3>2 DEF CallerOK, Busy, Resting
    <3> QED
      BY <3>5, <3>6 DEF WorkersKept
  <2> QED
    BY <1>1, <1>3, <2>1, <2>2 DEF Run, Fail
<1>4. ASSUME pc[s] \in {"send", "running"}
      PROVE  p0 \in DOMAIN procs /\ op \in {"run", "once"} /\ (op = "run" => Mine)
  <2>1. p0 \in DOMAIN procs /\ op \in {"run", "once"}
    BY <1>0, <1>4 DEF JobOK
  <2>2. op = "run" => job[s].request.handle \in Handles
    BY <1>0, RequestFields
  <2> QED
    BY <1>4, <2>1, <2>2 DEF CallerOK
<1>5. CASE Send(s)
  <2>0. pc[s] = "send" /\ models' = models /\ p0 \in DOMAIN procs
    BY <1>4, <1>5 DEF Send
  <2>1. CASE procs[p0].state = "gone" /\ Fail(s) /\ UNCHANGED procs
    <3>1. ProcsOlder /\ Answered(s)
      BY <1>1, <2>1 DEF Fail, ProcsOlder
    <3> QED
      BY <1>0, <2>0, <2>1, <3>1, AnswerWorkers DEF WorkersKept
  <2>2. CASE /\ procs[p0].state # "gone" /\ procs' = [procs EXCEPT ![p0].state = "busy"]
             /\ Step(s, "running") /\ UNCHANGED <<job, down>>
    <3>1. ProcsOlder
      <4> HIDE DEF p0
      <4> QED
        BY <1>0, <2>0, <2>2, ProcsSet
    <3>2. pc'[s] = "running"
      BY <1>0, <2>2, StepShape
    <3>3. GoesOn(s)
      BY <1>0, <3>2 DEF Answered
    <3>4. (\A p \in DOMAIN procs' : WorkerOK(p)') /\ OthersKeep(s)
      BY <1>0, <2>0, <2>2, <3>1, <3>3, GoesOnWorkers
    <3>5. CallerOK(s)'
      BY <2>0, <2>2, <3>2 DEF CallerOK, Busy, Resting
    <3> QED
      BY <3>4, <3>5 DEF WorkersKept
  <2> QED
    BY <1>5, <2>1, <2>2 DEF Send
<1>6. CASE Received(s)
  <2>0. pc[s] = "running" /\ models' = models
    BY <1>6 DEF Received
  <2>1. p0 \in DOMAIN procs /\ op \in {"run", "once"} /\ (op = "run" => Mine)
    BY <1>4, <2>0
  <2>2. Answered(s)
    BY <1>1, <1>6 DEF Received, Fail
  <2>3. ProcsOlder /\ (procs'[p0].state = "gone" \/ Mine)
    <3>1. CASE procs' = Closed(p0)
      <4> HIDE DEF p0
      <4> QED
        BY <1>0, <2>1, <3>1, ProcsSet DEF Closed
    <3>2. CASE op # "once" /\ procs' = [procs EXCEPT ![p0].out = None]
      <4>1. PICK state : state = procs[p0].state /\ state \in {"starting", "idle", "busy", "gone"}
        <5>1. procs \in Seq(Runners)
          BY <1>0 DEF ProcTypes, Runners
        <5>2. procs[p0] \in Runners
          BY <2>1, <5>1
        <5> QED
          BY <5>2 DEF Runners
      <4>2. Mine
        BY <2>1, <3>2
      <4> HIDE DEF p0, Mine
      <4> QED
        BY <1>0, <2>1, <3>2, <4>1, <4>2, ProcsSet
    <3>3. CASE procs[p0].state = "gone" /\ UNCHANGED procs
      BY <3>3 DEF ProcsOlder
    <3> QED
      BY <1>6, <3>1, <3>2, <3>3 DEF Received
  <2> QED
    BY <1>0, <2>0, <2>2, <2>3, AnswerWorkers DEF WorkersKept
<1> QED
  BY <1>2, <1>3, <1>5, <1>6

\* The handshake, the top of the loop and the finally clause.
LEMMA AroundRequests ==
    ASSUME NEW s \in Sessions, IInv, CallerOK(s),
           \A p \in DOMAIN procs : WorkerOK(p),
           Hello(s) \/ Take(s) \/ SeesHangUp(s) \/ EndCloses(s) \/ Ended(s)
    PROVE  WorkersKept(s)
<1>0. /\ TypeOK /\ pc[s] \in Resting /\ ~Busy(s) /\ killed' = killed /\ HelloOK(s)
      /\ procs \in Seq(Runners)
  BY DEF IInv, SessionOK, TypeOK, ProcTypes, Runners, Hello, Take, SeesHangUp, EndCloses, Ended,
         Busy, Resting, server
<1>1. \A q \in Sessions \ {s} : pc'[q] = pc[q] /\ job'[q] = job[q]
  BY <1>0, StepShape DEF Hello, Take, SeesHangUp, EndCloses, Ended, TypeOK, HandlerTypes
<1>2. ASSUME models' = models, procs' = procs, CallerOK(s)' PROVE WorkersKept(s)
  <2>1. OthersKeep(s) /\ ProcsOlder
    BY <1>1, <1>2 DEF OthersKeep, ProcsOlder
  <2>2. \A p \in DOMAIN procs :
          procs[p].owner = s /\ procs'[p].state # "gone" /\ Owned(p) => Owned(p)'
    BY <1>0, <1>2 DEF Owned
  <2> QED
    BY <1>0, <1>2, <2>1, <2>2, WorkersFrame DEF WorkersKept
<1>3. CASE Hello(s) \/ SeesHangUp(s)
  <2>1. /\ pc'[s] \in {"recv", "ending"} /\ job' = job /\ models' = models /\ procs' = procs
    BY <1>0, <1>3, StepShape DEF Hello, SeesHangUp
  <2>2. CallerOK(s)'
    BY <1>0, <2>1 DEF CallerOK, Busy, Resting
  <2> QED
    BY <1>2, <2>1, <2>2
<1>4. CASE Ended(s)
  <2>1. /\ pc'[s] = "none" /\ job' = job /\ models' = models /\ procs' = procs
        /\ \A h \in Handles : models[s][h] = None
    BY <1>0, <1>4, StepShape DEF Ended
  <2>2. CallerOK(s)'
    BY <1>0, <2>1 DEF CallerOK, Busy, Resting
  <2> QED
    BY <1>2, <2>1, <2>2
<1>5. CASE Take(s)
  <2> DEFINE m == Head(up[s])
             op == m.request.op
             j == [id |-> m.id, request |-> m.request, proc |-> 0, at |-> 0,
                   data |-> IF op \in {"load", "once"} THEN Whole(m.request.data) ELSE None]
  <2>0. models' = models /\ procs' = procs /\ pc[s] = "recv" /\ up[s] # <<>>
    BY <1>5 DEF Take
  <2>1. CASE Step(s, "ending") /\ UNCHANGED job
    <3>1. pc'[s] = "ending"
      BY <1>0, <2>1, StepShape
    <3>2. CallerOK(s)'
      BY <1>0, <2>0, <2>1, <3>1 DEF CallerOK, Busy, Resting
    <3> QED
      BY <1>2, <2>0, <3>2
  <2>2. CASE /\ op \notin {"huge", "close"} /\ job' = [job EXCEPT ![s] = j]
             /\ Step(s, IF op \in {"load", "once"} THEN "make" ELSE op)
    <3>1. pc'[s] \in {"make", op}
      BY <1>0, <2>2, StepShape
    <3>2. op \in Ops
      <4>1. up[s] \in Seq([id : Nat, request : AllRequests])
        BY <1>0, <2>0 DEF HelloOK
      <4>2. m \in [id : Nat, request : AllRequests]
        BY <2>0, <4>1, TailOK
      <4> HIDE DEF m
      <4> QED
        BY <4>2, RequestFields
    <3>3. pc'[s] \notin {"none", "starting", "send", "running"} /\ Busy(s)'
      BY <2>2, <3>1, <3>2 DEF Ops, Busy, Resting
    <3>4. j.proc = 0
      OBVIOUS
    <3> HIDE DEF j
    <3>5. job'[s].proc = 0
      BY <1>0, <2>2, <3>4 DEF TypeOK, HandlerTypes
    <3>6. CallerOK(s)'
      BY <3>3, <3>5 DEF CallerOK
    <3> QED
      BY <1>2, <2>0, <3>6
  <2> QED
    BY <1>5, <2>1, <2>2 DEF Take
<1>6. CASE EndCloses(s)
  <2>1. pc[s] = "ending" /\ UNCHANGED <<pc, job>>
    BY <1>6 DEF EndCloses
  <2>2. PICK h \in Handles : CloseRunner(s, h)
    BY <1>6 DEF EndCloses
  <2>3. (\A p \in DOMAIN procs' : WorkerOK(p)') /\ OthersKeep(s)
    BY <1>0, <1>1, <2>2, CloseWorkers
  <2>4. CallerOK(s)'
    BY <1>0, <2>1 DEF CallerOK, Busy, Resting
  <2> QED
    BY <2>3, <2>4 DEF WorkersKept
<1> QED
  BY <1>3, <1>4, <1>5, <1>6

\* The session of another client stays in order.
LEMMA CallersFrame ==
    ASSUME NEW s \in Sessions, \A q \in Sessions : CallerOK(q), WorkersKept(s)
    PROVE  /\ \A q \in Sessions : CallerOK(q)'
           /\ \A p \in DOMAIN procs' : WorkerOK(p)'
<1>1. ASSUME NEW q \in Sessions \ {s} PROVE CallerOK(q)'
  BY <1>1 DEF WorkersKept, OthersKeep, CallerOK, Busy
<1> QED
  BY <1>1 DEF WorkersKept

\* The client's steps, those of the processes, and a restart of the server.
LEMMA OwnersElsewhere ==
    ASSUME IInv, \A q \in Sessions : CallerOK(q), \A p \in DOMAIN procs : WorkerOK(p),
           \/ UNCHANGED vars \/ Restart
           \/ \E s \in Sessions : \/ Connect(s) \/ Call(s) \/ Interrupted(s) \/ HangUp(s)
                                  \/ Welcomed(s) \/ Return(s) \/ ConnectionLost(s)
           \/ \E p \in DOMAIN procs : Work(p) \/ WorkerDies(p)
    PROVE  /\ \A q \in Sessions : CallerOK(q)'
           /\ \A p \in DOMAIN procs' : WorkerOK(p)'
<1>1. UNCHANGED <<job, models, killed>>
  BY DEF Restart, Connect, Call, Interrupted, HangUp, Welcomed, Return, ConnectionLost, Work,
         WorkerStarts, WorkerRuns, WorkerOrphaned, WorkerDies, handlers, server, vars
<1>2. \A q \in Sessions : pc'[q] = pc[q] \/ (pc[q] = "none" /\ pc'[q] = "hello")
  <2>1. ASSUME NEW s \in Sessions, Connect(s)
        PROVE  \A q \in Sessions : pc'[q] = pc[q] \/ (pc[q] = "none" /\ pc'[q] = "hello")
    <3>1. pc[s] = "none"
      BY <2>1 DEF Connect, IInv, SessionOK, HelloOK
    <3>2. pc' = [pc EXCEPT ![s] = "hello"] /\ DOMAIN pc = Sessions
      BY <2>1 DEF Connect, IInv, TypeOK, HandlerTypes
    <3> QED
      BY <3>1, <3>2
  <2>2. (\E s \in Sessions : Connect(s)) \/ pc' = pc
    BY DEF Restart, Call, Interrupted, HangUp, Welcomed, Return, ConnectionLost, Work,
           WorkerStarts, WorkerRuns, WorkerOrphaned, WorkerDies, handlers, vars
  <2> QED
    BY <2>1, <2>2
<1>3. \A q \in Sessions : CallerOK(q)'
  BY <1>1, <1>2 DEF CallerOK, Busy, Resting
<1>4. procs \in Seq(Runners) /\ ProcTypes
  BY DEF IInv, TypeOK, ProcTypes, Runners
<1>5. ProcsOlder
  <2>1. CASE procs' = procs
    BY <2>1 DEF ProcsOlder
  <2>2. ASSUME NEW p \in DOMAIN procs, Work(p) \/ WorkerDies(p) PROVE ProcsOlder
    <3>1. procs[p].state # "gone"
      BY <2>2 DEF Work, WorkerStarts, WorkerRuns, WorkerOrphaned, WorkerDies
    <3>2. PICK state \in {"starting", "idle", "busy", "gone"} :
            \E out : procs' = [procs EXCEPT ![p].state = state, ![p].out = out]
      BY <2>2 DEF Work, WorkerStarts, WorkerRuns, WorkerOrphaned, WorkerDies, Set
    <3> QED
      BY <1>4, <3>1, <3>2, ProcsSet
  <2> QED
    BY <2>1, <2>2 DEF Restart, Connect, Call, Interrupted, HangUp, Welcomed, Return,
                      ConnectionLost, vars
<1>6. ASSUME NEW p \in DOMAIN procs' PROVE WorkerOK(p)'
  <2>1. p \in DOMAIN procs /\ procs'[p].owner = procs[p].owner
        /\ (procs'[p].state # "gone" => procs[p].state # "gone")
    BY <1>5, <1>6 DEF ProcsOlder
  <2>2. PICK s \in Sessions : s = procs[p].owner
    <3>1. procs[p] \in Runners
      BY <1>4, <2>1
    <3> QED
      BY <3>1 DEF Runners
  <2>3. Busy(s) <=> Busy(s)'
    BY <1>2, <2>2 DEF Busy, Resting
  <2>4. Owned(p) => Owned(p)'
    BY <1>1, <2>1, <2>2, <2>3 DEF Owned
  <2> QED
    BY <1>1, <2>1, <2>4 DEF WorkerOK
<1> QED
  BY <1>3, <1>6

\* A crash leaves the workers of the sessions it cut off without an owner, and
\* there were none of other sessions.
LEMMA OwnersCrash ==
    ASSUME IInv, \A q \in Sessions : CallerOK(q), \A p \in DOMAIN procs : WorkerOK(p), Crash
    PROVE  /\ \A q \in Sessions : CallerOK(q)'
           /\ \A p \in DOMAIN procs' : WorkerOK(p)'
<1>1. /\ killed' = killed \union {s \in Sessions : pc[s] # "none"} /\ procs' = procs
      /\ \A s \in Sessions : /\ pc'[s] = "none" /\ job'[s] = None
                             /\ \A h \in Handles : models'[s][h] = None
  BY DEF Crash
<1>2. \A q \in Sessions : CallerOK(q)'
  BY <1>1 DEF CallerOK, Busy, Resting
<1>3. ASSUME NEW p \in DOMAIN procs, procs[p].state # "gone" PROVE procs[p].owner \in killed'
  <2>1. procs[p].owner \in Sessions
    <3>1. procs \in Seq(Runners)
      BY DEF IInv, TypeOK, ProcTypes, Runners
    <3>2. procs[p] \in Runners
      BY <3>1
    <3> QED
      BY <3>2 DEF Runners
  <2>2. procs[p].owner \in killed \/ pc[procs[p].owner] # "none"
    BY <1>3, <2>1 DEF WorkerOK, Owned, CallerOK, Busy, Resting
  <2> QED
    BY <1>1, <2>1, <2>2
<1>4. \A p \in DOMAIN procs' : WorkerOK(p)'
  BY <1>1, <1>3 DEF WorkerOK
<1> QED
  BY <1>2, <1>4

\* Every step keeps the owners of the workers.
LEMMA OwnersNext ==
    ASSUME IInv, \A q \in Sessions : CallerOK(q) /\ CountOK(q),
           \A p \in DOMAIN procs : WorkerOK(p), [Next]_vars
    PROVE  /\ \A q \in Sessions : CallerOK(q)'
           /\ \A p \in DOMAIN procs' : WorkerOK(p)'
<1>1. ASSUME NEW s \in Sessions, Serve(s) \/ XdnaLock(s) PROVE WorkersKept(s)
  <2>1. CallerOK(s) /\ CountOK(s)
    OBVIOUS
  <2> QED
    BY <1>1, <2>1, BeforeWorker, MakeProxyOwned, WithWorker, AroundRequests DEF Serve
<1>2. CASE \E s \in Sessions : Serve(s) \/ XdnaLock(s)
  BY <1>1, <1>2, CallersFrame
<1>3. CASE Crash
  BY <1>3, OwnersCrash
<1> QED
  BY <1>2, <1>3, OwnersElsewhere DEF Next, Listen

-----------------------------------------------------------------------------
(* The theorems about ends and owners *)

\* The second invariant holds at the start ...
LEMMA OwnInit == Init => OwnInv
<1> SUFFICES ASSUME Init PROVE OwnInv
  OBVIOUS
<1>1. ASSUME NEW s \in Sessions PROVE LostOK(s) /\ CountOK(s) /\ CallerOK(s)
  <2>1. /\ client[s] = "new" /\ calls[s] = 0 /\ counter[s] = 0 /\ pc[s] = "none"
        /\ up[s] = <<>> /\ job[s] = None /\ \A h \in Handles : models[s][h] = None
    BY DEF Init
  <2>2. ~Busy(s) /\ Len(up[s]) = 0
    BY <2>1 DEF Busy, Resting
  <2>3. plan[s].calls \in Nat
    BY InitOK, CountTypes
  <2> QED
    BY <2>1, <2>2, <2>3 DEF LostOK, CountOK, Pending, CallerOK
<1>2. \A p \in DOMAIN procs : WorkerOK(p)
  BY DEF Init
<1> QED
  BY <1>1, <1>2 DEF OwnInv

\* ... every step keeps it where the first one holds ...
LEMMA OwnNext == IInv /\ OwnInv /\ [Next]_vars => OwnInv'
<1> SUFFICES ASSUME IInv, OwnInv, [Next]_vars PROVE OwnInv'
  OBVIOUS
<1>1. \A s \in Sessions : LostOK(s)'
  BY LostNext DEF OwnInv
<1>2. \A s \in Sessions : CountOK(s)'
  BY CountNext DEF OwnInv
<1>3. (\A s \in Sessions : CallerOK(s)') /\ \A p \in DOMAIN procs' : WorkerOK(p)'
  BY OwnersNext DEF OwnInv
<1> QED
  BY <1>1, <1>2, <1>3 DEF OwnInv

\* ... and so it holds in every state the sessions reach.
THEOREM SessionOwnership == Spec => []OwnInv
  BY SessionInvariant, OwnInit, OwnNext, PTL DEF Spec

\* What a step does to the table and the workers of the session that takes it:
\* no model leaves, and no worker ends but the one of the request.
LEMMA RequestKeeps ==
    ASSUME NEW s \in Sessions, IInv,
           \A h \in Handles : models[s][h] # None => models'[s][h] # None,
           \/ procs' = procs
           \/ /\ job[s] # None
              /\ \A p \in DOMAIN procs : p # job[s].proc => procs'[p] = procs[p]
    PROVE  ModelsKept(s)
  BY DEF ModelsKept

\* A model that enters the table leaves the others in it.
LEMMA RegisterKeeps ==
    ASSUME NEW s \in Sessions, IInv, NEW proc \in Nat, Register(s, proc),
           pc[s] \in {"make", "starting"}
    PROVE  \A h \in Handles : models[s][h] # None => models'[s][h] # None
<1> DEFINE h0 == counter[s] + 1
           runner == [data |-> job[s].data, proc |-> proc]
<1>0. /\ job[s].data \in Data
      /\ models \in [Sessions -> [Handles -> [data : Data, proc : Nat] \union {None}]]
  BY DEF IInv, SessionOK, JobOK, TypeOK, TableTypes
<1>1. runner # None
  BY <1>0, NoneIsAbsence
<1>2. models' = [models EXCEPT ![s][h0] = runner]
  BY DEF Register
<1> HIDE DEF h0, runner
<1> QED
  BY <1>0, <1>1, <1>2

\* A runner that is closed was let go, and so was its worker.
LEMMA CloseKeeps ==
    ASSUME NEW s \in Sessions, IInv, NEW h \in Handles, CloseRunner(s, h), LetsGo(s, h)
    PROVE  ModelsKept(s)
<1>0. /\ ProcTypes /\ ModelOK(s)
      /\ models \in [Sessions -> [Handles -> [data : Data, proc : Nat] \union {None}]]
  BY DEF IInv, SessionOK, TypeOK, TableTypes
<1>1. \A k \in Handles : k # h => models'[s][k] = models[s][k]
  BY <1>0 DEF CloseRunner
<1>2. ASSUME NEW p \in DOMAIN procs, procs'[p] # procs[p]
      PROVE  models[s][h] # None /\ models[s][h].proc = p
  <2> DEFINE p0 == models[s][h].proc
  <2>1. models[s][h] # None /\ p0 # 0
    BY <1>2 DEF CloseRunner
  <2>2. p0 \in DOMAIN procs
    BY <1>0, <2>1 DEF ModelOK
  <2>3. procs' = [procs EXCEPT ![p0].state = "gone", ![p0].out = None]
    BY <2>1 DEF CloseRunner, Closed
  <2> HIDE DEF p0
  <2>4. \A q \in DOMAIN procs : q # p0 => procs'[q] = procs[q]
    BY <1>0, <2>2, <2>3, ProcsSet
  <2>5. p0 = p
    BY <1>2, <2>4
  <2> QED
    BY <2>1, <2>5 DEF p0
<1> QED
  BY <1>1, <1>2 DEF ModelsKept

\* The handler's steps, by what they touch: neither table nor workers ...
LEMMA PlainKeeps ==
    ASSUME NEW s \in Sessions, IInv,
           \/ Hello(s) \/ Take(s) \/ SeesHangUp(s) \/ Bad(s) \/ OpenFile(s) \/ WriteUnit(s)
           \/ WriteFails(s) \/ ReadFile(s) \/ Run(s) \/ XdnaDone(s) \/ XdnaLock(s) \/ Ended(s)
    PROVE  ModelsKept(s)
<1>1. models' = models /\ procs' = procs
  BY DEF Hello, Take, SeesHangUp, Bad, OpenFile, WriteUnit, WriteFails, ReadFile, Run, XdnaDone,
         XdnaLock, Ended
<1> QED
  BY <1>1, RequestKeeps

\* ... the table or the workers of a request that loads or runs a model ...
LEMMA LoadKeeps ==
    ASSUME NEW s \in Sessions, IInv,
           MakeInProcess(s) \/ MakeProxy(s) \/ Started(s) \/ Send(s) \/ Received(s)
    PROVE  ModelsKept(s)
<1> DEFINE p0 == job[s].proc
<1>0. /\ ProcTypes /\ procs \in Seq(Runners) /\ Busy(s) /\ job[s] \in Jobs /\ job[s] # None
      /\ p0 \in Nat /\ JobOK(s)
  <2>1. Busy(s)
    BY DEF MakeInProcess, MakeProxy, Started, Send, Received, Busy, Resting
  <2>2. job[s] \in Jobs
    BY <2>1 DEF IInv, TypeOK, HandlerTypes
  <2> QED
    BY <2>1, <2>2, NoneIsAbsence DEF IInv, TypeOK, ProcTypes, SessionOK, Jobs, Runners
<1>1. \A h \in Handles : models[s][h] # None => models'[s][h] # None
  <2>1. CASE models' = models
    BY <2>1
  <2>2. CASE \E proc \in Nat : Register(s, proc) /\ pc[s] \in {"make", "starting"}
    BY <2>2, RegisterKeeps
  <2> QED
    BY <1>0, <2>1, <2>2 DEF MakeInProcess, MakeProxy, Started, Send, Received
<1>2. CASE MakeInProcess(s)
  BY <1>1, <1>2, RequestKeeps DEF MakeInProcess
<1>3. CASE MakeProxy(s)
  <2>1. PICK worker : procs' = procs \/ procs' = Append(procs, worker)
    BY <1>3 DEF MakeProxy
  <2>2. \A p \in DOMAIN procs : procs'[p] = procs[p]
    BY <1>0, <2>1
  <2> QED
    BY <1>0, <1>1, <2>2, RequestKeeps
<1>4. CASE Started(s) \/ Send(s) \/ Received(s)
  <2>1. p0 \in DOMAIN procs
    BY <1>0, <1>4 DEF JobOK, Started, Send, Received
  <2>2. procs[p0].state \in {"starting", "idle", "busy", "gone"}
    <3>1. procs[p0] \in Runners
      BY <1>0, <2>1
    <3> QED
      BY <3>1 DEF Runners
  <2>3. \/ procs' = procs
        \/ procs' = [procs EXCEPT ![p0].state = "gone", ![p0].out = None]
        \/ procs' = [procs EXCEPT ![p0].state = "busy"]
        \/ procs' = [procs EXCEPT ![p0].out = None]
    BY <1>4 DEF Started, Send, Received, Closed
  <2> HIDE DEF p0
  <2>4. procs' = procs \/ \A p \in DOMAIN procs : p # p0 => procs'[p] = procs[p]
    BY <1>0, <2>1, <2>2, <2>3, ProcsSet
  <2> QED
    BY <1>0, <1>1, <2>4, RequestKeeps DEF p0
<1> QED
  BY <1>2, <1>3, <1>4

\* ... or both, for a model that is done with.
LEMMA ClosingKeeps ==
    ASSUME NEW s \in Sessions, IInv, Unload(s) \/ EndCloses(s)
    PROVE  ModelsKept(s)
<1>1. CASE Unload(s)
  <2>1. CloseRunner(s, job[s].request.handle) /\ LetsGo(s, job[s].request.handle)
    BY <1>1 DEF Unload, LetsGo
  <2>2. job[s].request.handle \in Handles
    <3>1. job[s] \in Jobs /\ job[s].request.op = "unload"
      BY <1>1 DEF Unload, Busy, Resting, IInv, TypeOK, HandlerTypes, SessionOK, JobOK
    <3> QED
      BY <3>1, RequestFields DEF Jobs
  <2> QED
    BY <2>1, <2>2, CloseKeeps
<1>2. CASE EndCloses(s)
  <2>1. PICK h \in Handles : CloseRunner(s, h)
    BY <1>2 DEF EndCloses
  <2>2. LetsGo(s, h)
    BY <1>2 DEF EndCloses, LetsGo
  <2> QED
    BY <2>1, <2>2, CloseKeeps
<1> QED
  BY <1>1, <1>2

\* Every step keeps the models of every session.
LEMMA KeepsNext ==
    ASSUME IInv, OwnInv, Next
    PROVE  \A q \in Sessions : ModelsKept(q)
<1>1. ASSUME NEW s \in Sessions, Serve(s) \/ XdnaLock(s), NEW q \in Sessions
      PROVE  ModelsKept(q)
  <2>1. CASE q = s
    BY <1>1, <2>1, PlainKeeps, LoadKeeps, ClosingKeeps DEF Serve
  <2>2. CASE q # s
    <3>1. CallerOK(s) /\ CountOK(s) /\ \A p \in DOMAIN procs : WorkerOK(p)
      BY DEF OwnInv
    <3>2. WorkersKept(s)
      BY <1>1, <3>1, BeforeWorker, MakeProxyOwned, WithWorker, AroundRequests DEF Serve
    <3>3. pc'[q] = pc[q] /\ models'[q] = models[q]
      BY <2>2, <3>2 DEF WorkersKept, OthersKeep
    <3> QED
      BY <3>3 DEF ModelsKept
  <2> QED
    BY <2>1, <2>2
<1>2. CASE Crash
  BY <1>2 DEF Crash, ModelsKept
<1>3. CASE \/ Restart
           \/ \E p \in DOMAIN procs : Work(p) \/ WorkerDies(p)
           \/ \E s \in Sessions : \/ Call(s) \/ Interrupted(s) \/ HangUp(s) \/ Listen(s)
  <2>1. pc' = pc /\ models' = models
    BY <1>3 DEF Restart, Call, Interrupted, HangUp, Listen, Welcomed, Return, ConnectionLost,
                Work, WorkerStarts, WorkerRuns, WorkerOrphaned, WorkerDies, handlers
  <2> QED
    BY <2>1 DEF ModelsKept
<1>4. CASE \E s \in Sessions : Connect(s)
  <2>1. procs' = procs /\ models' = models
    BY <1>4 DEF Connect
  <2> QED
    BY <2>1 DEF ModelsKept
<1> QED
  BY <1>1, <1>2, <1>3, <1>4 DEF Next

\* _handle: the error of a request is answered, and ends neither the session
\* nor a model in it.  A client that gave up no call and finds the connection
\* closed sent a message over the limit, or the server died; a handle leaves
\* the table by unload or at the end of the session, and only the worker of
\* the request, or of a model that leaves, is closed.
THEOREM SessionSurvives == Spec => SessionSurvivesErrors
<1>1. OwnInv => ConnectionKept
  BY DEF OwnInv, LostOK, ConnectionKept
<1>2. IInv /\ OwnInv /\ [Next]_vars =>
        [ConnectionKept' /\ \A s \in Sessions : ModelsKept(s)]_vars
  <2> SUFFICES ASSUME IInv, OwnInv, Next
               PROVE  ConnectionKept' /\ \A s \in Sessions : ModelsKept(s)
    OBVIOUS
  <2>1. OwnInv'
    BY OwnNext
  <2>2. OwnInv' => ConnectionKept'
    BY <1>1, PTL
  <2> QED
    BY <2>1, <2>2, KeepsNext
<1> QED
  BY <1>2, SessionInvariant, SessionOwnership, PTL DEF Spec, SessionSurvivesErrors

\* _TinygradProxy: a worker process that lives is in the table of its session
\* or in the request it is started or called by, and will be closed, unless
\* the server died.
THEOREM SessionWorkersOwned == Spec => []EveryWorkerOwned
<1>1. IInv /\ OwnInv => EveryWorkerOwned
  <2> SUFFICES ASSUME IInv, OwnInv, NEW p \in DOMAIN procs, procs[p].state # "gone", Orphan(p),
                      procs[p].owner \notin killed
               PROVE  FALSE
    BY DEF EveryWorkerOwned
  <2>1. procs[p].owner \in Sessions
    <3>1. procs \in Seq(Runners)
      BY DEF IInv, TypeOK, ProcTypes, Runners
    <3>2. procs[p] \in Runners
      BY <3>1
    <3> QED
      BY <3>2 DEF Runners
  <2>2. Owned(p)
    BY DEF OwnInv, WorkerOK
  <2>3. Busy(procs[p].owner) => job[procs[p].owner] # None
    BY <2>1, NoneIsAbsence DEF IInv, TypeOK, HandlerTypes
  <2> QED
    BY <2>2, <2>3 DEF Owned, Orphan
<1> QED
  BY <1>1, SessionInvariant, SessionOwnership, PTL
=============================================================================
