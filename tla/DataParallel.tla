---------------------------- MODULE DataParallel ----------------------------
(***************************************************************************)
(* Data-parallel training over processes (onnxsim/distributed.py): the     *)
(* parent broadcasts the parameters over one pipe per worker, collects one *)
(* gradient of each, averages them and applies one Adam step.              *)
(*                                                                         *)
(* Parameters are represented by their version, the number of updates they *)
(* have been through, and a gradient by its worker and the version it was  *)
(* computed from.  A pipe is a FIFO in each direction; a message larger    *)
(* than its buffer keeps the sender until the other end has read it.       *)
(* Processes die at any moment; the death of the parent is left out.       *)
(***************************************************************************)
EXTENDS Naturals, Sequences

CONSTANTS N,         \* the number of shards, and so of workers
          NumSteps,  \* num_steps
          None       \* Python's None

ASSUME SizesType == N \in Nat \ {0} /\ NumSteps \in Nat
ASSUME NoneFresh == None \notin Nat

Workers == 1..N
Versions == 0..NumSteps

VARIABLES
    pc, next,   \* the parent: where it is, and the worker its loop is at
    raising,    \* an exception is on its way out
    t,          \* finished steps, and so the version of params
    grads,      \* grads_by_worker
    averaged,   \* what each apply step averaged
    down, up,   \* the two directions of each pipe
    closed,     \* the parent has closed its end
    worker,     \* where each worker is
    computing,  \* the version of the parameters it was last given
    fits,       \* the messages that fit in a pipe's buffer
    inherits,   \* workers are forked, and hold a copy of the parent's end
    entered     \* history: the try block has been entered

parent == <<pc, next, raising>>
training == <<t, grads, averaged>>
pipes == <<down, up, closed>>
workers == <<worker, computing>>
setup == <<fits, inherits, entered>>
vars == <<parent, training, pipes, workers, setup>>

\* A request is the version of the parameters in it; None ends the worker.
Gradients == [id : Workers, version : Versions]

\* The types of the parent's loop, the pipes and the workers.
TypeOK ==
    /\ pc \in {"spawn", "prepare", "send", "sending", "recv", "apply", "tell", "join", "done"}
    /\ next \in Workers /\ raising \in BOOLEAN
    /\ t \in Versions
    /\ grads \in [Workers -> Versions \union {None}]
    /\ averaged \in Seq([Workers -> Versions \union {None}])
    /\ down \in [Workers -> Seq(Versions \union {None})]
    /\ up \in [Workers -> Seq(Gradients)]
    /\ closed \in [Workers -> BOOLEAN]
    /\ worker \in [Workers -> {"new", "starting", "idle", "running", "sending", "gone"}]
    /\ computing \in [Workers -> Versions]
    /\ fits \subseteq {"params", "grads"} /\ inherits \in BOOLEAN
    /\ entered \in BOOLEAN

Init ==
    /\ pc = "spawn" /\ next = 1 /\ raising = FALSE
    /\ t = 0 /\ grads = [w \in Workers |-> None] /\ averaged = <<>>
    /\ down = [w \in Workers |-> <<>>] /\ up = [w \in Workers |-> <<>>]
    /\ closed = [w \in Workers |-> FALSE]
    /\ worker = [w \in Workers |-> "new"] /\ computing = [w \in Workers |-> 0]
    /\ fits \in SUBSET {"params", "grads"} /\ inherits \in BOOLEAN
    /\ entered = FALSE

-----------------------------------------------------------------------------
(* The parent *)

\* for conn in parent_conns: the next worker, or the first of the next loop.
Loop(here, after) ==
    IF next < N THEN pc' = here /\ next' = next + 1 ELSE pc' = after /\ next' = 1

\* Mutant: no finally clause.
RaiseAtOnce == pc' = "done" /\ next' = 1 /\ raising' = TRUE

\* An exception inside try: on to the finally clause.
Raise == pc' = "tell" /\ next' = 1 /\ raising' = TRUE

\* for t in range(num_steps)
RoundOrEnd(n) == IF n < NumSteps THEN "send" ELSE "tell"

Spawn ==
    /\ pc = "spawn"
    /\ worker' = [worker EXCEPT ![next] = "starting"]
    /\ Loop("spawn", "prepare")
    /\ UNCHANGED <<raising, training, pipes, computing, setup>>

\* process.start() raises, outside the try: nothing is cleaned up.
SpawnFails ==
    /\ pc = "spawn"
    /\ pc' = "done" /\ raising' = TRUE
    /\ UNCHANGED <<next, training, pipes, workers, setup>>

\* The initial parameters and the zero moments are built, and try is entered.
Prepare ==
    /\ pc = "prepare"
    /\ pc' = RoundOrEnd(t) /\ entered' = TRUE
    /\ UNCHANGED <<next, raising, training, pipes, workers, fits, inherits>>

\* initial_params lacks a name, or a value is no array of floats: every worker
\* has been started, and the try has not been entered.
PrepareFails ==
    /\ pc = "prepare"
    /\ pc' = "done" /\ raising' = TRUE
    /\ UNCHANGED <<next, training, pipes, workers, setup>>

Send ==
    /\ pc = "send" /\ worker[next] # "gone"
    /\ down' = [down EXCEPT ![next] = Append(@, t)]
    /\ IF "params" \in fits THEN Loop("send", "recv")
                            ELSE pc' = "sending" /\ UNCHANGED next
    /\ UNCHANGED <<raising, training, up, closed, workers, setup>>

\* The worker has read a message that did not fit.
SendCompletes ==
    /\ pc = "sending" /\ down[next] = <<>>
    /\ Loop("send", "recv")
    /\ UNCHANGED <<raising, training, pipes, workers, setup>>

\* BrokenPipeError: the only other holder of the worker's end is the worker.
SendBreaks ==
    /\ \/ pc = "send" /\ worker[next] = "gone"
       \/ pc = "sending" /\ worker[next] = "gone" /\ down[next] # <<>>
    /\ Raise
    /\ UNCHANGED <<training, pipes, workers, setup>>

\* shard.sample raises (an empty shard), before anything is sent.
SampleFails ==
    /\ pc = "send"
    /\ Raise
    /\ UNCHANGED <<training, pipes, workers, setup>>

Recv ==
    /\ pc = "recv" /\ up[next] # <<>>
    /\ LET reply == Head(up[next]) IN grads' = [grads EXCEPT ![reply.id] = reply.version]
    /\ up' = [up EXCEPT ![next] = Tail(@)]
    /\ Loop("recv", "apply")
    /\ UNCHANGED <<raising, t, averaged, down, closed, workers, setup>>

\* Mutant: a dead worker is left out of the average.
RecvSkipsDead ==
    /\ pc = "recv" /\ up[next] = <<>> /\ worker[next] = "gone"
    /\ Loop("recv", "apply")
    /\ UNCHANGED <<raising, training, pipes, workers, setup>>

\* Mutant: child_conn.close() is missing, and the parent's own copy of the
\* worker's end keeps the pipe from ending.
RecvNeverEnds ==
    /\ pc = "recv" /\ up[next] = <<>> /\ worker[next] = "gone" /\ closed[next]
    /\ Raise
    /\ UNCHANGED <<training, pipes, workers, setup>>

\* EOFError
RecvEnds ==
    /\ pc = "recv" /\ up[next] = <<>> /\ worker[next] = "gone"
    /\ Raise
    /\ UNCHANGED <<training, pipes, workers, setup>>

\* Average, one Adam step, and the next round's fresh grads_by_worker.
Apply ==
    /\ pc = "apply"
    /\ averaged' = Append(averaged, grads)
    /\ t' = t + 1
    /\ grads' = [w \in Workers |-> None]
    /\ pc' = RoundOrEnd(t + 1)
    /\ UNCHANGED <<next, raising, pipes, workers, setup>>

ApplyFails ==
    /\ pc = "apply"
    /\ Raise
    /\ UNCHANGED <<training, pipes, workers, setup>>

\* finally: conn.send(None); conn.close()
Tell ==
    /\ pc = "tell" /\ worker[next] # "gone"
    /\ down' = [down EXCEPT ![next] = Append(@, None)]
    /\ closed' = [closed EXCEPT ![next] = TRUE]
    /\ Loop("tell", "join")
    /\ UNCHANGED <<raising, training, up, workers, setup>>

\* conn.send(None) raises: the rest of the finally clause is skipped.
TellBreaks ==
    /\ pc = "tell" /\ worker[next] = "gone"
    /\ pc' = "done" /\ raising' = TRUE
    /\ UNCHANGED <<next, training, pipes, workers, setup>>

\* Mutant: the workers are not waited for.
JoinNoWait ==
    /\ pc = "join"
    /\ Loop("join", "done")
    /\ UNCHANGED <<raising, training, pipes, workers, setup>>

Join ==
    /\ pc = "join" /\ worker[next] = "gone"
    /\ Loop("join", "done")
    /\ UNCHANGED <<raising, training, pipes, workers, setup>>

-----------------------------------------------------------------------------
(* The workers *)

\* The session is built.
Ready(w) ==
    /\ worker[w] = "starting"
    /\ worker' = [worker EXCEPT ![w] = "idle"]
    /\ UNCHANGED <<parent, training, pipes, computing, setup>>

TakeBatch(w) ==
    /\ worker[w] = "idle" /\ down[w] # <<>> /\ Head(down[w]) # None
    /\ computing' = [computing EXCEPT ![w] = Head(down[w])]
    /\ down' = [down EXCEPT ![w] = Tail(@)]
    /\ worker' = [worker EXCEPT ![w] = "running"]
    /\ UNCHANGED <<parent, training, up, closed, setup>>

TakeStop(w) ==
    /\ worker[w] = "idle" /\ down[w] # <<>> /\ Head(down[w]) = None
    /\ down' = [down EXCEPT ![w] = Tail(@)]
    /\ worker' = [worker EXCEPT ![w] = "gone"]
    /\ UNCHANGED <<parent, training, up, closed, computing, setup>>

\* Nobody holds the parent's end of w's pipe any more.
HungUp(w) == closed[w] /\ ~inherits

Reply(w) ==
    /\ worker[w] = "running" /\ ~HungUp(w)
    /\ up' = [up EXCEPT ![w] = Append(@, [id |-> w, version |-> computing[w]])]
    /\ worker' = [worker EXCEPT ![w] = IF "grads" \in fits THEN "idle" ELSE "sending"]
    /\ UNCHANGED <<parent, training, down, closed, computing, setup>>

ReplyTaken(w) ==
    /\ worker[w] = "sending" /\ up[w] = <<>>
    /\ worker' = [worker EXCEPT ![w] = "idle"]
    /\ UNCHANGED <<parent, training, pipes, computing, setup>>

\* What a process that ends while it writes had written is no message.
Ends(w) ==
    /\ worker' = [worker EXCEPT ![w] = "gone"]
    /\ up' = [up EXCEPT ![w] = IF worker[w] = "sending" THEN <<>> ELSE @]
    /\ UNCHANGED <<parent, training, down, closed, computing, setup>>

\* BrokenPipeError: the worker ends.
ReplyBreaks(w) ==
    /\ worker[w] \in {"running", "sending"} /\ HungUp(w)
    /\ Ends(w)

\* The session cannot be built, session.run raises, or the process is killed.
Dies(w) ==
    /\ worker[w] \notin {"new", "gone"}
    /\ Ends(w)

-----------------------------------------------------------------------------
ParentSteps == \/ Spawn \/ Prepare \/ Send \/ SendCompletes \/ SendBreaks \/ Recv \/ RecvEnds
               \/ Apply \/ Tell \/ TellBreaks \/ Join

ParentFails == SpawnFails \/ PrepareFails \/ SampleFails \/ ApplyFails

WorkerSteps(w) == \/ Ready(w) \/ TakeBatch(w) \/ TakeStop(w) \/ Reply(w)
                  \/ ReplyTaken(w) \/ ReplyBreaks(w)

Next == \/ ParentSteps \/ ParentFails
        \/ \E w \in Workers : WorkerSteps(w) \/ Dies(w)

\* The operating system runs every process that can go on.
Fairness == WF_vars(ParentSteps) /\ \A w \in Workers : WF_vars(WorkerSteps(w))

Spec == Init /\ [][Next]_vars /\ Fairness

-----------------------------------------------------------------------------
(* Properties *)

\* What a caller sees of the call.
Status == IF pc # "done" THEN "training" ELSE IF raising THEN "raised" ELSE "returned"

Sync == INSTANCE SyncTraining WITH status <- Status

\* The processes and pipes implement synchronous training: every average is
\* over one gradient of each worker, all from the parameters the step began
\* with, whichever workers die and wherever the parent raises.
Synchronous == Sync!Spec

\* A call that returns leaves no process, no unread gradient and no open pipe
\* behind (the join of the finally clause is reached with every worker told).
ReturnsClean ==
    pc = "done" /\ ~raising =>
        \A w \in Workers : worker[w] = "gone" /\ closed[w] /\ up[w] = <<>>

\* Nothing has been sent to w, not even its None.
Unasked(w) == /\ ~closed[w] /\ down[w] = <<>>
              /\ worker[w] \in {"new", "starting", "idle", "gone"}

\* A call that has entered the try leaves a worker without its None only
\* behind a dead one in the list (conn.send(None) raises out of the finally
\* clause).  A call that raises before, in starting a process or in building
\* the parameters, tells no worker and has sent none anything: each one that
\* was started is left waiting for its first batch.
AbandonedOnlyBehindDead ==
    pc = "done" =>
        \A w \in Workers :
            worker[w] \notin {"new", "gone"} /\ ~closed[w] =>
                \/ \E v \in 1..(w - 1) : worker[v] = "gone"
                \/ ~entered /\ raising /\ \A v \in Workers : Unasked(v)

\* The parent joins a forked worker that is still writing a gradient which
\* nobody is going to read, into a pipe whose other end the worker itself
\* keeps open.
StuckJoin == pc = "join" /\ raising /\ inherits /\ worker[next] = "sending"

\* The call ends, whatever dies, except in StuckJoin: in particular the death
\* of a worker never leaves the parent waiting on its pipe.
Finishes == <>(pc = "done" \/ StuckJoin)
=============================================================================
