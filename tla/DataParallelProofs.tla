------------------------- MODULE DataParallelProofs -------------------------
(***************************************************************************)
(* Proofs about DataParallel, for any number of workers and steps.         *)
(*                                                                         *)
(* The heart is Rounds: in a round a worker has exactly one piece of work  *)
(* under way, a request, a computation or a gradient, from the moment its  *)
(* request is sent until its gradient is read, and nothing at all outside. *)
(***************************************************************************)
EXTENDS DataParallel, TLAPS

\* Nothing is under way between the parent and w.
Quiet(w) == down[w] = <<>> /\ up[w] = <<>> /\ worker[w] # "running"

\* One piece of work of this round is under way, or w took it to its grave.
Busy(w) ==
    \/ down[w] = <<t>> /\ up[w] = <<>> /\ worker[w] # "running"
    \/ down[w] = <<>> /\ up[w] = <<>> /\ worker[w] = "running" /\ computing[w] = t
    \/ down[w] = <<>> /\ up[w] = <<[id |-> w, version |-> t]>> /\ worker[w] # "running"
    \/ down[w] = <<>> /\ up[w] = <<>> /\ worker[w] = "gone"

\* Nothing but the final None is under way.
Dismissed(w) == /\ down[w] \in {<<>>, <<None>>} /\ up[w] = <<>>
                /\ worker[w] # "running" /\ closed[w]

Rounds ==
    /\ pc \in {"spawn", "prepare"} => \A w \in Workers : Quiet(w)
    /\ pc = "send" => \A w \in Workers : IF w < next THEN Busy(w) ELSE Quiet(w)
    /\ pc = "sending" => \A w \in Workers : IF w <= next THEN Busy(w) ELSE Quiet(w)
    /\ pc = "recv" => \A w \in Workers : IF w < next THEN Quiet(w) /\ grads[w] = t
                                                     ELSE Busy(w)
    /\ pc = "apply" => \A w \in Workers : Quiet(w) /\ grads[w] = t
    /\ pc = "tell" /\ ~raising => \A w \in Workers : IF w < next THEN Dismissed(w)
                                                                 ELSE Quiet(w)
    /\ pc \in {"join", "done"} /\ ~raising => \A w \in Workers : Dismissed(w)

\* How far the training is.
Progress ==
    /\ Len(averaged) = t
    /\ pc \in {"spawn", "prepare"} => t = 0
    /\ pc \in {"spawn", "prepare", "send", "sending", "recv", "apply"} => ~raising
    /\ pc \in {"send", "sending", "recv", "apply"} => t < NumSteps
    /\ pc \in {"tell", "join", "done"} /\ ~raising => t = NumSteps
    /\ pc \in {"prepare", "apply"} => next = 1

\* Who has been told, and who has been waited for.
Endings ==
    /\ pc \in {"spawn", "prepare"} =>
            ~entered /\ \A w \in Workers : Unasked(w)
    /\ pc \notin {"spawn", "prepare", "done"} => entered
    /\ pc = "tell" => \A w \in Workers : w < next => closed[w]
    /\ pc = "join" => \A w \in Workers : closed[w] /\ (w < next => worker[w] = "gone")
    /\ pc = "done" => AbandonedOnlyBehindDead
    /\ pc = "done" /\ ~raising => \A w \in Workers : worker[w] = "gone"

IInv == TypeOK /\ Rounds /\ Progress /\ Endings

USE SizesType, NoneFresh

-----------------------------------------------------------------------------
(* Types *)

\* There is a first worker and a first version of the weights.
LEMMA OneWorks == 1 \in Workers /\ 0 \in Versions
  BY DEF Workers, Versions

\* An empty pipe is a pipe of anything.
LEMMA NothingSent == \A S : <<>> \in Seq(S)
  OBVIOUS

\* The types hold before the first worker is spawned.
LEMMA InitTypes == Init => TypeOK
<1> SUFFICES ASSUME Init PROVE TypeOK
  OBVIOUS
<1> USE DEF Init
<1>1. averaged \in Seq([Workers -> Versions \union {None}])
  BY NothingSent
<1>2. down \in [Workers -> Seq(Versions \union {None})]
  BY NothingSent
<1>3. up \in [Workers -> Seq(Gradients)]
  BY NothingSent
<1>4. grads \in [Workers -> Versions \union {None}]
  OBVIOUS
<1>5. computing \in [Workers -> Versions] /\ next \in Workers /\ t \in Versions
  BY OneWorks
<1> QED BY <1>1, <1>2, <1>3, <1>4, <1>5 DEF TypeOK

\* A loop over the workers stays among them and at one of its two places.
LEMMA LoopStays ==
  ASSUME NEW here, NEW after, next \in Workers, Loop(here, after)
  PROVE  next' \in Workers /\ pc' \in {here, after}
  BY DEF Loop, Workers

\* Every step keeps the types; t stays below NumSteps only because no round is
\* begun at NumSteps, so Progress is needed as well.
LEMMA StepTypes == TypeOK /\ Progress /\ [Next]_vars => TypeOK'
<1> SUFFICES ASSUME TypeOK, Progress, [Next]_vars PROVE TypeOK'
  OBVIOUS
<1> USE DEF TypeOK, Versions
<1>1. CASE Spawn \/ Prepare
  BY <1>1, LoopStays DEF Spawn, Prepare, RoundOrEnd, training, pipes, workers, setup
<1>2. CASE SpawnFails \/ PrepareFails
  BY <1>2 DEF SpawnFails, PrepareFails, training, pipes, workers, setup
<1>3. CASE Send
  BY <1>3, LoopStays DEF Send, training, workers, setup
<1>4. CASE SendCompletes
  BY <1>4, LoopStays DEF SendCompletes, training, pipes, workers, setup
<1>5. CASE SendBreaks \/ SampleFails \/ RecvEnds \/ ApplyFails
  BY <1>5, OneWorks DEF SendBreaks, SampleFails, RecvEnds, ApplyFails, Raise,
              training, pipes, workers, setup
<1>6. CASE Recv
  <2>1. Head(up[next]) \in Gradients /\ Tail(up[next]) \in Seq(Gradients)
    BY <1>6 DEF Recv
  <2> QED BY <1>6, <2>1, LoopStays DEF Recv, Gradients, workers, setup
<1>7. CASE Apply
  BY <1>7, SMTT(40) DEF Apply, RoundOrEnd, Progress, pipes, workers, setup
<1>8. CASE Tell
  BY <1>8, LoopStays, SMTT(40) DEF Tell, training, workers, setup
<1>9. CASE TellBreaks
  BY <1>9 DEF TellBreaks, training, pipes, workers, setup
<1>10. CASE Join
  BY <1>10, LoopStays DEF Join, training, pipes, workers, setup
<1>11. ASSUME NEW w \in Workers, Ready(w) \/ ReplyTaken(w) PROVE TypeOK'
  BY <1>11 DEF Ready, ReplyTaken, parent, training, pipes, setup
<1>12. ASSUME NEW w \in Workers, TakeBatch(w) \/ TakeStop(w) PROVE TypeOK'
  <2>1. Tail(down[w]) \in Seq(Versions \union {None})
    BY <1>12 DEF TakeBatch, TakeStop
  <2>2. TakeBatch(w) => Head(down[w]) \in Versions
    BY DEF TakeBatch
  <2>3. CASE TakeBatch(w)
    BY <2>1, <2>2, <2>3 DEF TakeBatch, parent, training, setup
  <2>4. CASE TakeStop(w)
    BY <2>1, <2>4 DEF TakeStop, parent, training, setup
  <2> QED BY <1>12, <2>3, <2>4
<1>13. ASSUME NEW w \in Workers, Reply(w) PROVE TypeOK'
  <2>1. [id |-> w, version |-> computing[w]] \in Gradients
    BY DEF Gradients
  <2> QED BY <1>13, <2>1 DEF Reply, parent, training, setup
<1>14. ASSUME NEW w \in Workers, ReplyBreaks(w) \/ Dies(w) PROVE TypeOK'
  <2>1. (IF worker[w] = "sending" THEN <<>> ELSE up[w]) \in Seq(Gradients)
    BY NothingSent
  <2>2. Ends(w)
    BY <1>14 DEF ReplyBreaks, Dies
  <2> QED BY <2>1, <2>2 DEF Ends, parent, training, setup
<1>15. CASE UNCHANGED vars
  BY <1>15 DEF vars, parent, training, pipes, workers, setup
<1> QED
  BY <1>1, <1>2, <1>3, <1>4, <1>5, <1>6, <1>7, <1>8, <1>9, <1>10, <1>11, <1>12, <1>13,
     <1>14, <1>15 DEF Next, ParentSteps, ParentFails, WorkerSteps

-----------------------------------------------------------------------------
(* The rounds *)

\* A pipe of one message gives that message and is empty after it.
LEMMA OneMessage ==
  \A x : /\ Append(<<>>, x) = <<x>> /\ Head(<<x>>) = x /\ Tail(<<x>>) = <<>>
         /\ <<x>> # <<>>
  OBVIOUS

\* What the steps of the workers do not disturb, for one worker v.
Undisturbed(v) ==
    /\ Quiet(v) => Quiet(v)'
    /\ Busy(v) => Busy(v)'
    /\ Dismissed(v) => Dismissed(v)'
    /\ Unasked(v) => Unasked(v)'
    /\ worker[v] = "gone" => worker'[v] = "gone"
    /\ worker[v] = "new" <=> worker'[v] = "new"

\* A worker's step moves its piece of work along and touches no other's.
LEMMA WorkerStep ==
  ASSUME TypeOK, NEW w \in Workers, WorkerSteps(w) \/ Dies(w)
  PROVE  UNCHANGED <<parent, training, closed, setup>> /\ \A v \in Workers : Undisturbed(v)
<1>0. t # None
  BY DEF TypeOK, Versions
<1>1. UNCHANGED <<parent, training, closed, setup>>
  BY DEF WorkerSteps, Dies, Ready, TakeBatch, TakeStop, Reply, ReplyTaken, ReplyBreaks, Ends,
         parent, training, pipes, setup
<1>2. ASSUME NEW v \in Workers, v # w PROVE Undisturbed(v)
  <2>1. down'[v] = down[v] /\ up'[v] = up[v] /\ worker'[v] = worker[v]
        /\ computing'[v] = computing[v]
    BY <1>2 DEF TypeOK, WorkerSteps, Dies, Ready, TakeBatch, TakeStop, Reply, ReplyTaken,
                ReplyBreaks, Ends, pipes, workers
  <2> QED BY <1>1, <2>1 DEF Undisturbed, Unasked, Quiet, Busy, Dismissed, training
<1>3. Undisturbed(w)
  <2> USE DEF TypeOK
  <2>1. CASE Ready(w) \/ ReplyTaken(w)
    <3>1. UNCHANGED <<down, up, computing>> /\ worker'[w] = "idle"
          /\ worker[w] \notin {"running", "gone", "new"}
      BY <2>1 DEF Ready, ReplyTaken, pipes
    <3> QED BY <1>1, <3>1 DEF Undisturbed, Unasked, Quiet, Busy, Dismissed, training
  <2>2. CASE TakeBatch(w)
    <3>1. /\ down'[w] = Tail(down[w]) /\ up' = up /\ worker'[w] = "running"
          /\ computing'[w] = Head(down[w]) /\ down[w] # <<>> /\ worker[w] = "idle"
          /\ Head(down[w]) # None
      BY <2>2 DEF TakeBatch
    <3> QED BY <1>1, <3>1, OneMessage DEF Undisturbed, Unasked, Quiet, Busy, Dismissed, training
  <2>3. CASE TakeStop(w)
    <3>1. /\ down'[w] = Tail(down[w]) /\ up' = up /\ worker'[w] = "gone"
          /\ down[w] # <<>> /\ worker[w] = "idle" /\ Head(down[w]) = None
      BY <2>3 DEF TakeStop
    <3> QED BY <1>0, <1>1, <3>1, OneMessage DEF Undisturbed, Unasked, Quiet, Busy, Dismissed, training
  <2>4. CASE Reply(w)
    <3>1. /\ down' = down /\ up'[w] = Append(up[w], [id |-> w, version |-> computing[w]])
          /\ worker'[w] \in {"idle", "sending"} /\ computing' = computing
          /\ worker[w] = "running"
      BY <2>4 DEF Reply
    <3> QED BY <1>1, <3>1, OneMessage DEF Undisturbed, Unasked, Quiet, Busy, Dismissed, training
  <2>5. CASE ReplyBreaks(w) \/ Dies(w)
    <3>1. /\ down' = down /\ worker'[w] = "gone" /\ up'[w] \in {<<>>, up[w]}
          /\ worker[w] # "new"
      BY <2>5 DEF ReplyBreaks, Dies, Ends
    <3> QED BY <1>1, <3>1 DEF Undisturbed, Unasked, Quiet, Busy, Dismissed, training
  <2> QED BY <2>1, <2>2, <2>3, <2>4, <2>5 DEF WorkerSteps
<1> QED BY <1>1, <1>2, <1>3

\* No step of a worker, its death included, disturbs what the parent counts on.
LEMMA WorkerStepKeeps ==
  ASSUME IInv, NEW w \in Workers, WorkerSteps(w) \/ Dies(w)
  PROVE  Rounds' /\ Progress' /\ Endings'
<1> USE DEF IInv
<1>1. UNCHANGED <<pc, next, raising, t, grads, averaged, closed, entered>>
      /\ \A v \in Workers : Undisturbed(v)
  BY WorkerStep DEF parent, training, setup
<1>2. Rounds'
  BY <1>1 DEF Rounds, Undisturbed
<1>3. Progress'
  BY <1>1 DEF Progress
<1>4. Endings'
  <2>1. pc = "done" => AbandonedOnlyBehindDead'
    BY <1>1, SMTT(30) DEF Endings, AbandonedOnlyBehindDead, Undisturbed, Workers
  <2> QED BY <1>1, <2>1 DEF Endings, Undisturbed
<1> QED BY <1>2, <1>3, <1>4
Kept == Rounds' /\ Progress' /\ Endings'

\* Where a for loop over the workers goes next.
LEMMA LoopCases ==
  ASSUME NEW here, NEW after, next \in Workers, Loop(here, after)
  PROVE  \/ next < N /\ pc' = here /\ next' = next + 1
         \/ next = N /\ pc' = after /\ next' = 1
  BY DEF Loop, Workers

\* Spawning a worker leaves every pipe empty.
LEMMA SpawnKeeps == IInv /\ Spawn => Kept
<1> SUFFICES ASSUME IInv, Spawn PROVE Kept
  OBVIOUS
<1> USE DEF IInv
<1>0. next \in Workers /\ worker \in [Workers -> {"new", "starting", "idle", "running", "sending", "gone"}]
      /\ Loop("spawn", "prepare") /\ t = 0 /\ ~raising /\ pc = "spawn"
  BY DEF TypeOK, Spawn, Progress
<1>1. UNCHANGED <<raising, t, grads, averaged, down, up, closed, computing, entered>>
      /\ worker' = [worker EXCEPT ![next] = "starting"]
  BY DEF Spawn, training, pipes, setup
<1>2. \A w \in Workers : Quiet(w)' /\ Unasked(w)'
  BY <1>0, <1>1 DEF Rounds, Endings, Quiet, Unasked
<1>3. \/ next < N /\ pc' = "spawn" /\ next' = next + 1
      \/ pc' = "prepare" /\ next' = 1
  BY <1>0, LoopCases
<1>4. Rounds'
  BY <1>0, <1>1, <1>2, <1>3 DEF Rounds
<1>5. Progress'
  BY <1>0, <1>1, <1>3 DEF Progress
<1>6. Endings'
  BY <1>0, <1>1, <1>2, <1>3 DEF Endings
<1> QED BY <1>4, <1>5, <1>6 DEF Kept

\* The first round, or the end of a training of no steps, finds every pipe empty.
LEMMA PrepareKeeps == IInv /\ Prepare => Kept
<1> SUFFICES ASSUME IInv, Prepare PROVE Kept
  OBVIOUS
<1> USE DEF IInv
<1>1. /\ pc = "prepare" /\ next = 1 /\ t = 0 /\ ~raising /\ entered'
      /\ UNCHANGED <<next, raising, t, grads, averaged, down, up, closed, worker, computing>>
      /\ pc' = RoundOrEnd(0)
  BY DEF Prepare, Progress, training, pipes, workers
<1>2. \A w \in Workers : Quiet(w)'
  BY <1>1 DEF Rounds, Quiet
<1>3. Rounds'
  BY <1>1, <1>2 DEF Rounds, RoundOrEnd, Workers
<1>4. Progress'
  BY <1>1 DEF Progress, RoundOrEnd
<1>5. Endings'
  BY <1>1 DEF Endings, RoundOrEnd, Workers
<1> QED BY <1>3, <1>4, <1>5 DEF Kept

\* An exception before the try leaves nobody told, as nobody was asked.
LEMMA EarlyKeeps == IInv /\ (SpawnFails \/ PrepareFails) => Kept
<1> SUFFICES ASSUME IInv, SpawnFails \/ PrepareFails PROVE Kept
  OBVIOUS
<1> USE DEF IInv
<1>1. /\ pc \in {"spawn", "prepare"} /\ pc' = "done" /\ raising'
      /\ UNCHANGED <<next, t, grads, averaged, down, up, closed, worker, computing, entered>>
  BY DEF SpawnFails, PrepareFails, training, pipes, workers, setup
<1>2. Rounds' /\ Progress'
  BY <1>1 DEF Rounds, Progress
<1>3. AbandonedOnlyBehindDead'
  BY <1>1 DEF Endings, AbandonedOnlyBehindDead, Unasked
<1> QED BY <1>1, <1>2, <1>3 DEF Kept, Endings

\* An exception on its way out leaves nothing to show about the rounds.
LEMMA RaiseKeeps ==
  ASSUME IInv, pc \in {"send", "sending", "recv", "apply"}, Raise,
         UNCHANGED <<training, pipes, workers, setup>>
  PROVE  Kept
<1>1. pc' = "tell" /\ next' = 1 /\ raising' /\ UNCHANGED <<t, averaged, entered>>
  BY DEF Raise, training, setup
<1> QED BY <1>1 DEF IInv, Kept, Rounds, Progress, Endings, Workers

\* The batch just sent is the one message under way for its worker.
LEMMA SendKeeps == IInv /\ Send => Kept
<1> SUFFICES ASSUME IInv, Send PROVE Kept
  OBVIOUS
<1> USE DEF IInv
<1>0. next \in Workers /\ pc = "send" /\ ~raising /\ t < NumSteps
      /\ down \in [Workers -> Seq(Versions \union {None})]
  BY DEF TypeOK, Send, Progress
<1>1. UNCHANGED <<raising, t, grads, averaged, up, closed, worker, computing, entered>>
      /\ down' = [down EXCEPT ![next] = Append(@, t)]
  BY DEF Send, training, workers, setup
<1>2. \/ next < N /\ pc' = "send" /\ next' = next + 1
      \/ next = N /\ pc' = "recv" /\ next' = 1
      \/ pc' = "sending" /\ next' = next
  BY <1>0, LoopCases DEF Send
<1>3. \A w \in Workers : IF w <= next THEN Busy(w)' ELSE Quiet(w)'
  <2> SUFFICES ASSUME NEW w \in Workers PROVE IF w <= next THEN Busy(w)' ELSE Quiet(w)'
    OBVIOUS
  <2>1. CASE w = next
    <3>1. Quiet(w)
      BY <1>0, <2>1 DEF Rounds, Workers
    <3> QED BY <1>0, <1>1, <2>1, <3>1, OneMessage DEF Quiet, Busy, Workers
  <2>2. CASE w # next
    <3>1. down'[w] = down[w] /\ (w <= next <=> w < next)
      BY <1>0, <1>1, <2>2 DEF Workers
    <3> QED BY <1>0, <1>1, <3>1 DEF Rounds, Quiet, Busy
  <2> QED BY <2>1, <2>2
<1>4. Rounds'
  BY <1>0, <1>1, <1>2, <1>3 DEF Rounds, Workers
<1>5. Progress'
  BY <1>0, <1>1, <1>2 DEF Progress
<1>6. Endings'
  BY <1>0, <1>1, <1>2 DEF Endings
<1> QED BY <1>4, <1>5, <1>6 DEF Kept

\* A send that had to wait for room moves on to the next worker.
LEMMA SendCompletesKeeps == IInv /\ SendCompletes => Kept
<1> SUFFICES ASSUME IInv, SendCompletes PROVE Kept
  OBVIOUS
<1> USE DEF IInv
<1>0. next \in Workers /\ pc = "sending" /\ ~raising /\ t < NumSteps
  BY DEF TypeOK, SendCompletes, Progress
<1>1. UNCHANGED <<raising, t, grads, averaged, down, up, closed, worker, computing, entered>>
  BY DEF SendCompletes, training, pipes, workers, setup
<1>2. \/ next < N /\ pc' = "send" /\ next' = next + 1
      \/ next = N /\ pc' = "recv" /\ next' = 1
  BY <1>0, LoopCases DEF SendCompletes
<1>3. \A w \in Workers : (Busy(w) => Busy(w)') /\ (Quiet(w) => Quiet(w)')
  BY <1>1 DEF Busy, Quiet
<1>4. Rounds'
  BY <1>0, <1>1, <1>2, <1>3 DEF Rounds, Workers
<1>5. Progress' /\ Endings'
  BY <1>0, <1>1, <1>2 DEF Progress, Endings
<1> QED BY <1>4, <1>5 DEF Kept
\* The gradient received is of this round: the worker was asked for no other.
LEMMA RecvKeeps == IInv /\ Recv => Kept
<1> SUFFICES ASSUME IInv, Recv PROVE Kept
  OBVIOUS
<1> USE DEF IInv
<1>0. next \in Workers /\ pc = "recv" /\ ~raising /\ t < NumSteps /\ up[next] # <<>>
      /\ up \in [Workers -> Seq(Gradients)] /\ grads \in [Workers -> Versions \union {None}]
  BY DEF TypeOK, Recv, Progress
<1>1. UNCHANGED <<raising, t, averaged, down, closed, worker, computing, entered>>
      /\ up' = [up EXCEPT ![next] = Tail(@)]
      /\ grads' = [grads EXCEPT ![Head(up[next]).id] = Head(up[next]).version]
  BY DEF Recv, workers, setup
<1>2. \/ next < N /\ pc' = "recv" /\ next' = next + 1
      \/ next = N /\ pc' = "apply" /\ next' = 1
  BY <1>0, LoopCases DEF Recv
<1>3. up[next] = <<[id |-> next, version |-> t]>> /\ down[next] = <<>>
      /\ worker[next] # "running"
  <2>1. Busy(next)
    BY <1>0 DEF Rounds, Workers
  <2> QED BY <1>0, <2>1 DEF Busy
<1>4. grads' = [grads EXCEPT ![next] = t] /\ up'[next] = <<>>
  <2>1. Head(up[next]) = [id |-> next, version |-> t] /\ Tail(up[next]) = <<>>
    BY <1>3, OneMessage
  <2>2. Head(up[next]).id = next /\ Head(up[next]).version = t
    BY <2>1
  <2> QED BY <1>0, <1>1, <2>1, <2>2
<1>5. \A w \in Workers : IF w <= next THEN Quiet(w)' /\ grads'[w] = t ELSE Busy(w)'
  <2> SUFFICES ASSUME NEW w \in Workers
               PROVE  IF w <= next THEN Quiet(w)' /\ grads'[w] = t ELSE Busy(w)'
    OBVIOUS
  <2>1. CASE w = next
    BY <1>0, <1>1, <1>3, <1>4, <2>1 DEF Quiet, Workers
  <2>2. CASE w # next
    <3>1. up'[w] = up[w] /\ grads'[w] = grads[w] /\ (w <= next <=> w < next)
      BY <1>0, <1>1, <1>4, <2>2 DEF Workers
    <3> QED BY <1>0, <1>1, <3>1 DEF Rounds, Quiet, Busy
  <2> QED BY <2>1, <2>2
<1>6. Rounds'
  BY <1>0, <1>1, <1>2, <1>5 DEF Rounds, Workers
<1>7. Progress' /\ Endings'
  BY <1>0, <1>1, <1>2 DEF Progress, Endings
<1> QED BY <1>6, <1>7 DEF Kept

\* What apply averages: every worker's gradient of the current parameters.
LEMMA ApplyAverages == IInv /\ Apply => grads = [w \in Workers |-> t]
  BY DEF IInv, Apply, TypeOK, Rounds

\* The step applied averages one gradient of this round from every worker.
LEMMA ApplyKeeps == IInv /\ Apply => Kept
<1> SUFFICES ASSUME IInv, Apply PROVE Kept
  OBVIOUS
<1> USE DEF IInv
<1>0. pc = "apply" /\ ~raising /\ t < NumSteps /\ next = 1 /\ t \in Nat /\ Len(averaged) = t
      /\ averaged \in Seq([Workers -> Versions \union {None}])
      /\ grads \in [Workers -> Versions \union {None}]
  BY DEF TypeOK, Apply, Progress, Versions
<1>1. UNCHANGED <<next, raising, down, up, closed, worker, computing, entered>>
      /\ averaged' = Append(averaged, grads) /\ t' = t + 1 /\ pc' = RoundOrEnd(t + 1)
  BY DEF Apply, pipes, workers, setup
<1>2. \A w \in Workers : Quiet(w)'
  BY <1>0, <1>1 DEF Rounds, Quiet
<1>3. pc' = "send" \/ pc' = "tell"
  BY <1>1 DEF RoundOrEnd
<1>4. Rounds'
  BY <1>0, <1>1, <1>2, <1>3 DEF Rounds, Workers
<1>5. Len(averaged') = t'
  BY <1>0, <1>1
<1>6. Progress'
  BY <1>0, <1>1, <1>5 DEF Progress, RoundOrEnd
<1>7. Endings'
  BY <1>0, <1>1, <1>3 DEF Endings, Workers
<1> QED BY <1>4, <1>6, <1>7 DEF Kept

\* The final None goes to a worker that owes nothing.
LEMMA TellKeeps == IInv /\ Tell => Kept
<1> SUFFICES ASSUME IInv, Tell PROVE Kept
  OBVIOUS
<1> USE DEF IInv
<1>0. next \in Workers /\ pc = "tell" /\ closed \in [Workers -> BOOLEAN]
      /\ down \in [Workers -> Seq(Versions \union {None})]
  BY DEF TypeOK, Tell
<1>1. UNCHANGED <<raising, t, grads, averaged, up, worker, computing, entered>>
      /\ down' = [down EXCEPT ![next] = Append(@, None)]
      /\ closed' = [closed EXCEPT ![next] = TRUE]
  BY DEF Tell, training, workers, setup
<1>2. \/ next < N /\ pc' = "tell" /\ next' = next + 1
      \/ next = N /\ pc' = "join" /\ next' = 1
  BY <1>0, LoopCases DEF Tell
<1>3. ASSUME ~raising, NEW w \in Workers
      PROVE  IF w <= next THEN Dismissed(w)' ELSE Quiet(w)'
  <2>1. CASE w = next
    <3>1. Quiet(w)
      BY <1>0, <1>3, <2>1 DEF Rounds, Workers
    <3> QED BY <1>0, <1>1, <2>1, <3>1, OneMessage DEF Quiet, Dismissed, Workers
  <2>2. CASE w # next
    <3>1. down'[w] = down[w] /\ closed'[w] = closed[w] /\ (w <= next <=> w < next)
      BY <1>0, <1>1, <2>2 DEF Workers
    <3> QED BY <1>0, <1>1, <1>3, <3>1 DEF Rounds, Quiet, Dismissed
  <2> QED BY <2>1, <2>2
<1>4. Rounds'
  BY <1>0, <1>1, <1>2, <1>3 DEF Rounds, Workers
<1>5. Progress'
  BY <1>0, <1>1, <1>2 DEF Progress
<1>6. Endings'
  BY <1>0, <1>1, <1>2 DEF Endings, Workers
<1> QED BY <1>4, <1>5, <1>6 DEF Kept

\* A None that cannot be delivered ends the loop behind a dead worker.
LEMMA TellBreaksKeeps == IInv /\ TellBreaks => Kept
<1> SUFFICES ASSUME IInv, TellBreaks PROVE Kept
  OBVIOUS
<1> USE DEF IInv
<1>1. /\ pc = "tell" /\ pc' = "done" /\ raising' /\ worker[next] = "gone"
      /\ UNCHANGED <<next, t, grads, averaged, down, up, closed, worker, computing, entered>>
      /\ next \in Workers
  BY DEF TellBreaks, TypeOK, training, pipes, workers, setup
<1>2. Rounds' /\ Progress'
  BY <1>1 DEF Rounds, Progress
<1>3. AbandonedOnlyBehindDead'
  <2>1. \A w \in Workers : w < next => closed[w]
    BY <1>1 DEF Endings
  <2> QED BY <1>1, <2>1 DEF AbandonedOnlyBehindDead, Workers
<1> QED BY <1>1, <1>2, <1>3 DEF Kept, Endings

\* Only a worker that is gone has been joined.
LEMMA JoinKeeps == IInv /\ Join => Kept
<1> SUFFICES ASSUME IInv, Join PROVE Kept
  OBVIOUS
<1> USE DEF IInv
<1>0. next \in Workers /\ pc = "join" /\ worker[next] = "gone"
  BY DEF TypeOK, Join
<1>1. UNCHANGED <<raising, t, grads, averaged, down, up, closed, worker, computing, entered>>
  BY DEF Join, training, pipes, workers, setup
<1>2. \/ next < N /\ pc' = "join" /\ next' = next + 1
      \/ next = N /\ pc' = "done" /\ next' = 1
  BY <1>0, LoopCases DEF Join
<1>3. \A w \in Workers : Dismissed(w) => Dismissed(w)'
  BY <1>1 DEF Dismissed
<1>4. Rounds' /\ Progress'
  BY <1>0, <1>1, <1>2, <1>3 DEF Rounds, Progress
<1>5. \A w \in Workers : closed[w] /\ (w <= next => worker[w] = "gone")
  BY <1>0 DEF Endings, Workers
<1>6. Endings'
  BY <1>0, <1>1, <1>2, <1>5 DEF Endings, AbandonedOnlyBehindDead, Workers
<1> QED BY <1>4, <1>6 DEF Kept

-----------------------------------------------------------------------------
(* Theorems *)

\* The inductive invariant holds at the start.
LEMMA InitInv == Init => IInv
<1> SUFFICES ASSUME Init PROVE IInv
  OBVIOUS
<1>1. TypeOK
  BY InitTypes
<1>2. Rounds
  BY DEF Init, Rounds, Quiet
<1>3. Progress /\ Endings
  BY DEF Init, Progress, Endings, Unasked
<1> QED BY <1>1, <1>2, <1>3 DEF IInv

\* Every step keeps the inductive invariant.
LEMMA StepInv == IInv /\ [Next]_vars => IInv'
<1> SUFFICES ASSUME IInv, [Next]_vars PROVE IInv'
  OBVIOUS
<1>1. TypeOK'
  BY StepTypes DEF IInv
<1>2. ASSUME ParentSteps \/ ParentFails PROVE Kept
  <2>1. CASE SendBreaks \/ SampleFails \/ RecvEnds \/ ApplyFails
    BY <2>1, RaiseKeeps DEF SendBreaks, SampleFails, RecvEnds, ApplyFails
  <2> QED BY <1>2, <2>1, SpawnKeeps, PrepareKeeps, EarlyKeeps, SendKeeps, SendCompletesKeeps, RecvKeeps,
             ApplyKeeps, TellKeeps, TellBreaksKeeps, JoinKeeps DEF ParentSteps, ParentFails
<1>3. ASSUME \E w \in Workers : WorkerSteps(w) \/ Dies(w) PROVE Kept
  BY <1>3, WorkerStepKeeps DEF Kept
<1>4. ASSUME UNCHANGED vars PROVE Kept
  <2>1. UNCHANGED <<pc, next, raising, t, grads, averaged, down, up, closed, worker, computing, entered>>
    BY <1>4 DEF vars, parent, training, pipes, workers, setup
  <2>2. \A w \in Workers : Undisturbed(w)
    BY <2>1 DEF Undisturbed, Unasked, Quiet, Busy, Dismissed
  <2> QED BY <2>1, <2>2 DEF IInv, Kept, Rounds, Progress, Endings, Undisturbed,
                            AbandonedOnlyBehindDead, Unasked
<1>5. Kept
  BY <1>2, <1>3, <1>4 DEF Next
<1> QED BY <1>1, <1>5 DEF IInv, Kept

\* The inductive invariant holds throughout.
LEMMA Invariance == Spec => []IInv
  BY InitInv, StepInv, PTL DEF Spec

\* The types hold for any number of workers and steps.
THEOREM TrainingTypes == Spec => []TypeOK
<1>1. IInv => TypeOK
  BY DEF IInv
<1> QED BY <1>1, Invariance, PTL

\* train_data_parallel returns only when every worker process has ended, its
\* pipe is closed and no gradient was left unread.
THEOREM TrainingReturnsClean == Spec => []ReturnsClean
<1>1. IInv => ReturnsClean
  BY DEF IInv, Rounds, Endings, ReturnsClean, Dismissed
<1> QED BY <1>1, Invariance, PTL

\* Whatever dies and wherever the parent raises: from the try on, only a worker
\* behind a dead one in the list goes without its None; before it, all of them
\* do, and none has been sent anything.
THEOREM TrainingAbandons == Spec => []AbandonedOnlyBehindDead
<1>1. IInv => AbandonedOnlyBehindDead
  BY DEF IInv, Endings, AbandonedOnlyBehindDead
<1> QED BY <1>1, Invariance, PTL

\* The processes and their pipes implement synchronous training: apply averages
\* one gradient per worker, all computed from the current parameters.
THEOREM TrainingIsSynchronous == Spec => Synchronous
<1>1. Init => Sync!Init
  BY DEF Init, Sync!Init, Status
<1>2. IInv /\ [Next]_vars => [Sync!Next]_<<averaged, Status>>
  <2> SUFFICES ASSUME IInv, [Next]_vars PROVE [Sync!Next]_<<averaged, Status>>
    OBVIOUS
  <2>0. Len(averaged) = t
    BY DEF IInv, Progress
  <2>1. CASE Apply
    <3>1. grads = [w \in Workers |-> Len(averaged)]
      BY <2>0, <2>1, ApplyAverages
    <3>2. Len(averaged) < NumSteps /\ pc = "apply"
      BY <2>0, <2>1 DEF IInv, Progress, Apply
    <3>3. Status = "training" /\ Status' = "training"
      BY <2>1 DEF Apply, Status, RoundOrEnd
    <3>4. averaged' = Append(averaged, grads)
      BY <2>1 DEF Apply
    <3> QED BY <3>1, <3>2, <3>3, <3>4 DEF Sync!Next, Sync!Step
  <2>2. CASE SpawnFails \/ PrepareFails \/ TellBreaks
    BY <2>2 DEF SpawnFails, PrepareFails, TellBreaks, Status, Sync!Next, Sync!Raise, training
  <2>3. CASE Join
    <3>1. UNCHANGED <<averaged, raising>> /\ pc = "join" /\ pc' \in {"join", "done"}
      BY <2>3, LoopStays DEF Join, training, IInv, TypeOK
    <3>2. ~raising => Len(averaged) = NumSteps
      BY <2>0, <3>1 DEF IInv, Progress
    <3> QED BY <3>1, <3>2 DEF Status, Sync!Next, Sync!Return, Sync!Raise
  <2>4. CASE Spawn \/ Prepare \/ Send \/ SendCompletes \/ Recv \/ Tell
    <3>1. averaged' = averaged /\ pc # "done"
      BY <2>4 DEF Spawn, Prepare, Send, SendCompletes, Recv, Tell, training
    <3>2. pc' # "done"
      BY <2>4 DEF Spawn, Prepare, Send, SendCompletes, Recv, Tell, Loop, RoundOrEnd
    <3> QED BY <3>1, <3>2 DEF Status
  <2>5. CASE SendBreaks \/ SampleFails \/ RecvEnds \/ ApplyFails
    BY <2>5 DEF SendBreaks, SampleFails, RecvEnds, ApplyFails, Raise, Status, training
  <2>6. CASE \E w \in Workers : WorkerSteps(w) \/ Dies(w)
    BY <2>6, WorkerStep DEF IInv, parent, training, Status
  <2>7. CASE UNCHANGED vars
    BY <2>7 DEF vars, parent, training, Status
  <2> QED BY <2>1, <2>2, <2>3, <2>4, <2>5, <2>6, <2>7 DEF Next, ParentSteps, ParentFails
<1> QED BY <1>1, <1>2, Invariance, PTL DEF Spec, Synchronous, Sync!Spec
=============================================================================
