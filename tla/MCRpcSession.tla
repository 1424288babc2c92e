---------------------------- MODULE MCRpcSession ----------------------------
EXTENDS RpcSession

CONSTANTS s1, s2, a, b, f

\* One content of one unit, one of two.
MCSize == [c \in {a, b} |-> IF c = a THEN 1 ELSE 2]

Client(ops, runtimes, n) == [ops |-> ops, runtimes |-> runtimes, calls |-> n]
Two(c1, c2) == [s \in {s1, s2} |-> IF s = s1 THEN c1 ELSE c2]
Nobody == Client({}, {}, 0)

\* A client that works with handles, one with worker processes, one that makes
\* every kind of call; two that meet in the work directory or at the XDNA lock.
MCPlans ==
    { Two(Client({"load", "run", "unload"}, {"onnxruntime"}, 4), Nobody),
      Two(Client({"load", "run", "once"}, {"tinygrad"}, 3), Nobody),
      Two(Client(Ops, Runtimes, 2), Nobody),
      Two(Client({"upload", "load_name"}, {"onnxruntime"}, 2), Client({"upload"}, {}, 1)),
      Two(Client({"xdna", "close"}, {}, 1), Client({"xdna", "huge"}, {}, 2)) }
=============================================================================
