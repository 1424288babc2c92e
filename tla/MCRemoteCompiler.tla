-------------------------- MODULE MCRemoteCompiler --------------------------
EXTENDS RemoteCompiler, TLC

CONSTANTS a1, a2, b1, A, B

\* Two threads of one process and one of another
TwoAndOne == (a1 :> A) @@ (a2 :> A) @@ (b1 :> B)
=============================================================================
