---------------------------- MODULE MCAsyncWork ----------------------------
(* Model-checking instances of AsyncWork. *)
EXTENDS AsyncWork, TLC

CONSTANTS j1, j2, j3, j4, A, B

MCJobs == {j1, j2, j3, j4}
MCRequests == {A, B}

\* Request A is a watch request that a foreground call of another stage joins;
\* B has two watch calls that are alike.
MCRequestOf  == (j1 :> A) @@ (j2 :> A) @@ (j3 :> B) @@ (j4 :> B)
MCOriginOf   == (j1 :> "watch") @@ (j2 :> "foreground") @@ (j3 :> "watch") @@ (j4 :> "watch")
MCPriorityOf == (j1 :> 1) @@ (j2 :> 0) @@ (j3 :> 0) @@ (j4 :> 0)

Alike == Permutations({j3, j4})

\* Three calls, for the liveness run.
FewJobs       == {j1, j2, j3}
FewRequestOf  == [j \in FewJobs |-> MCRequestOf[j]]
FewOriginOf   == [j \in FewJobs |-> MCOriginOf[j]]
FewPriorityOf == [j \in FewJobs |-> MCPriorityOf[j]]
=============================================================================
