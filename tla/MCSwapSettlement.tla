-------------------------- MODULE MCSwapSettlement --------------------------
(* Instances of SwapSettlement for TLC. *)
EXTENDS SwapSettlement, TLC

CONSTANTS a1, a2, s1, s2, s3, t1, t2, t3, job1, job2

TwoAccounts == {a1, a2}
ThreeSwaps  == {s1, s2, s3}

\* s1 and s3 exchange a1 for a2, s2 the other way: their locks are taken in
\* opposite orders.
MCFrom == s1 :> a1 @@ s2 :> a2 @@ s3 :> a1
MCTo   == s1 :> a2 @@ s2 :> a1 @@ s3 :> a2
MCAmountIn == s1 :> 2 @@ s2 :> 1 @@ s3 :> 2
MCStart    == a1 :> 3 @@ a2 :> 0
RichStart  == a1 :> 4 @@ a2 :> 0

\* A single job beside a best-effort batch of two.
EffortJob   == t1 :> job1 @@ t2 :> job2 @@ t3 :> job2
EffortKind  == t1 :> "single" @@ t2 :> "effort" @@ t3 :> "effort"
EffortParts == t1 :> <<s1>> @@ t2 :> <<s2>> @@ t3 :> <<s3>>

\* A single job beside an atomic batch of two.
AtomicJob   == t1 :> job1 @@ t2 :> job2
AtomicKind  == t1 :> "single" @@ t2 :> "atomic"
AtomicParts == t1 :> <<s1>> @@ t2 :> <<s2, s3>>

\* A single job alone.
SingleJob   == t1 :> job1
SingleKind  == t1 :> "single"
SingleParts == t1 :> <<s1>>
=============================================================================
