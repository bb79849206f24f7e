------------------------- MODULE StatLinearizability -------------------------
(***************************************************************************)
(* Is Stat atomic?  Spec 5 says read-only operations run under the       *)
(* shared lock; the code takes it once per findNode and once more in     *)
(* internalStat.  A ghost variable collects, for each Stat in progress,  *)
(* the outcome an atomic Stat (NamespaceAbs) would have had in each      *)
(* state between its call and its return: a linearizable Stat returns   *)
(* one of them.                                                          *)
(***************************************************************************)
EXTENDS BitBucketFS

VARIABLE poss  \* (ghost) outcomes Stat could linearize to, per process

(* What a caller can observe of an outcome. *)
Observable(r) == IF r = None THEN None ELSE [r EXCEPT !.resolved = None]

Now(q, n) == Observable(Abs!StatOutcome(q, n))

LinInit == Init /\ poss = [q \in Procs |-> {}]

(* A Stat starts with the outcome of its invocation state (StatFind     *)
(* changes no shared state); every later step, its return included,    *)
(* adds the outcome of the state it leads to.                           *)
LinNext ==
  /\ UNCHANGED level
  /\ \E p \in Procs :
       \/ \E n \in Names :
             /\ StatFind(p, n)
             /\ poss' = [poss EXCEPT ![p] = {Now(p, n)}]
       \/ /\ Step(p)
          /\ poss' = [q \in Procs |->
                         IF pc[q] = "idle" THEN poss[q]
                         ELSE poss[q] \cup {Now(q, n)' : n \in {arg[q]}}]

LinSpec == LinInit /\ [][LinNext]_<<vars, level, poss>>

(* Every Stat returns an outcome some single state during the call gives *)
(* an atomic Stat.                                                      *)
StatLinearizable ==
    (last # None /\ last.op = "Stat" /\ pc[last.proc] = "idle")
        => Observable(last) \in poss[last.proc]
=============================================================================
