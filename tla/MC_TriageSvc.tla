---------------------------- MODULE MC_TriageSvc ----------------------------
(***************************************************************************)
(* Instances of TriageSvc for TLC.                                         *)
(***************************************************************************)
EXTENDS TriageSvc, TLC

CONSTANTS a, b, p, o, bad, ia, ib, io, h1, h2, v1

\* a and b arrive on anomaly.detected; p is POST /triage with the anomaly
\* of a; o is POST /optimisation; bad is a body that does not decode.
AllRequests == {a, b, p, o, bad}
InstancesOfAll == a :> ia @@ b :> ib @@ p :> ia @@ o :> io @@ bad :> ia
AllInstances == {ia, ib, io}
TheOptimisation == {io}

FewRequests == {a, p, o}
InstancesOfFew == a :> ia @@ p :> ia @@ o :> io
FewInstances == {ia, io}

OnlyBad == {bad}
OneReader == {v1}
TwoHandlers == {h1, h2}
HandlerSymmetry == Permutations(Handlers)
None == {}

\* Instance IDs, spelt out.  Teams and services of up to two letters get one ID
\* each while the services have no dash; "a-b" with "c" and "a" with "b-c", the
\* teams and services of two rows, share one (Identity_proofs has both for names
\* of any length).
Id == INSTANCE Identity

Names(letters) == UNION {[1..n -> letters] : n \in 0..2}

ASSUME InstanceIDsAreApart ==
  \A t1, t2 \in Names({"a", "b", "-"}), s1, s2 \in Names({"a", "b"}) :
    Id!workflowInstanceID(<<"d">>, t1, s1) = Id!workflowInstanceID(<<"d">>, t2, s2)
      => t1 = t2 /\ s1 = s2

ASSUME DashesCollide ==
  Id!workflowInstanceID(<<"d">>, <<"a", "-", "b">>, <<"c">>)
    = Id!workflowInstanceID(<<"d">>, <<"a">>, <<"b", "-", "c">>)
=============================================================================
