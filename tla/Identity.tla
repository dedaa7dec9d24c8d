------------------------------- MODULE Identity -------------------------------
(***************************************************************************)
(* The names under which rows, markers and workflow instances are kept     *)
(* (services/shared/finops/rollup.go, anomaly.go, optimisation.go and the  *)
(* two functions of services/triage-svc/main.go that make instance IDs).   *)
(*                                                                         *)
(* A string is a sequence of letters.  The words that the code writes in   *)
(* front are one letter each, so that only the letters of teams, services, *)
(* resources and actions are spelt out.  The other modules keep rows under *)
(* tuples and instances under model values: they may do so as long as two  *)
(* different tuples get two different names.                               *)
(***************************************************************************)
EXTENDS Integers, Sequences

Colon == ":"
Dash  == "-"
Words == {"rollup", "anomaly", "optimisation", "triage", "opt"}

\* fmt.Sprintf("<word>:%s:%s:%s", x, y, z)
Joined(word, x, y, z) ==
  <<word, Colon>> \o x \o <<Colon>> \o y \o <<Colon>> \o z

RollupKey(day, team, service) == Joined("rollup", day, team, service)

AnomalyID(day, team, service) == Joined("anomaly", day, team, service)

IdleResourceID(team, resource, action) ==
  Joined("optimisation", team, resource, action)

\* strings.ReplaceAll(s, ":", "-")
ReplaceAll(s) == [n \in 1..Len(s) |-> IF s[n] = Colon THEN Dash ELSE s[n]]

workflowInstanceID(day, team, service) ==
  <<"triage", Dash>> \o ReplaceAll(AnomalyID(day, team, service))

optimisationInstanceID(team, resource, action) ==
  <<"opt", Dash>> \o ReplaceAll(IdleResourceID(team, resource, action))

\* t goes on after s with a dash, as "team-data-eu" does after "team-data".
Continues(t, s) ==
  /\ Len(s) < Len(t)
  /\ t[Len(s) + 1] = Dash
  /\ \A n \in 1..Len(s) : t[n] = s[n]
=============================================================================
