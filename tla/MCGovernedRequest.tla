-------------------------- MODULE MCGovernedRequest --------------------------
(* Requests for GovernedRequest: each family varies what one group of checks     *)
(* looks at and leaves the rest in order.                                     *)
EXTENDS GovernedRequest

CONSTANTS here, elsewhere, alice, bob, carol, right, wrong, name, status

Routes == {"people", Hire, "employment-records", "position-records", "analysis_write",
           "analysis_read"}

\* The policy a route should be given.
PolicyOf(route) ==
  [tenant |-> here, resource |-> Resource(route), purpose |-> route,
   operation |-> Operation(route), scope |-> right, fields |-> {name, status}]

Proper(route) ==
  [route |-> route, tenant |-> here, actor |-> alice, purpose |-> route,
   fields |-> {name, status}, defects |-> {}, frames |-> <<1, 1>>, ending |-> "complete",
   policy |-> PolicyOf(route)]

Malformed ==
  {[Proper(route) EXCEPT !.defects = d] :
     route \in Routes, d \in {e \in SUBSET Checks : Cardinality(e) \in 1..2}}
  \cup {[Proper(route) EXCEPT !.purpose = "hr__staffing", !.defects = {"purpose"}] :
          route \in Routes \cap Mutations}

\* Policies that are not the one of the route, or narrower.
Policies ==
  {PolicyOf(route) : route \in Routes}
  \cup {[PolicyOf(route) EXCEPT !.fields = {status}] : route \in Routes}
  \cup {[PolicyOf(route) EXCEPT !.tenant = elsewhere] : route \in Routes}

Access ==
  {[Proper(route) EXCEPT !.tenant = t, !.actor = a, !.purpose = p, !.fields = f,
                         !.policy = policy] :
     route \in Routes, t \in {here, elsewhere}, a \in {alice, bob},
     p \in {"people", "employment-records"}, f \in {{status}, {name, status}},
     policy \in Policies}

Streams ==
  {[Proper(route) EXCEPT !.frames = s, !.ending = e] :
     route \in Routes \cap Writes, e \in {"complete", "endless", "lost"},
     s \in UNION {[1..n -> 0..2] : n \in 0..4}}

MCRequests ==
  Malformed \cup Access \cup {r \in Streams : r.frames = <<>> => r.ending # "complete"}

MCPrincipals ==
  [tenant : {here}, actor : {alice, bob}, scopes : {{right}, {wrong}}]
  \cup [tenant : {elsewhere}, actor : {carol}, scopes : {{right}, {wrong}}]
==============================================================================
