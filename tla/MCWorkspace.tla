---------------------------- MODULE MCWorkspace ----------------------------
(* A small instance of Workspace for TLC: ann's organization acme, with bob as an *)
(* admin and eve as a viewer, one service and one key; dan is a stranger to it.   *)
EXTENDS Workspace, TLC

CONSTANTS ann, bob, eve, dan, acme, beta, a, b, e, q1, q2, j1, j2, j3, s1, k1

MCSeated ==
  (a :> [organization |-> acme, user |-> ann, role |-> "OWNER"]) @@
  (b :> [organization |-> acme, user |-> bob, role |-> "ADMIN"]) @@
  (e :> [organization |-> acme, user |-> eve, role |-> "VIEWER"])
MCFounded == (acme :> ann) @@ (beta :> None)
MCDeployed == s1 :> [organization |-> acme, slug |-> "api", status |-> "operational"]
MCIssued == k1 :> s1

Do(op, user, organization, subject, role) ==
  [op |-> op, user |-> user, organization |-> organization, subject |-> subject, role |-> role]

\* Two managers add dan, and change and remove eve and each other, where they may
\* and where they may not; dan founds an organization and reaches from it for acme.
MCOffered ==
       {Do("create_organization", dan, o, None, None) : o \in {acme, beta}}
  \cup {Do("add_member", ann, acme, dan, "ADMIN"), Do("add_member", bob, acme, dan, "ENGINEER")}
  \cup {Do("update_member_role", u, acme, e, r) : u \in {ann, bob}, r \in {"ADMIN", "ENGINEER"}}
  \cup {Do("update_member_role", bob, acme, m, "VIEWER") : m \in {a, b, e}}
  \cup {Do("remove_member", u, acme, m, None) : u \in {ann, bob}, m \in {b, e}}
  \cup {Do("remove_member", dan, beta, e, None)}

Ask(op, user, target, organization, slug, status) ==
  [op |-> op, user |-> user, target |-> target, organization |-> organization,
   slug |-> slug, status |-> status]

\* The owner and the admin run the service; the admin reaches for its keys, and
\* eve, a viewer, for the service.
MCOrdered ==
       {Ask("create_service", bob, None, acme, s, None) : s \in {"api", "web"}}
  \cup {Ask("update_service", bob, s1, None, None, st) : st \in Status}
  \cup {Ask("update_service", u, s, None, "web", None) : <<u, s>> \in {<<ann, s1>>, <<ann, j1>>, <<eve, s1>>}}
  \cup {Ask("delete_service", bob, s1, None, None, None)}
  \cup {Ask("create_service_api_key", u, s1, None, None, None) : u \in {ann, bob}}
  \cup {Ask("revoke_api_key", ann, k, None, None, None) : k \in {k1, j1}}
  \cup {Ask("rotate_api_key", u, k1, None, None, None) : u \in {ann, bob}}
  \cup {Ask("ingest_event", None, k, None, None, None) : k \in {k1, j1}}

\* Calls name none of the permuted requests and jobs.
WorkspaceSymmetry == Permutations({q1, q2}) \cup Permutations({j2, j3})
=============================================================================
