----------------------------- MODULE Permissions -----------------------------
(***************************************************************************)
(* The roles of an organization, what each may do, and which roles a       *)
(* manager may touch.                                                      *)
(***************************************************************************)

Role == {"OWNER", "ADMIN", "ENGINEER", "VIEWER"}

READ_PERMISSIONS == {"organization:read", "member:read", "service:read",
                     "api_key:read", "event:read", "incident:read"}

OPERATOR_PERMISSIONS == READ_PERMISSIONS \cup {"incident:acknowledge", "incident:resolve"}

ADMIN_PERMISSIONS == OPERATOR_PERMISSIONS \cup
  {"service:create", "service:update", "service:delete", "member:manage", "audit_log:read"}

\* A fault: admins may do what is the owner's.
ADMINS_AS_OWNERS == [r \in Role |-> ADMIN_PERMISSIONS \cup {"organization:delete", "api_key:manage"}]

ROLE_PERMISSIONS ==
  [OWNER    |-> ADMIN_PERMISSIONS \cup {"organization:delete", "api_key:manage"},
   ADMIN    |-> ADMIN_PERMISSIONS,
   ENGINEER |-> OPERATOR_PERMISSIONS,
   VIEWER   |-> READ_PERMISSIONS]

\* A fault: managers are not told apart.
ManageAnyButOwner(actor_role, target_role) ==
  target_role # "OWNER" /\ actor_role \in {"OWNER", "ADMIN"}

\* Nobody makes, changes or removes an owner; an admin manages no admins.
can_manage_role(actor_role, target_role) ==
  /\ target_role # "OWNER"
  /\ \/ actor_role = "OWNER"
     \/ actor_role = "ADMIN" /\ target_role \in {"ENGINEER", "VIEWER"}
=============================================================================
