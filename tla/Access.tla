---------------------------------- MODULE Access ----------------------------------
(***************************************************************************)
(* Who may do what in the control plane: roles and their permissions       *)
(* (auth/principal.py).  Some permissions also need a second factor.       *)
(***************************************************************************)

MfaRequired ==
  {"exchange_connection:write", "risk_policy:write", "workspace:delete", "agent:promote"}

Viewer ==
  {"workspace:read", "member:read", "agent:read", "risk_policy:read", "run:read",
   "exchange_connection:read"}

Member ==
  Viewer \cup {"agent:create", "agent:update", "agent:archive", "run:start", "run:stop"}

Admin ==
  Member \cup {"workspace:update", "member:invite", "member:remove", "risk_policy:write",
               "agent:promote", "audit:read", "exchange_connection:write"}

Owner == Admin \cup {"workspace:delete"}

RolePermissions == [viewer |-> Viewer, member |-> Member, admin |-> Admin, owner |-> Owner]
Roles == DOMAIN RolePermissions

Has(role, mfa, permission) ==
  /\ permission \in RolePermissions[role]
  /\ permission \in MfaRequired => mfa
===================================================================================
