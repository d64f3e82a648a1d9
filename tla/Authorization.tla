---------------------------- MODULE Authorization ----------------------------
(***************************************************************************)
(* Roles, permissions and ownership (core/authorization.py) and the        *)
(* dependencies that ask for them (api/dependencies.py).  An identifier    *)
(* comes as somebody wrote it: [id, padded], padded when it has spaces or  *)
(* capitals around the id.  A claim is a text, a list, a mapping or absent,*)
(* and holds a set of identifiers.                                         *)
(***************************************************************************)
EXTENDS Naturals, FiniteSets

Catalogue == {"admin:access", "internal:access", "posts:manage", "rate-limits:manage",
              "tiers:manage", "users:manage"}
Wildcard == "*"
DefaultRole == "authenticated"

RolePermissions ==
  [authenticated |-> {}, admin |-> Catalogue, superuser |-> {Wildcard}]
RoleInheritance ==
  [authenticated |-> {}, admin |-> {"authenticated"}, superuser |-> {"admin"}]

Claim(form, written) == [form |-> form, ids |-> written]
Absent == Claim("absent", {})
Written(id) == [id |-> id, padded |-> FALSE]
Padded(id) == [id |-> id, padded |-> TRUE]

(* _normalize_identifier_set: strip and lower, drop what is empty. *)
NormalizeSet(written) == {w.id : w \in written} \ {""}

(* _normalize_claim_values: a text is one identifier, a mapping is none. *)
ClaimValues(claim) ==
  IF claim.form = "list" \/ (claim.form = "text" /\ Cardinality(claim.ids) = 1)
  THEN NormalizeSet(claim.ids) ELSE {}

(* _normalize_scope_values: a text is split at its spaces. *)
ScopeValues(claim) == IF claim.form = "text" THEN NormalizeSet(claim.ids) ELSE ClaimValues(claim)

Inherited(role) == IF role \in DOMAIN RoleInheritance THEN RoleInheritance[role] ELSE {}

Inherit(roles) == roles \cup UNION {Inherited(r) : r \in roles}

(* expand_roles: inheritance followed to its end, which three roles have   *)
(* reached after three steps.                                              *)
ExpandRoles(roles) == Inherit(Inherit(Inherit(roles)))

PermissionsForRoles(roles) ==
  UNION {IF r \in DOMAIN RolePermissions THEN RolePermissions[r] ELSE {} : r \in ExpandRoles(roles)}

(* PermissionPolicy.build_subject *)
BuildSubject(p) ==
  LET roles == ExpandRoles(ClaimValues(p.roles) \cup {DefaultRole}
                 \cup (IF p.superuser THEN {"admin", "superuser"} ELSE {}))
  IN [name |-> p.name, roles |-> roles,
      permissions |-> PermissionsForRoles(roles) \cup ClaimValues(p.permissions) \cup ScopeValues(p.scopes)]

HasPermission(subject, permission) == {permission, Wildcard} \cap subject.permissions # {}

(* Mutant of EnsurePermissions: one of them is enough. *)
EnsureAnyPermission(subject, required) == \E p \in required : HasPermission(subject, p)

(* ensure_permissions, require_all: a refusal is a ForbiddenException. *)
EnsurePermissions(subject, required) == \A p \in required : HasPermission(subject, p)

(* is_resource_owner, by name *)
IsResourceOwner(subject, owner) == subject.name = owner

(* authorize_owner_or_permission *)
AuthorizeOwnerOrPermission(subject, owner, permission) ==
  IsResourceOwner(subject, owner) \/ EnsurePermissions(subject, {permission})
=============================================================================
