---------------------------- MODULE Permissions ----------------------------
(***************************************************************************)
(* The role table of app/permissions.py: what each project role may do.    *)
(***************************************************************************)

Role == {"owner", "admin", "editor", "reviewer", "viewer"}

ReadPermissions ==
    { "document:read", "schema:read", "comment:read", "review:read", "member:read" }

EditorPermissions ==
    ReadPermissions \cup
    { "document:write", "document:delete", "document:rollback", "document:validate",
      "comment:write", "review:create", "review:apply" }

ReviewerPermissions ==
    ReadPermissions \cup { "document:validate", "comment:write", "review:decide" }

OwnerPermissions ==
    EditorPermissions \cup ReviewerPermissions \cup
    { "document:restore", "schema:create", "member:manage", "audit:read",
      "export:read", "integrity:read" }

ROLE_PERMISSIONS ==
    [ owner |-> OwnerPermissions, admin |-> OwnerPermissions,
      editor |-> EditorPermissions, reviewer |-> ReviewerPermissions,
      viewer |-> ReadPermissions ]

HasPermission(role, permission) == permission \in ROLE_PERMISSIONS[role]
=============================================================================
