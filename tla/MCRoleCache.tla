----------------------------- MODULE MCRoleCache -----------------------------
EXTENDS RoleCache
=============================================================================
