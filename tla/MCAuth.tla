-------------------------------- MODULE MCAuth --------------------------------
(* Two modules on the data plane and one on the admin plane.                 *)
EXTENDS AuthChain

CONSTANTS ldap, oidc, adminIdp

MCDataChain == <<ldap, oidc>>
MCAdminChain == <<adminIdp>>
=============================================================================
