\* Two accounts, two logins, one request and one connection.  Tokens of both kinds expire
\* at time 1, the editor's thanks to the leeway only; the process may restart, with the same
\* or another key.
CONSTANTS
    Accounts = {a1, a2}
    Users = {u1, u2, u3}
    Devices = {d1}
    AdminKeys = {k1, k2}
    AppleKey = AppleKey
    Editor = Editor
    Team = Team
    Logins = {l1, l2}
    Requests = {r1}
    Conns = {c1}
    Lifetime = 1
    EditorLifetime = 0
    SecretLifetime = 2
    Leeway = 1
    MaxTime = 1
    MaxTokens = 2
    None = None
SYMMETRY MCSymmetry
SPECIFICATION Spec
INVARIANTS
    AuthenticPrincipals
    OneUserPerAccount
    OutlivedByConnectionsOnly
PROPERTIES
    CatalogueByAdmin
CHECK_DEADLOCK FALSE
