SPECIFICATION AccountsSpec

CONSTANTS
  Registrants <- MCRegistrants
  Unauthenticated = {"alice"}
  Clients = {c1}
  Admin = "admin"
  System = "system"
  Market = "_market"
  AdminEmail = "admin@x"
  NoEmail = NoEmail
  Nobody = Nobody
  MaxSessions = 2
  MaxFailures = 2

INVARIANTS
  AccountsAgree
  SchemaMissingOnlyIfCut
