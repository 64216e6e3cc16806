------------------------------- MODULE Accounts -------------------------------
(***************************************************************************)
(* Users, their trading accounts and their sessions, in the PostgreSQL     *)
(* that the gateway (registration, login, tokens) and the ledger           *)
(* (migration, seeding, accounts it opens by itself) share.                *)
(*                                                                         *)
(* A name has one account in two places: the gateway reserves funds from   *)
(* the account in the token, the ledger settles on the account it finds    *)
(* under the name in the event. Passwords always match, and the names of   *)
(* the services are not registered by users; nothing is sent under those   *)
(* of the account with id 0. Amounts are in Ledger.                        *)
(*                                                                         *)
(* The names of the specification have a prefix, as LedgerProofs extends   *)
(* this and Ledger. Operators named Wrong... are seeded faults, used only  *)
(* to test that the properties notice them.                                *)
(***************************************************************************)
EXTENDS Integers, FiniteSets, Sequences

CONSTANTS
  Registrants,      \* [name, email]: what users register with
  Unauthenticated,  \* names in events that no token stands for
  Clients,          \* connections to the gateway
  Admin, System, Market,  \* the users the services add
  AdminEmail, NoEmail,
  Nobody,           \* no name, no token
  MaxSessions,      \* bound: sessions ever
  MaxFailures       \* bound: crashes and failed statements

\* The names under which the gateway and the ledger look for accounts.
Names == {Admin, Market} \cup {r.name : r \in Registrants} \cup Unauthenticated

\* The account with id 0 is the sink of postings, and nobody's.
ASSUME SinkIsNobodys == {System, "system-sink"} \cap Names = {}

VARIABLES
  schema,     \* the schema files that were applied
  assets,     \* ledger.assets holds all assets
  users,      \* auth.users: name -> email
  accounts,   \* auth.accounts: id -> owner and name
  sessions,   \* auth.sessions, by id
  ledger,     \* where the ledger process is
  resolving,  \* the name it found no account for and is about to create
  pending,    \* names of the events in its queue
  settled,    \* what it settled: names with account ids
  gateway,    \* where the gateway process is
  handler,    \* the token each client's request is about to get
  cut,        \* a migration ended between its last two files
  failures

dbVars == <<schema, assets, users, accounts, sessions>>
ledgerVars == <<ledger, resolving, pending, settled, cut>>
gatewayVars == <<gateway, handler>>
accountsVars == <<dbVars, ledgerVars, gatewayVars, failures>>

AccountsInit ==
  /\ schema = {} /\ assets = FALSE /\ users = <<>> /\ accounts = <<>> /\ sessions = <<>>
  /\ ledger = "down" /\ resolving = Nobody /\ pending = {} /\ settled = {} /\ cut = FALSE
  /\ gateway = "down" /\ handler = [c \in Clients |-> Nobody]
  /\ failures = 0

-----------------------------------------------------------------------------
(* Rows. *)

With(table, key, row) ==
  [k \in DOMAIN table \cup {key} |-> IF k = key THEN row ELSE table[k]]

OwnedBy(name) == {id \in DOMAIN accounts : accounts[id].owner = name}
Named(name) == {id \in DOMAIN accounts : accounts[id].name = name}

\* BIGSERIAL; id 0 is given explicitly.
NextId == Cardinality(DOMAIN accounts \ {0}) + 1

AddUser(name, email) == users' = With(users, name, email)
AddAccount(id, owner, name) == accounts' = With(accounts, id, [owner |-> owner, name |-> name])

\* The user and its account, in one transaction; ON CONFLICT keeps what is there.
Upsert(name) ==
  /\ IF name \in DOMAIN users THEN UNCHANGED users ELSE AddUser(name, NoEmail)
  /\ IF OwnedBy(name) \cap Named(name) # {} THEN UNCHANGED accounts
     ELSE AddAccount(NextId, name, name)

-----------------------------------------------------------------------------
(* The ledger process starts: DB.Migrate, ensureAdminAccount,              *)
(* seedAssetsAndMarket. A file is one implicit transaction.                *)

Migrate ==
  /\ ledger = "down"
  /\ ledger' = IF "auth" \in schema THEN "admin" ELSE "init"
  /\ UNCHANGED <<dbVars, resolving, pending, settled, cut, gatewayVars, failures>>

\* Seeded: the check is made again before each file.
WrongApply(file, next) ==
  /\ ledger = file
  /\ schema' = schema \cup {file}
  /\ ledger' = IF file = "auth" THEN "admin" ELSE next
  /\ UNCHANGED <<assets, users, accounts, sessions, resolving, pending, settled, cut,
                 gatewayVars, failures>>

Apply(file, next) ==
  /\ ledger = file
  /\ schema' = schema \cup {file}
  /\ ledger' = next
  /\ UNCHANGED <<assets, users, accounts, sessions, resolving, pending, settled, cut,
                 gatewayVars, failures>>

EnsureAdminAccount ==
  /\ ledger = "admin"
  /\ AddUser(System, NoEmail) /\ AddAccount(0, System, "system-sink")
  /\ ledger' = "assets"
  /\ UNCHANGED <<schema, assets, sessions, resolving, pending, settled, cut, gatewayVars, failures>>

\* The assets, the user _market and its account: three statements, each of which
\* keeps what is there. (Its funds, the last, are left out.)
SeedAssets ==
  /\ ledger = "assets" /\ "ledger" \in schema
  /\ assets' = TRUE
  /\ ledger' = "user"
  /\ UNCHANGED <<schema, users, accounts, sessions, resolving, pending, settled, cut,
                 gatewayVars, failures>>

SeedUser ==
  /\ ledger = "user"
  /\ IF Market \in DOMAIN users THEN UNCHANGED users ELSE AddUser(Market, NoEmail)
  /\ ledger' = "account"
  /\ UNCHANGED <<schema, assets, accounts, sessions, resolving, pending, settled, cut,
                 gatewayVars, failures>>

SeedAccount ==
  /\ ledger = "account"
  /\ Upsert(Market)
  /\ ledger' = "running"
  /\ UNCHANGED <<schema, assets, sessions, resolving, pending, settled, cut, gatewayVars, failures>>

\* A statement fails: a warning, and the service runs. Without the ledger's
\* tables the first one does.
SeedFails ==
  /\ ledger \in {"assets", "user", "account"}
  /\ \/ ledger = "assets" /\ "ledger" \notin schema /\ UNCHANGED failures
     \/ failures < MaxFailures /\ failures' = failures + 1
  /\ ledger' = "running"
  /\ UNCHANGED <<dbVars, resolving, pending, settled, cut, gatewayVars>>

LedgerStart ==
  \/ Migrate \/ EnsureAdminAccount \/ SeedAssets \/ SeedUser \/ SeedAccount \/ SeedFails
  \/ Apply("init", "auth") \/ Apply("auth", "ledger") \/ Apply("ledger", "admin")

\* The process ends, by itself when a file or ensureAdminAccount fails.
LedgerCrash ==
  /\ ledger # "down" /\ failures < MaxFailures
  /\ ledger' = "down" /\ resolving' = Nobody
  /\ cut' = (cut \/ ledger = "ledger")
  /\ failures' = failures + 1
  /\ UNCHANGED <<dbVars, pending, settled, gatewayVars>>

-----------------------------------------------------------------------------
(* The ledger's consumer finds the account of a name or opens one          *)
(* (GetOrCreateTradingAccount), then settles. An event that cannot be      *)
(* settled ends in the dead letter queue, and its account stays.           *)

Settle(name, id) ==
  /\ settled' = IF "ledger" \in schema /\ assets THEN settled \cup {<<name, id>>} ELSE settled
  /\ pending' = pending \ {name}

FindAccount(name) ==
  /\ ledger = "running" /\ resolving = Nobody /\ name \in pending
  /\ \/ /\ \E id \in Named(name) : Settle(name, id)
        /\ UNCHANGED resolving
     \/ /\ Named(name) = {}
        /\ resolving' = name
        /\ UNCHANGED <<pending, settled>>
  /\ UNCHANGED <<dbVars, ledger, cut, gatewayVars, failures>>

CreateAccount ==
  /\ resolving # Nobody
  /\ Upsert(resolving)
  /\ \E id \in DOMAIN accounts' :
       /\ accounts'[id].owner = resolving /\ accounts'[id].name = resolving
       /\ Settle(resolving, id)
  /\ resolving' = Nobody
  /\ UNCHANGED <<schema, assets, sessions, ledger, cut, gatewayVars, failures>>

-----------------------------------------------------------------------------
(* The gateway. *)

\* SeedDefaultAdmin: a missing table reads as a missing user.
GatewayStart ==
  /\ gateway = "down"
  /\ gateway' = IF Admin \in DOMAIN users THEN "serving" ELSE "seeding"
  /\ UNCHANGED <<dbVars, ledgerVars, handler, failures>>

Taken(email) == \E n \in DOMAIN users : users[n] = email

\* A transaction that fails is only given up.
SeedDefaultAdmin ==
  /\ gateway = "seeding"
  /\ IF "auth" \in schema /\ Admin \notin DOMAIN users /\ ~Taken(AdminEmail)
     THEN AddUser(Admin, AdminEmail) /\ AddAccount(NextId, Admin, Admin)
     ELSE UNCHANGED <<users, accounts>>
  /\ gateway' = "serving"
  /\ UNCHANGED <<schema, assets, sessions, ledgerVars, handler, failures>>

\* Seeded: the account has the default name of the schema's comment.
WrongRegister(c, r) ==
  /\ gateway = "serving" /\ handler[c] = Nobody
  /\ "auth" \in schema /\ r.name \notin DOMAIN users /\ ~Taken(r.email)
  /\ AddUser(r.name, r.email) /\ AddAccount(NextId, r.name, "Main")
  /\ handler' = [handler EXCEPT ![c] = [name |-> r.name, account |-> NextId]]
  /\ UNCHANGED <<schema, assets, sessions, ledgerVars, gateway, failures>>

\* handleRegister adds the user and its account in a transaction; the names and
\* addresses of users are unique.
Register(c, r) ==
  /\ gateway = "serving" /\ handler[c] = Nobody
  /\ "auth" \in schema /\ r.name \notin DOMAIN users /\ ~Taken(r.email)
  /\ AddUser(r.name, r.email) /\ AddAccount(NextId, r.name, r.name)
  /\ handler' = [handler EXCEPT ![c] = [name |-> r.name, account |-> NextId]]
  /\ UNCHANGED <<schema, assets, sessions, ledgerVars, gateway, failures>>

\* handleLogin: any account of the user. One the ledger opened has neither a
\* password nor an address.
Login(c, name) ==
  /\ gateway = "serving" /\ handler[c] = Nobody
  /\ name \in DOMAIN users /\ users[name] # NoEmail
  /\ \E id \in OwnedBy(name) :
       handler' = [handler EXCEPT ![c] = [name |-> name, account |-> id]]
  /\ UNCHANGED <<dbVars, ledgerVars, gateway, failures>>

\* issueToken, which writes the session (or fails, and the user has to log in).
IssueToken(c) ==
  /\ handler[c] # Nobody
  /\ \/ /\ Len(sessions) < MaxSessions
        /\ sessions' = Append(sessions, [name |-> handler[c].name, account |-> handler[c].account,
                                         open |-> TRUE])
        /\ UNCHANGED failures
     \/ /\ failures < MaxFailures /\ failures' = failures + 1
        /\ UNCHANGED sessions
  /\ handler' = [handler EXCEPT ![c] = Nobody]
  /\ UNCHANGED <<schema, assets, users, accounts, ledgerVars, gateway>>

\* handleLogout, or the session's day is over.
Close(s) ==
  /\ sessions[s].open
  /\ sessions' = [sessions EXCEPT ![s].open = FALSE]
  /\ UNCHANGED <<schema, assets, users, accounts, ledgerVars, gatewayVars, failures>>

\* A request that RequireAuth lets through becomes an event under the token's
\* name ...
Request(s) ==
  /\ gateway = "serving" /\ sessions[s].open
  /\ pending' = pending \cup {sessions[s].name}
  /\ UNCHANGED <<dbVars, ledger, resolving, settled, cut, gatewayVars, failures>>

\* ... as those of the market data service, and of a gateway without
\* authentication, do under any name.
Event(name) ==
  /\ pending' = pending \cup {name}
  /\ UNCHANGED <<dbVars, ledger, resolving, settled, cut, gatewayVars, failures>>

GatewayCrash ==
  /\ gateway # "down" /\ failures < MaxFailures
  /\ gateway' = "down" /\ handler' = [c \in Clients |-> Nobody]
  /\ failures' = failures + 1
  /\ UNCHANGED <<dbVars, ledgerVars>>

-----------------------------------------------------------------------------

AccountsNext ==
  \/ LedgerStart \/ LedgerCrash \/ CreateAccount
  \/ \E n \in pending : FindAccount(n)
  \/ GatewayStart \/ SeedDefaultAdmin \/ GatewayCrash
  \/ \E c \in Clients, r \in Registrants : Register(c, r)
  \/ \E c \in Clients, n \in DOMAIN users : Login(c, n)
  \/ \E c \in Clients : IssueToken(c)
  \/ \E s \in DOMAIN sessions : Close(s) \/ Request(s)
  \/ \E n \in Unauthenticated : Event(n)

AccountsSpec == AccountsInit /\ [][AccountsNext]_accountsVars
-----------------------------------------------------------------------------
(* Properties. *)

\* Whoever opens it first, the gateway or the ledger, and whatever fails in
\* between: every user has one account, except _market between its two
\* statements, and what its tokens reserve from is what the ledger settles on.
AccountsAgree ==
  /\ \A n \in DOMAIN users \ {Market} : Cardinality(OwnedBy(n)) = 1
  /\ Cardinality(OwnedBy(Market)) <= 1
  /\ \A id \in DOMAIN accounts : accounts[id].owner \in DOMAIN users
  /\ \A s \in DOMAIN sessions : OwnedBy(sessions[s].name) = {sessions[s].account}
  /\ \A p \in settled : OwnedBy(p[1]) = {p[2]}

\* A running ledger lacks its tables in one case, and then for good: a start was
\* cut off after the tables of the users, which are all that Migrate looks for.
SchemaMissingOnlyIfCut ==
  ledger = "running" => ("ledger" \notin schema <=> cut)
=============================================================================
