------------------------------ MODULE Accounts ------------------------------
(***************************************************************************)
(* Tenants, their users and the tokens these act with (app/api/auth.py,    *)
(* app/api/admin/auth.py, app/api/deps.py, app/core/auth,                  *)
(* app/middleware/tenant.py).                                              *)
(*                                                                         *)
(* The endpoints are plain functions on pool threads, each with a session  *)
(* of its own, so requests interleave at every statement; SQLite has one   *)
(* write lock, which a session takes with its first INSERT and keeps to    *)
(* its commit.  Tokens are stateless: what the server has signed stays     *)
(* good whatever becomes of the user.  Their expiry is left out: a token   *)
(* that expires can do less than one that does not.                        *)
(*                                                                         *)
(* The first start, before any request, seeds a tenant without a user: the *)
(* runs begin after it.  Tenants are never deleted, so no later start      *)
(* seeds another one.                                                      *)
(***************************************************************************)
EXTENDS Naturals, Sequences, FiniteSets

CONSTANTS
  Requests, \* requests that may be in flight at the same time
  Slugs,    \* strings asked for as tenant slugs
  Demo,     \* the slug of the tenant that is seeded
  Emails,   \* spellings of email addresses
  Lower,    \* function: the lower case of a spelling
  MaxUsers, \* bound on the users, and on the registrations in flight with them
  None

Roles == {"owner", "admin", "employee"} \* "agent" has no rights of its own here
Admins == {"owner", "admin"}

User ==
  [tenant: Slugs, email: Emails, role: Roles, active: BOOLEAN]

(* What a request has read and what it asks for. *)
Registration ==
  [pc: {"flush", "email", "insert"}, slug: Slugs, email: Emails, role: Roles]
Verification == [pc: {"verify"}, id: Nat, user: User]

ASSUME AccountsAssumption ==
  /\ Slugs \subseteq STRING /\ Demo \in Slugs
  /\ None \notin Slugs \union {"assistant"} \union Requests
  /\ None \notin Registration \union Verification
  /\ Lower \in [Emails -> Emails] /\ \A e \in Emails : Lower[Lower[e]] = Lower[e]
  /\ MaxUsers \in Nat \ {0}

VARIABLES
  tenants, \* slugs of the committed Tenant rows
  users,   \* committed User rows; the id of a user is its position
  keys,    \* slugs of the tenants that have an admin API key
  tokens,  \* tokens that were signed
  req,     \* the state of each request, None between requests
  lock     \* the request whose transaction holds the write lock, or None

vars == <<tenants, users, keys, tokens, req, lock>>

(* lifespan, in a database without a tenant (main.py). *)
Seeded == {Demo}

Init ==
  /\ tenants = Seeded /\ users = <<>> /\ keys = {} /\ tokens = {}
  /\ req = [r \in Requests |-> None]
  /\ lock = None

----------------------------------------------------------------------------
(* _create_token: the claims are those of the user at the time. *)
Token(id, user, type) ==
  [sub |-> id, tenant |-> user.tenant, role |-> user.role, type |-> type]
Signed(id, user) == {Token(id, user, "access"), Token(id, user, "refresh")}

(* get_current_user: decode_token, then the row as it is now. *)
CurrentUser(token) ==
  /\ token.type = "access"
  /\ token.sub \in DOMAIN users
  /\ users[token.sub].active
  /\ users[token.sub].tenant = token.tenant

(* Mutant: the role is the one the token was signed with. *)
AdminBearerByClaim(token, slug) ==
  CurrentUser(token) /\ token.role \in Admins /\ users[token.sub].tenant = slug

(* admin_auth and _require_tenant_admin with a bearer token ... *)
AdminBearer(token, slug) ==
  CurrentUser(token) /\ users[token.sub].role \in Admins /\ users[token.sub].tenant = slug

(* ... or with an API key, which is that of one tenant. *)
AdminKey(key, slug) == key \in keys /\ key = slug

(* The paths of a tenant, from the segment after the version on. *)
AgentPath(slug) == <<slug, "assistant">>
AdminPath(slug) == <<"admin", slug>>

(* _extract_slug looks for an admin path first. *)
Extracted(path) ==
  IF path[1] = "admin" THEN path[2]
  ELSE IF path[2] \in {"assistant", "business"} THEN path[1] ELSE None

(* TenantMiddleware: the tenant of the path must exist. *)
PassesMiddleware(path) == Extracted(path) = None \/ Extracted(path) \in tenants

(* chat: get_tenant, get_current_user and the comparison of the two. *)
AgentServes(token, slug) ==
  /\ PassesMiddleware(AgentPath(slug))
  /\ slug \in tenants
  /\ CurrentUser(token) /\ users[token.sub].tenant = slug

AdminServes(token, slug) ==
  PassesMiddleware(AdminPath(slug)) /\ AdminBearer(token, slug) /\ slug \in tenants

----------------------------------------------------------------------------
At(r, pc) == req[r] # None /\ req[r].pc = pc
End(r) == req' = [req EXCEPT ![r] = None]

(* get_db closes the session, which rolls back what is not committed. *)
Release(r) == lock' = IF lock = r THEN None ELSE lock
Free(r) == lock \in {None, r}

(* The bound, which registrations in flight count against. *)
Room == Len(users) + Cardinality({r \in Requests : req[r] # None /\ req[r].pc # "verify"}) < MaxUsers

(* register as an owner: the SELECT of the tenant finds none. *)
RegisterOwner(r, slug, email) ==
  /\ req[r] = None /\ Room
  /\ slug \notin tenants
  /\ req' = [req EXCEPT ![r] = [pc |-> "flush", slug |-> slug, email |-> Lower[email],
                                role |-> "owner"]]
  /\ UNCHANGED <<tenants, users, keys, tokens, lock>>

(* Mutant: the tenant is committed before its owner. *)
FlushTenantCommits(r) ==
  /\ At(r, "flush") /\ Free(r)
  /\ IF req[r].slug \in tenants
     THEN End(r) /\ UNCHANGED <<lock, tenants>>
     ELSE /\ tenants' = tenants \union {req[r].slug}
          /\ req' = [req EXCEPT ![r].pc = "insert"] /\ UNCHANGED lock
  /\ UNCHANGED <<users, keys, tokens>>

(* INSERT of the tenant: the slug is unique; from here to the commit, past *)
(* the hashing of the password, the transaction holds the write lock.      *)
FlushTenant(r) ==
  /\ At(r, "flush") /\ Free(r)
  /\ IF req[r].slug \in tenants
     THEN End(r) /\ UNCHANGED lock \* IntegrityError
     ELSE req' = [req EXCEPT ![r].pc = "insert"] /\ lock' = r
  /\ UNCHANGED <<tenants, users, keys, tokens>>

Admitted(cred, slug) ==
  \/ cred.kind = "bearer" /\ AdminBearer(cred.token, slug)
  \/ cred.kind = "key" /\ AdminKey(cred.slug, slug)

Credentials ==
  [kind: {"bearer"}, token: tokens] \union [kind: {"key"}, slug: keys]

(* register in an existing tenant: who asks is checked here, once. *)
RegisterMember(r, slug, email, role, cred) ==
  /\ req[r] = None /\ Room
  /\ slug \in tenants /\ role # "owner"
  /\ Admitted(cred, slug)
  /\ req' = [req EXCEPT ![r] = [pc |-> "email", slug |-> slug, email |-> Lower[email],
                                role |-> role]]
  /\ UNCHANGED <<tenants, users, keys, tokens, lock>>

Registered(slug, email) ==
  {id \in DOMAIN users : users[id].tenant = slug /\ users[id].email = email}

(* The SELECT of the email: 409 if it is registered. *)
CheckEmail(r) ==
  /\ At(r, "email")
  /\ req' = [req EXCEPT ![r] =
       IF Registered(@.slug, @.email) = {} THEN [@ EXCEPT !.pc = "insert"] ELSE None]
  /\ UNCHANGED <<tenants, users, keys, tokens, lock>>

(* Mutant: no constraint on tenant and email. *)
TakenNever(r) == FALSE

(* uq_users_tenant_email, whatever the SELECT saw. *)
Taken(r) == Registered(req[r].slug, req[r].email) # {}

(* INSERT of the user and COMMIT, then the answer with its tokens. *)
Insert(r) ==
  LET user == [tenant |-> req[r].slug, email |-> req[r].email, role |-> req[r].role,
               active |-> TRUE] IN
  /\ At(r, "insert") /\ Free(r)
  /\ IF Taken(r) THEN UNCHANGED <<tenants, users, tokens>> \* IntegrityError
     ELSE /\ tenants' = tenants \union {req[r].slug}
          /\ users' = Append(users, user)
          /\ tokens' = tokens \union Signed(Len(users) + 1, user)
  /\ End(r) /\ Release(r)
  /\ UNCHANGED keys

(* A failing statement or commit, or a lock that is not released within    *)
(* the timeout of the driver: the session is closed and rolled back.       *)
Fails(r) ==
  /\ \/ At(r, "insert")
     \/ At(r, "flush") /\ ~Free(r)
  /\ End(r) /\ Release(r)
  /\ UNCHANGED <<tenants, users, keys, tokens>>

----------------------------------------------------------------------------
(* login: the row is read, then the password is verified, slowly. *)
Login(r, slug, email) ==
  /\ req[r] = None
  /\ slug \in tenants
  /\ \E id \in Registered(slug, Lower[email]) :
       /\ users[id].active
       /\ req' = [req EXCEPT ![r] = [pc |-> "verify", id |-> id, user |-> users[id]]]
  /\ UNCHANGED <<tenants, users, keys, tokens, lock>>

(* The password is right, or it is not. *)
Verify(r) ==
  /\ At(r, "verify")
  /\ tokens' \in {tokens, tokens \union Signed(req[r].id, req[r].user)}
  /\ End(r)
  /\ UNCHANGED <<tenants, users, keys, lock>>

(* refresh: the row must be active, the claims are made afresh. *)
Refresh(token) ==
  /\ token \in tokens /\ token.type = "refresh"
  /\ users[token.sub].active
  /\ tokens' = tokens \union Signed(token.sub, users[token.sub])
  /\ UNCHANGED <<tenants, users, keys, req, lock>>

(* External: an operator deactivates a user, takes the rights of an admin  *)
(* away, or gives a tenant an API key, in SQL.                             *)
Deactivate(id) ==
  /\ users[id].active
  /\ users' = [users EXCEPT ![id].active = FALSE]
  /\ UNCHANGED <<tenants, keys, tokens, req, lock>>

Demote(id) ==
  /\ users[id].role = "admin"
  /\ users' = [users EXCEPT ![id].role = "employee"]
  /\ UNCHANGED <<tenants, keys, tokens, req, lock>>

IssueKey(slug) ==
  /\ keys' = keys \union {slug}
  /\ UNCHANGED <<tenants, users, tokens, req, lock>>

(* The process ends: transactions are rolled back, tokens stay good. *)
Crash ==
  /\ \E r \in Requests : req[r] # None
  /\ req' = [r \in Requests |-> None]
  /\ lock' = None
  /\ UNCHANGED <<tenants, users, keys, tokens>>

Run(r) == FlushTenant(r) \/ CheckEmail(r) \/ Insert(r) \/ Fails(r) \/ Verify(r)

Ask(r) ==
  \/ \E slug \in Slugs, email \in Emails :
       \/ RegisterOwner(r, slug, email)
       \/ Login(r, slug, email)
       \/ \E role \in Roles, cred \in Credentials :
            RegisterMember(r, slug, email, role, cred)

Next ==
  \/ \E r \in Requests : Ask(r) \/ Run(r)
  \/ \E token \in tokens : Refresh(token)
  \/ \E id \in DOMAIN users : Deactivate(id) \/ Demote(id)
  \/ \E slug \in tenants : IssueKey(slug)
  \/ Crash

Spec == Init /\ [][Next]_vars

----------------------------------------------------------------------------
(* Rows, tokens and requests have their form. *)
TypeOK ==
  /\ tenants \subseteq Slugs /\ keys \subseteq tenants
  /\ users \in Seq(User)
  /\ tokens \subseteq [sub: DOMAIN users, tenant: Slugs, role: Roles, type: {"access", "refresh"}]
  /\ req \in [Requests -> Registration \union Verification \union {None}]
  /\ lock \in Requests \union {None}

(* However registrations overlap, fail or are cut short, a tenant has      *)
(* exactly one owner, the one whose registration created it, and every     *)
(* user belongs to a tenant.  The seeded tenant has no owner, for good: a  *)
(* registration cannot take it over.                                       *)
OneOwnerPerTenant ==
  /\ \A slug \in tenants :
       Cardinality({id \in DOMAIN users : users[id].tenant = slug /\ users[id].role = "owner"})
         = IF slug \in Seeded THEN 0 ELSE 1
  /\ \A id \in DOMAIN users : users[id].tenant \in tenants

(* A tenant has one account per email address, however it is spelled, also *)
(* when two registrations both found the address free.                     *)
AccountsAreDistinct ==
  \A i, j \in DOMAIN users :
    users[i].tenant = users[j].tenant /\ Lower[users[i].email] = Lower[users[j].email] => i = j

(* What a token is good for, in terms of the rows alone: its user is       *)
(* active, and a member or by now an admin of the tenant.  A tenant called *)
(* admin is the exception: its agent paths are taken for the admin paths   *)
(* of a tenant called assistant.                                           *)
Member(id, slug) == users[id].active /\ users[id].tenant = slug

(* Every token that was ever signed opens exactly what its user's row      *)
(* allows now: a login that read the row before it was changed, old claims *)
(* and refreshed tokens make no difference.                                *)
TokensFollowRows ==
  \A token \in tokens, slug \in Slugs :
    /\ AgentServes(token, slug) <=>
         /\ token.type = "access" /\ Member(token.sub, slug)
         /\ slug = "admin" => "assistant" \in tenants
    /\ AdminServes(token, slug) <=>
         token.type = "access" /\ Member(token.sub, slug) /\ users[token.sub].role \in Admins

----------------------------------------------------------------------------
(* The inductive invariant behind the three properties. *)

(* The first INSERT of a request begins its transaction: the lock is held  *)
(* by the registration of an owner whose tenant is not committed, and only *)
(* by one.                                                                 *)
LockIsOwners ==
  \A r \in Requests :
    /\ At(r, "flush") => req[r].role = "owner"
    /\ At(r, "email") => req[r].role # "owner"
    /\ lock = r <=> At(r, "insert") /\ req[r].role = "owner"
    /\ lock = r => req[r].slug \notin tenants
    /\ (At(r, "email") \/ At(r, "insert")) /\ req[r].role # "owner" =>
         req[r].slug \in tenants

(* The rows of the owners of a tenant. *)
Owners(slug) == {id \in DOMAIN users : users[id].tenant = slug /\ users[id].role = "owner"}

(* Users and owners come with their tenants, the seeded one excepted;      *)
(* addresses are stored and asked for in lower case, each once in a tenant.*)
RowsBelong ==
  /\ \A id \in DOMAIN users : users[id].tenant \in tenants
  /\ Seeded \subseteq tenants
  /\ \A slug \in Seeded : Owners(slug) = {}
  /\ \A slug \in tenants \ Seeded : \E id \in DOMAIN users : Owners(slug) = {id}
  /\ \A id \in DOMAIN users : Lower[users[id].email] = users[id].email
  /\ \A i, j \in DOMAIN users :
       users[i].tenant = users[j].tenant /\ users[i].email = users[j].email => i = j
  /\ \A r \in Requests : req[r] \in Registration => Lower[req[r].email] = req[r].email

(* A user never changes tenant, so a claim or a row that was read before   *)
(* still names the tenant of the user.                                     *)
ClaimsName ==
  /\ \A token \in tokens : users[token.sub].tenant = token.tenant
  /\ \A r \in Requests : req[r] \in Verification =>
       req[r].id \in DOMAIN users /\ users[req[r].id].tenant = req[r].user.tenant

IInv ==
  /\ LockIsOwners
  /\ RowsBelong
  /\ ClaimsName
=============================================================================
