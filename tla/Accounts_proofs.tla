--------------------------- MODULE Accounts_proofs ---------------------------
(***************************************************************************)
(* Theorems about Accounts, for any number of tenants, users, requests in  *)
(* flight, failures and crashes.                                           *)
(***************************************************************************)
EXTENDS Accounts, FiniteSetTheorems, SequenceTheorems, TLAPS

USE AccountsAssumption

(* The pc of a request tells which of the two forms it has. *)
LEMMA Forms ==
  ASSUME TypeOK, NEW r \in Requests
  PROVE  /\ At(r, "flush") \/ At(r, "email") \/ At(r, "insert") => req[r] \in Registration
         /\ At(r, "verify") => req[r] \in Verification
         /\ req[r] \in Registration \union Verification => req[r] # None
         /\ req[r] \in Registration => req[r].pc # "verify"
BY DEF TypeOK, At, Registration, Verification

(* Deactivate and Demote leave a row where it is, of its tenant and with   *)
(* its address, and make or unmake no owner.                               *)
LEMMA RowEdited ==
  ASSUME TypeOK, NEW id \in DOMAIN users, Deactivate(id) \/ Demote(id)
  PROVE  /\ users' \in Seq(User)
         /\ DOMAIN users' = DOMAIN users
         /\ \A i \in DOMAIN users :
              /\ users'[i].tenant = users[i].tenant
              /\ users'[i].email = users[i].email
              /\ users'[i].role = "owner" <=> users[i].role = "owner"
         /\ UNCHANGED <<tenants, keys, tokens, req, lock>>
<1>1. users \in Seq(User) /\ users[id] \in User
  BY DEF TypeOK
<1>2. CASE Deactivate(id)
  <2>1. [users[id] EXCEPT !.active = FALSE] \in User
    BY <1>1 DEF User
  <2>2. users' = [users EXCEPT ![id] = [users[id] EXCEPT !.active = FALSE]]
    BY <1>2 DEF Deactivate
  <2>3. users' \in Seq(User) /\ DOMAIN users' = DOMAIN users
    BY <1>1, <2>1, <2>2
  <2>4. \A i \in DOMAIN users :
          /\ users'[i].tenant = users[i].tenant
          /\ users'[i].email = users[i].email
          /\ users'[i].role = users[i].role
    BY <1>1, <2>2 DEF User
  <2>5. QED
    BY <1>2, <2>3, <2>4 DEF Deactivate
<1>3. CASE Demote(id)
  <2>1. [users[id] EXCEPT !.role = "employee"] \in User
    BY <1>1 DEF User, Roles
  <2>2. users' = [users EXCEPT ![id] = [users[id] EXCEPT !.role = "employee"]]
    BY <1>3 DEF Demote
  <2>3. users' \in Seq(User) /\ DOMAIN users' = DOMAIN users
    BY <1>1, <2>1, <2>2
  <2>4. \A i \in DOMAIN users :
          /\ users'[i].tenant = users[i].tenant
          /\ users'[i].email = users[i].email
          /\ users'[i].role = "owner" <=> users[i].role = "owner"
    BY <1>1, <1>3, <2>2 DEF User, Demote
  <2>5. QED
    BY <1>3, <2>3, <2>4 DEF Demote
<1>4. QED
  BY <1>2, <1>3

(* Insert adds the row asked for behind the others, and its tenant. *)
LEMMA RowAdded ==
  ASSUME TypeOK, NEW r \in Requests, Insert(r), ~Taken(r)
  PROVE  LET n == Len(users) + 1
             user == [tenant |-> req[r].slug, email |-> req[r].email,
                      role |-> req[r].role, active |-> TRUE] IN
         /\ req[r] \in Registration /\ user \in User
         /\ n \in Nat /\ n \notin DOMAIN users
         /\ users' \in Seq(User)
         /\ DOMAIN users' = DOMAIN users \union {n}
         /\ \A i \in DOMAIN users : users'[i] = users[i]
         /\ users'[n] = user
         /\ tenants' = tenants \union {req[r].slug}
         /\ tokens' = tokens \union Signed(n, user)
         /\ UNCHANGED keys
<1> DEFINE user == [tenant |-> req[r].slug, email |-> req[r].email,
                    role |-> req[r].role, active |-> TRUE]
<1>1. req[r] \in Registration
  BY Forms DEF Insert
<1>2. user \in User
  BY <1>1 DEF Registration, User
<1>3. users \in Seq(User) /\ users' = Append(users, user)
  BY DEF Insert, TypeOK
<1>4. /\ tenants' = tenants \union {req[r].slug}
      /\ tokens' = tokens \union Signed(Len(users) + 1, user)
      /\ UNCHANGED keys
  BY DEF Insert
<1> HIDE DEF user
<1>5. /\ users' \in Seq(User)
      /\ Len(users') = Len(users) + 1
      /\ \A i \in 1..Len(users) : users'[i] = users[i]
      /\ users'[Len(users) + 1] = user
  BY <1>2, <1>3, AppendProperties
<1>6. QED
  BY <1>1, <1>2, <1>3, <1>4, <1>5 DEF user

(* A signed token names a user there is and that user's tenant. *)
LEMMA SignedTokens ==
  ASSUME NEW id, NEW user \in User, NEW token \in Signed(id, user)
  PROVE  /\ token.sub = id /\ token.tenant = user.tenant
         /\ token \in [sub: {id}, tenant: Slugs, role: Roles, type: {"access", "refresh"}]
BY DEF Signed, Token, User

(* A request that is granted asks for a tenant and an address of its type. *)
LEMMA TypeOKStep == TypeOK /\ ClaimsName /\ [Next]_vars => TypeOK'
<1> SUFFICES ASSUME TypeOK, ClaimsName, [Next]_vars
             PROVE  TypeOK'
  OBVIOUS
<1>1. ASSUME NEW r \in Requests, NEW slug \in Slugs, NEW email \in Emails,
             \/ RegisterOwner(r, slug, email)
             \/ \E role \in Roles, cred \in Credentials :
                  RegisterMember(r, slug, email, role, cred)
      PROVE  TypeOK'
  <2>1. PICK reg \in Registration : req' = [req EXCEPT ![r] = reg]
    BY <1>1 DEF RegisterOwner, RegisterMember, Registration, Roles
  <2>2. UNCHANGED <<tenants, users, keys, tokens, lock>>
    BY <1>1 DEF RegisterOwner, RegisterMember
  <2>3. QED
    BY <2>1, <2>2 DEF TypeOK
<1>2. ASSUME NEW r \in Requests, NEW slug \in Slugs, NEW email \in Emails,
             Login(r, slug, email)
      PROVE  TypeOK'
  <2>1. PICK id \in DOMAIN users :
          req' = [req EXCEPT ![r] = [pc |-> "verify", id |-> id, user |-> users[id]]]
    BY <1>2 DEF Login, Registered
  <2>2. [pc |-> "verify", id |-> id, user |-> users[id]] \in Verification
    BY <2>1 DEF TypeOK, Verification
  <2>3. QED
    BY <1>2, <2>1, <2>2 DEF Login, TypeOK
<1>3. ASSUME NEW r \in Requests, FlushTenant(r) PROVE TypeOK'
  <2>1. req[r] \in Registration
    BY <1>3, Forms DEF FlushTenant
  <2>2. [req[r] EXCEPT !.pc = "insert"] \in Registration
    BY <2>1 DEF Registration
  <2>3. QED
    BY <1>3, <2>2 DEF FlushTenant, End, TypeOK
<1>4. ASSUME NEW r \in Requests, CheckEmail(r) PROVE TypeOK'
  <2>1. req[r] \in Registration
    BY <1>4, Forms DEF CheckEmail
  <2>2. [req[r] EXCEPT !.pc = "insert"] \in Registration
    BY <2>1 DEF Registration
  <2>3. QED
    BY <1>4, <2>2 DEF CheckEmail, TypeOK
<1>5. ASSUME NEW r \in Requests, Insert(r) PROVE TypeOK'
  <2>1. req' = [req EXCEPT ![r] = None] /\ lock' \in Requests \union {None}
    BY <1>5 DEF Insert, End, Release, TypeOK
  <2>2. CASE Taken(r)
    BY <1>5, <2>1, <2>2 DEF Insert, TypeOK
  <2>3. CASE ~Taken(r)
    <3> DEFINE user == [tenant |-> req[r].slug, email |-> req[r].email,
                        role |-> req[r].role, active |-> TRUE]
               n == Len(users) + 1
    <3>1. /\ req[r] \in Registration /\ user \in User
          /\ users' \in Seq(User) /\ DOMAIN users' = DOMAIN users \union {n}
          /\ tenants' = tenants \union {req[r].slug}
          /\ tokens' = tokens \union Signed(n, user) /\ UNCHANGED keys
      BY <1>5, <2>3, RowAdded
    <3> HIDE DEF user, n
    <3>2. \A token \in Signed(n, user) :
            token \in [sub: {n}, tenant: Slugs, role: Roles, type: {"access", "refresh"}]
      BY <3>1, SignedTokens
    <3>3. tokens' \subseteq
            [sub: DOMAIN users', tenant: Slugs, role: Roles, type: {"access", "refresh"}]
      BY <3>1, <3>2 DEF TypeOK
    <3>4. tenants' \subseteq Slugs
      BY <3>1 DEF TypeOK, Registration
    <3>5. QED
      BY <2>1, <3>1, <3>3, <3>4 DEF TypeOK
  <2>4. QED
    BY <2>2, <2>3
<1>6. ASSUME NEW r \in Requests, Fails(r) PROVE TypeOK'
  BY <1>6 DEF Fails, End, Release, TypeOK
<1>7. ASSUME NEW r \in Requests, Verify(r) PROVE TypeOK'
  <2>1. req[r] \in Verification /\ req[r].user \in User /\ req[r].id \in DOMAIN users
    BY <1>7, Forms DEF Verify, ClaimsName, Verification
  <2>2. \A token \in Signed(req[r].id, req[r].user) :
          token \in [sub: {req[r].id}, tenant: Slugs, role: Roles, type: {"access", "refresh"}]
    BY <2>1, SignedTokens
  <2>3. tokens' \subseteq
          [sub: DOMAIN users, tenant: Slugs, role: Roles, type: {"access", "refresh"}]
    BY <1>7, <2>1, <2>2 DEF Verify, TypeOK
  <2>4. QED
    BY <1>7, <2>3 DEF Verify, End, TypeOK
<1>8. ASSUME NEW token \in tokens, Refresh(token) PROVE TypeOK'
  <2>1. token.sub \in DOMAIN users /\ users[token.sub] \in User
    BY DEF TypeOK
  <2>2. \A t \in Signed(token.sub, users[token.sub]) :
          t \in [sub: {token.sub}, tenant: Slugs, role: Roles, type: {"access", "refresh"}]
    BY <2>1, SignedTokens
  <2>3. tokens' \subseteq
          [sub: DOMAIN users, tenant: Slugs, role: Roles, type: {"access", "refresh"}]
    BY <1>8, <2>1, <2>2 DEF Refresh, TypeOK
  <2>4. QED
    BY <1>8, <2>3 DEF Refresh, TypeOK
<1>9. ASSUME NEW id \in DOMAIN users, Deactivate(id) \/ Demote(id) PROVE TypeOK'
  BY <1>9, RowEdited DEF TypeOK
<1>10. ASSUME NEW slug \in tenants, IssueKey(slug) PROVE TypeOK'
  BY <1>10 DEF IssueKey, TypeOK
<1>11. ASSUME Crash PROVE TypeOK'
  BY <1>11 DEF Crash, TypeOK
<1>12. CASE UNCHANGED vars
  BY <1>12 DEF vars, TypeOK
<1>13. QED
  BY <1>1, <1>2, <1>3, <1>4, <1>5, <1>6, <1>7, <1>8, <1>9, <1>10, <1>11, <1>12
     DEF Next, Ask, Run

(* While an owner registers, nobody else commits a tenant. *)
LEMMA LockIsOwnersStep == TypeOK /\ LockIsOwners /\ [Next]_vars => LockIsOwners'
<1> SUFFICES ASSUME TypeOK, LockIsOwners, [Next]_vars
             PROVE  LockIsOwners'
  OBVIOUS
<1>1. ASSUME NEW r \in Requests, NEW slug \in Slugs, NEW email \in Emails,
             \/ RegisterOwner(r, slug, email)
             \/ \E role \in Roles, cred \in Credentials :
                  RegisterMember(r, slug, email, role, cred)
             \/ Login(r, slug, email)
      PROVE  LockIsOwners'
  <2>1. /\ req[r] = None /\ lock # r
        /\ UNCHANGED <<tenants, lock>>
    BY <1>1 DEF RegisterOwner, RegisterMember, Login, LockIsOwners, At
  <2>2. \E x \in Registration \union Verification :
          /\ req' = [req EXCEPT ![r] = x]
          /\ x.pc \in {"flush", "email", "verify"}
          /\ x.pc = "flush" => x.role = "owner"
          /\ x.pc = "email" => x.role # "owner" /\ x.slug \in tenants
    <3>1. CASE RegisterOwner(r, slug, email)
      <4> DEFINE x == [pc |-> "flush", slug |-> slug, email |-> Lower[email], role |-> "owner"]
      <4> x \in Registration \union Verification
        BY DEF Registration, Roles
      <4> WITNESS x \in Registration \union Verification
      <4> QED
        BY <3>1 DEF RegisterOwner
    <3>2. CASE \E role \in Roles, cred \in Credentials :
                 RegisterMember(r, slug, email, role, cred)
      <4>1. PICK role \in Roles, cred \in Credentials :
              RegisterMember(r, slug, email, role, cred)
        BY <3>2
      <4> DEFINE x == [pc |-> "email", slug |-> slug, email |-> Lower[email], role |-> role]
      <4> x \in Registration \union Verification
        BY DEF Registration
      <4> WITNESS x \in Registration \union Verification
      <4> QED
        BY <4>1 DEF RegisterMember
    <3>3. CASE Login(r, slug, email)
      <4>1. PICK id \in DOMAIN users :
              req' = [req EXCEPT ![r] = [pc |-> "verify", id |-> id, user |-> users[id]]]
        BY <3>3 DEF Login, Registered
      <4> DEFINE x == [pc |-> "verify", id |-> id, user |-> users[id]]
      <4> x \in Registration \union Verification
        BY DEF Verification, TypeOK
      <4> WITNESS x \in Registration \union Verification
      <4> QED
        BY <4>1
    <3>4. QED
      BY <1>1, <3>1, <3>2, <3>3
  <2>3. QED
    BY <2>1, <2>2 DEF LockIsOwners, At, TypeOK
<1>2. ASSUME NEW r \in Requests, FlushTenant(r) PROVE LockIsOwners'
  <2>1. req[r] \in Registration /\ req[r].role = "owner" /\ UNCHANGED tenants
    BY <1>2, Forms DEF FlushTenant, LockIsOwners
  <2>2. CASE req[r].slug \in tenants
    BY <1>2, <2>1, <2>2 DEF FlushTenant, End, LockIsOwners, At, TypeOK
  <2>3. CASE req[r].slug \notin tenants
    <3> DEFINE x == [req[r] EXCEPT !.pc = "insert"]
    <3>1. x \in Registration /\ x.pc = "insert" /\ x.role = "owner" /\ x.slug = req[r].slug
      BY <2>1 DEF Registration
    <3>2. x # None
      BY <3>1
    <3>3. req' = [req EXCEPT ![r] = x] /\ lock' = r /\ lock \in {None, r}
      BY <1>2, <2>3 DEF FlushTenant, Free
    <3> HIDE DEF x
    <3>4. QED
      BY <2>1, <2>3, <3>1, <3>2, <3>3 DEF LockIsOwners, At, TypeOK
  <2>4. QED
    BY <2>2, <2>3
<1>3. ASSUME NEW r \in Requests, CheckEmail(r) PROVE LockIsOwners'
  <2>1. req[r] \in Registration /\ UNCHANGED <<tenants, lock>>
    BY <1>3, Forms DEF CheckEmail
  <2>2. req[r].role # "owner" /\ req[r].slug \in tenants /\ lock # r
    BY <1>3 DEF CheckEmail, LockIsOwners, At
  <2> DEFINE x == [req[r] EXCEPT !.pc = "insert"]
  <2>3. req' = [req EXCEPT ![r] = None] \/ req' = [req EXCEPT ![r] = x]
    BY <1>3 DEF CheckEmail, TypeOK
  <2>4. x \in Registration /\ x.pc = "insert" /\ x.role = req[r].role /\ x.slug = req[r].slug
    BY <2>1 DEF Registration
  <2> HIDE DEF x
  <2>5. CASE req' = [req EXCEPT ![r] = None]
    BY <2>1, <2>2, <2>5 DEF LockIsOwners, At, TypeOK
  <2>6. CASE req' = [req EXCEPT ![r] = x]
    BY <2>1, <2>2, <2>4, <2>6 DEF LockIsOwners, At, TypeOK
  <2>7. QED
    BY <2>3, <2>5, <2>6
<1>4. ASSUME NEW r \in Requests, Insert(r) PROVE LockIsOwners'
  <2>1. /\ At(r, "insert") /\ lock \in {None, r}
        /\ req' = [req EXCEPT ![r] = None]
        /\ lock' = IF lock = r THEN None ELSE lock
    BY <1>4 DEF Insert, Free, End, Release
  <2>2. CASE UNCHANGED tenants
    BY <2>1, <2>2 DEF LockIsOwners, At, TypeOK
  <2>3. CASE tenants' = tenants \union {req[r].slug}
    BY <2>1, <2>3 DEF LockIsOwners, At, TypeOK
  <2>4. QED
    BY <1>4, <2>2, <2>3 DEF Insert
<1>5. ASSUME NEW r \in Requests, Fails(r) PROVE LockIsOwners'
  BY <1>5 DEF Fails, Free, End, Release, LockIsOwners, At, TypeOK
<1>6. ASSUME NEW r \in Requests, Verify(r) PROVE LockIsOwners'
  BY <1>6 DEF Verify, End, LockIsOwners, At, TypeOK
<1>7. CASE Crash
  BY <1>7 DEF Crash, LockIsOwners, At, TypeOK
<1>8. CASE UNCHANGED <<tenants, req, lock>>
  BY <1>8 DEF LockIsOwners, At
<1>9. QED
  BY <1>1, <1>2, <1>3, <1>4, <1>5, <1>6, <1>7, <1>8
     DEF Next, Ask, Run, Refresh, Deactivate, Demote, IssueKey, vars

(* The address of a tenant that is taken is refused at the commit; the     *)
(* first user of a tenant is its owner, and no later one is.               *)
LEMMA RowsBelongStep ==
  TypeOK /\ LockIsOwners /\ RowsBelong /\ [Next]_vars => RowsBelong'
<1> SUFFICES ASSUME TypeOK, LockIsOwners, RowsBelong, [Next]_vars
             PROVE  RowsBelong'
  OBVIOUS
<1> DEFINE Asks == \A r \in Requests : req[r] \in Registration => Lower[req[r].email] = req[r].email
<1>1. ASSUME NEW r \in Requests, NEW slug \in Slugs, NEW email \in Emails,
             \/ RegisterOwner(r, slug, email)
             \/ \E role \in Roles, cred \in Credentials :
                  RegisterMember(r, slug, email, role, cred)
      PROVE  RowsBelong'
  <2>1. \E pc, role : req' = [req EXCEPT ![r] =
          [pc |-> pc, slug |-> slug, email |-> Lower[email], role |-> role]]
    BY <1>1 DEF RegisterOwner, RegisterMember
  <2>2. Asks'
    BY <2>1 DEF TypeOK, RowsBelong
  <2>3. UNCHANGED <<tenants, users>>
    BY <1>1 DEF RegisterOwner, RegisterMember
  <2>4. QED
    BY <2>2, <2>3 DEF RowsBelong, Owners
<1>2. ASSUME NEW r \in Requests, NEW slug \in Slugs, NEW email \in Emails,
             Login(r, slug, email)
      PROVE  RowsBelong'
  <2>1. \E id, user : req' = [req EXCEPT ![r] = [pc |-> "verify", id |-> id, user |-> user]]
    BY <1>2 DEF Login
  <2>2. Asks'
    BY <2>1 DEF TypeOK, RowsBelong, Registration
  <2>3. UNCHANGED <<tenants, users>>
    BY <1>2 DEF Login
  <2>4. QED
    BY <2>2, <2>3 DEF RowsBelong, Owners
<1>3. ASSUME NEW r \in Requests, FlushTenant(r) \/ CheckEmail(r) PROVE RowsBelong'
  <2>1. \/ req' = [req EXCEPT ![r] = None]
        \/ req' = [req EXCEPT ![r] = [req[r] EXCEPT !.pc = "insert"]]
        \/ UNCHANGED req
    BY <1>3 DEF FlushTenant, CheckEmail, End, TypeOK
  <2>2. req[r] \in Registration
    BY <1>3, Forms DEF FlushTenant, CheckEmail
  <2>3. Asks'
    BY <2>1, <2>2 DEF TypeOK, RowsBelong, Registration
  <2>4. UNCHANGED <<tenants, users>>
    BY <1>3 DEF FlushTenant, CheckEmail
  <2>5. QED
    BY <2>3, <2>4 DEF RowsBelong, Owners
<1>4. ASSUME NEW r \in Requests, Insert(r) PROVE RowsBelong'
  <2>1. Asks'
    BY <1>4 DEF Insert, End, TypeOK, RowsBelong
  <2>2. CASE Taken(r)
    BY <1>4, <2>1, <2>2 DEF Insert, RowsBelong, Owners
  <2>3. CASE ~Taken(r)
    <3> DEFINE n == Len(users) + 1
               user == [tenant |-> req[r].slug, email |-> req[r].email,
                        role |-> req[r].role, active |-> TRUE]
    <3>1. /\ req[r] \in Registration /\ user \in User
          /\ n \notin DOMAIN users
          /\ DOMAIN users' = DOMAIN users \union {n}
          /\ \A i \in DOMAIN users : users'[i] = users[i]
          /\ users'[n] = user
          /\ tenants' = tenants \union {user.tenant}
      BY <1>4, <2>3, RowAdded
    <3>2. Lower[user.email] = user.email
      BY <3>1 DEF RowsBelong
    <3>3. \A i \in DOMAIN users : users[i].tenant # user.tenant \/ users[i].email # user.email
      BY <2>3 DEF Taken, Registered
    <3>4. IF user.role = "owner" THEN user.tenant \notin tenants ELSE user.tenant \in tenants
      BY <1>4 DEF Insert, LockIsOwners
    <3> HIDE DEF n, user
    <3>5. \A id \in DOMAIN users' : users'[id].tenant \in tenants'
      BY <3>1 DEF RowsBelong
    <3>6. \A slug \in tenants' \ Seeded : \E id \in DOMAIN users' : Owners(slug)' = {id}
      <4> SUFFICES ASSUME NEW slug \in tenants' \ Seeded
                   PROVE  \E id \in DOMAIN users' : Owners(slug)' = {id}
        OBVIOUS
      <4>1. CASE slug # user.tenant
        <5>1. slug \in tenants /\ Owners(slug)' = Owners(slug)
          BY <3>1, <4>1 DEF Owners
        <5>2. QED
          BY <3>1, <5>1 DEF RowsBelong
      <4>2. CASE slug = user.tenant /\ user.role # "owner"
        <5>1. slug \in tenants /\ Owners(slug)' = Owners(slug)
          BY <3>1, <3>4, <4>2 DEF Owners
        <5>2. QED
          BY <3>1, <5>1 DEF RowsBelong
      <4>3. CASE slug = user.tenant /\ user.role = "owner"
        <5>1. \A i \in DOMAIN users : users[i].tenant # slug
          BY <3>4, <4>3 DEF RowsBelong
        <5>2. Owners(slug)' = {n}
          BY <3>1, <4>3, <5>1 DEF Owners
        <5>3. QED
          BY <3>1, <5>2
      <4>4. QED
        BY <4>1, <4>2, <4>3
    <3>7. \A id \in DOMAIN users' : Lower[users'[id].email] = users'[id].email
      BY <3>1, <3>2 DEF RowsBelong
    <3>8. \A i, j \in DOMAIN users' :
            users'[i].tenant = users'[j].tenant /\ users'[i].email = users'[j].email => i = j
      BY <3>1, <3>3 DEF RowsBelong
    <3>9. Seeded \subseteq tenants'
      BY <3>1 DEF RowsBelong
    <3>10. \A slug \in Seeded : Owners(slug)' = {}
      <4> SUFFICES ASSUME NEW slug \in Seeded PROVE Owners(slug)' = {}
        OBVIOUS
      <4>1. slug \in tenants /\ Owners(slug) = {}
        BY DEF RowsBelong
      <4>2. ~(user.tenant = slug /\ user.role = "owner")
        BY <3>4, <4>1
      <4>3. QED
        BY <3>1, <4>1, <4>2 DEF Owners
    <3>11. QED
      BY <2>1, <3>5, <3>6, <3>7, <3>8, <3>9, <3>10 DEF RowsBelong
  <2>4. QED
    BY <2>2, <2>3
<1>5. ASSUME NEW r \in Requests, Fails(r) \/ Verify(r) PROVE RowsBelong'
  <2>1. req' = [req EXCEPT ![r] = None] /\ UNCHANGED <<tenants, users>>
    BY <1>5 DEF Fails, Verify, End
  <2>2. Asks'
    BY <2>1 DEF TypeOK, RowsBelong
  <2>3. QED
    BY <2>1, <2>2 DEF RowsBelong, Owners
<1>6. ASSUME NEW id \in DOMAIN users, Deactivate(id) \/ Demote(id) PROVE RowsBelong'
  <2>1. /\ DOMAIN users' = DOMAIN users
        /\ \A i \in DOMAIN users :
             /\ users'[i].tenant = users[i].tenant
             /\ users'[i].email = users[i].email
             /\ users'[i].role = "owner" <=> users[i].role = "owner"
        /\ UNCHANGED <<tenants, req>>
    BY <1>6, RowEdited
  <2>2. \A slug : Owners(slug)' = Owners(slug)
    BY <2>1 DEF Owners
  <2>3. QED
    BY <2>1, <2>2 DEF RowsBelong
<1>7. CASE Crash
  BY <1>7 DEF Crash, RowsBelong, Owners
<1>8. CASE UNCHANGED <<tenants, users, req>>
  BY <1>8 DEF RowsBelong, Owners
<1>9. QED
  BY <1>1, <1>2, <1>3, <1>4, <1>5, <1>6, <1>7, <1>8
     DEF Next, Ask, Run, Refresh, IssueKey, vars

(* A claim names the tenant of its user: a user keeps it, and what is      *)
(* signed is copied from a row as it is or as it was.                      *)
LEMMA ClaimsNameStep == TypeOK /\ ClaimsName /\ [Next]_vars => ClaimsName'
<1> SUFFICES ASSUME TypeOK, ClaimsName, [Next]_vars
             PROVE  ClaimsName'
  OBVIOUS
<1> DEFINE Reads == \A r \in Requests : req[r] \in Verification =>
             req[r].id \in DOMAIN users /\ users[req[r].id].tenant = req[r].user.tenant
           Claims == \A token \in tokens : users[token.sub].tenant = token.tenant
<1>1. ASSUME NEW r \in Requests, NEW slug \in Slugs, NEW email \in Emails,
             \/ RegisterOwner(r, slug, email)
             \/ \E role \in Roles, cred \in Credentials :
                  RegisterMember(r, slug, email, role, cred)
      PROVE  ClaimsName'
  <2>1. \E pc, role :
          /\ pc # "verify"
          /\ req' = [req EXCEPT ![r] =
               [pc |-> pc, slug |-> slug, email |-> Lower[email], role |-> role]]
    BY <1>1 DEF RegisterOwner, RegisterMember
  <2>2. UNCHANGED <<users, tokens>>
    BY <1>1 DEF RegisterOwner, RegisterMember
  <2>3. Reads'
    BY <2>1, <2>2 DEF TypeOK, ClaimsName, Verification
  <2>4. QED
    BY <2>2, <2>3 DEF ClaimsName
<1>2. ASSUME NEW r \in Requests, NEW slug \in Slugs, NEW email \in Emails,
             Login(r, slug, email)
      PROVE  ClaimsName'
  <2>1. PICK id \in DOMAIN users :
          req' = [req EXCEPT ![r] = [pc |-> "verify", id |-> id, user |-> users[id]]]
    BY <1>2 DEF Login, Registered
  <2>2. UNCHANGED <<users, tokens>>
    BY <1>2 DEF Login
  <2>3. Reads'
    BY <2>1, <2>2 DEF TypeOK, ClaimsName
  <2>4. QED
    BY <2>2, <2>3 DEF ClaimsName
<1>3. ASSUME NEW r \in Requests, FlushTenant(r) \/ CheckEmail(r) PROVE ClaimsName'
  <2>1. req[r] \in Registration /\ UNCHANGED <<users, tokens>>
    BY <1>3, Forms DEF FlushTenant, CheckEmail
  <2>2. \/ req' = [req EXCEPT ![r] = None]
        \/ req' = [req EXCEPT ![r] = [req[r] EXCEPT !.pc = "insert"]]
        \/ UNCHANGED req
    BY <1>3 DEF FlushTenant, CheckEmail, End, TypeOK
  <2>3. [req[r] EXCEPT !.pc = "insert"] \notin Verification
    BY <2>1 DEF Registration, Verification
  <2>4. Reads'
    BY <2>1, <2>2, <2>3 DEF TypeOK, ClaimsName
  <2>5. QED
    BY <2>1, <2>4 DEF ClaimsName
<1>4. ASSUME NEW r \in Requests, Insert(r) PROVE ClaimsName'
  <2>1. req' = [req EXCEPT ![r] = None]
    BY <1>4 DEF Insert, End
  <2>2. CASE Taken(r)
    BY <1>4, <2>1, <2>2 DEF Insert, ClaimsName, TypeOK
  <2>3. CASE ~Taken(r)
    <3> DEFINE n == Len(users) + 1
               user == [tenant |-> req[r].slug, email |-> req[r].email,
                        role |-> req[r].role, active |-> TRUE]
    <3>1. /\ user \in User
          /\ DOMAIN users' = DOMAIN users \union {n}
          /\ \A i \in DOMAIN users : users'[i] = users[i]
          /\ users'[n] = user
          /\ tokens' = tokens \union Signed(n, user)
      BY <1>4, <2>3, RowAdded
    <3> HIDE DEF n, user
    <3>2. \A token \in Signed(n, user) : token.sub = n /\ token.tenant = user.tenant
      BY <3>1, SignedTokens
    <3>3. \A token \in tokens : token.sub \in DOMAIN users
      BY DEF TypeOK
    <3>4. Claims'
      BY <3>1, <3>2, <3>3 DEF ClaimsName
    <3>5. Reads'
      BY <2>1, <3>1 DEF TypeOK, ClaimsName
    <3>6. QED
      BY <3>4, <3>5 DEF ClaimsName
  <2>4. QED
    BY <2>2, <2>3
<1>5. ASSUME NEW r \in Requests, Verify(r) PROVE ClaimsName'
  <2>1. req[r] \in Verification /\ req[r].user \in User
    BY <1>5, Forms DEF Verify, Verification
  <2>2. \A token \in Signed(req[r].id, req[r].user) :
          token.sub = req[r].id /\ token.tenant = req[r].user.tenant
    BY <2>1, SignedTokens
  <2>3. Claims'
    BY <1>5, <2>1, <2>2 DEF Verify, ClaimsName
  <2>4. Reads'
    BY <1>5 DEF Verify, End, TypeOK, ClaimsName
  <2>5. QED
    BY <2>3, <2>4 DEF ClaimsName
<1>6. ASSUME NEW token \in tokens, Refresh(token) PROVE ClaimsName'
  <2>1. users[token.sub] \in User
    BY DEF TypeOK
  <2>2. \A t \in Signed(token.sub, users[token.sub]) :
          t.sub = token.sub /\ t.tenant = users[token.sub].tenant
    BY <2>1, SignedTokens
  <2>3. QED
    BY <1>6, <2>2 DEF Refresh, ClaimsName
<1>7. ASSUME NEW id \in DOMAIN users, Deactivate(id) \/ Demote(id) PROVE ClaimsName'
  <2>1. \A token \in tokens : token.sub \in DOMAIN users
    BY DEF TypeOK
  <2>2. QED
    BY <1>7, <2>1, RowEdited DEF ClaimsName
<1>8. ASSUME NEW r \in Requests, Fails(r) PROVE ClaimsName'
  BY <1>8 DEF Fails, End, ClaimsName, TypeOK
<1>9. CASE Crash
  BY <1>9 DEF Crash, ClaimsName
<1>10. CASE UNCHANGED <<users, tokens, req>>
  BY <1>10 DEF ClaimsName
<1>11. QED
  BY <1>1, <1>2, <1>3, <1>4, <1>5, <1>6, <1>7, <1>8, <1>9, <1>10
     DEF Next, Ask, Run, IssueKey, vars

(* The invariant holds from the start and no step leaves it. *)
THEOREM Inductive == Spec => [](TypeOK /\ IInv)
<1>1. Init => TypeOK /\ IInv
  <2> SUFFICES ASSUME Init PROVE TypeOK /\ IInv
    OBVIOUS
  <2>1. TypeOK
    BY DEF Init, Seeded, TypeOK
  <2>2. LockIsOwners /\ ClaimsName
    BY DEF Init, LockIsOwners, ClaimsName, At, Verification
  <2>3. RowsBelong
    BY DEF Init, RowsBelong, Owners, Registration
  <2>4. QED
    BY <2>1, <2>2, <2>3 DEF IInv
<1>2. TypeOK /\ IInv /\ [Next]_vars => TypeOK' /\ IInv'
  BY TypeOKStep, LockIsOwnersStep, RowsBelongStep, ClaimsNameStep DEF IInv
<1>3. QED
  BY <1>1, <1>2, PTL DEF Spec

(* Rows, tokens and requests keep their form. *)
THEOREM TypeCorrect == Spec => []TypeOK
BY Inductive, PTL

(* However many registrations overlap, fail or are cut short, a tenant has *)
(* exactly one owner, the seeded one none, and every user has a tenant.    *)
THEOREM OneOwner == Spec => []OneOwnerPerTenant
<1>1. TypeOK /\ IInv => OneOwnerPerTenant
  <2> SUFFICES ASSUME TypeOK, IInv PROVE OneOwnerPerTenant
    OBVIOUS
  <2>1. ASSUME NEW slug \in tenants
        PROVE  Cardinality(Owners(slug)) = IF slug \in Seeded THEN 0 ELSE 1
    <3>1. CASE slug \in Seeded
      <4>1. Owners(slug) = {}
        BY <3>1 DEF IInv, RowsBelong
      <4>2. QED
        BY <3>1, <4>1, FS_EmptySet
    <3>2. CASE slug \notin Seeded
      <4>1. PICK id \in DOMAIN users : Owners(slug) = {id}
        BY <3>2 DEF IInv, RowsBelong
      <4>2. QED
        BY <3>2, <4>1, FS_Singleton
    <3>3. QED
      BY <3>1, <3>2
  <2>2. QED
    BY <2>1 DEF IInv, RowsBelong, OneOwnerPerTenant, Owners
<1>2. QED
  BY <1>1, Inductive, PTL

(* A tenant has one account per email address, however it is spelled. *)
THEOREM DistinctAccounts == Spec => []AccountsAreDistinct
<1>1. TypeOK /\ IInv => AccountsAreDistinct
  BY DEF IInv, RowsBelong, AccountsAreDistinct
<1>2. QED
  BY <1>1, Inductive, PTL

(* The middleware lets the paths of a tenant there is pass, except that it *)
(* takes the agent paths of one called admin for another tenant's.         *)
LEMMA Passes ==
  ASSUME TypeOK, NEW slug \in Slugs
  PROVE  /\ PassesMiddleware(AdminPath(slug)) <=> slug \in tenants
         /\ slug # "admin" => (PassesMiddleware(AgentPath(slug)) <=> slug \in tenants)
         /\ slug = "admin" => (PassesMiddleware(AgentPath(slug)) <=> "assistant" \in tenants)
<1>1. slug # None /\ "assistant" # None
  OBVIOUS
<1>2. QED
  BY <1>1 DEF PassesMiddleware, AdminPath, AgentPath, Extracted

(* Every token that was ever signed opens what its user's row allows now.  *)
THEOREM TokensTheorem == Spec => []TokensFollowRows
<1>1. TypeOK /\ IInv => TokensFollowRows
  <2> SUFFICES ASSUME TypeOK, IInv, NEW token \in tokens, NEW slug \in Slugs
               PROVE  /\ AgentServes(token, slug) <=>
                           /\ token.type = "access" /\ Member(token.sub, slug)
                           /\ slug = "admin" => "assistant" \in tenants
                      /\ AdminServes(token, slug) <=>
                           /\ token.type = "access" /\ Member(token.sub, slug)
                           /\ users[token.sub].role \in Admins
    BY DEF TokensFollowRows
  <2>1. /\ token.sub \in DOMAIN users
        /\ users[token.sub].tenant = token.tenant
        /\ users[token.sub].tenant \in tenants
    BY DEF TypeOK, IInv, ClaimsName, RowsBelong
  <2>2. CurrentUser(token) <=> token.type = "access" /\ users[token.sub].active
    BY <2>1 DEF CurrentUser
  <2>3. AgentServes(token, slug) <=>
          /\ token.type = "access" /\ Member(token.sub, slug)
          /\ slug = "admin" => "assistant" \in tenants
    BY <2>1, <2>2, Passes DEF AgentServes, Member
  <2>4. AdminServes(token, slug) <=>
          /\ token.type = "access" /\ Member(token.sub, slug)
          /\ users[token.sub].role \in Admins
    BY <2>1, <2>2, Passes DEF AdminServes, AdminBearer, Member
  <2>5. QED
    BY <2>3, <2>4
<1>2. QED
  BY <1>1, Inductive, PTL
=============================================================================
