--------------------------- MODULE SessionsProofs ---------------------------
(***************************************************************************)
(* Proofs about logins, tokens and principals, for any number of accounts, *)
(* requests and connections and any lifetimes.                             *)
(***************************************************************************)
EXTENDS Sessions, TLAPS

-----------------------------------------------------------------------------
(* The inductive invariant. *)

\* A login under way knows its account, and once the user's row is there, its user.
LoginInv ==
    \A l \in Logins : login[l].pc # "idle" =>
        /\ login[l].account \in Accounts
        /\ login[l].pc # "verified" =>
            login[l].user = users[login[l].account] /\ login[l].user # None

\* Every token of the server's key is a secret or was signed for an account.
SignedInv ==
    \A t \in signed : t.key = AppleKey =>
        t.iss = Team \/ \E a \in Accounts : t \in granted[a]

\* What UserHasLoggedIn and AdminHasLoadedKey say of one context.
GoodContext(c) ==
    /\ c.user # None =>
        \E a \in Accounts : users[a] = c.user.id /\ c.user.token \in granted[a]
    /\ c.admin # None =>
        c.admin.token \in signed /\ c.admin.token.key = adminKey /\ c.admin.token.admin

ReqInv == \A r \in Requests : req[r] # None => GoodContext(req[r].ctx)

SockInv ==
    \A c \in Conns : sock[c] # None =>
        GoodContext(sock[c].ctx) /\ sock[c].header \in signed \union {None}

\* Nothing of a process that has ended is left.
DownInv ==
    ~up => /\ \A r \in Requests : req[r] = None
           /\ \A c \in Conns : sock[c] = None

\* No connection is opened in the future.
SinceInv == \A c \in Conns : sock[c] # None => sock[c].since <= clock

SessInv ==
    /\ SessTypeOK
    /\ LoginInv
    /\ OneUserPerAccount
    /\ SignedInv
    /\ ReqInv
    /\ SockInv
    /\ DownInv
    /\ SinceInv
    /\ OutlivedByConnectionsOnly

-----------------------------------------------------------------------------
\* None is neither a key, a user, an account, a device nor a time.
LEMMA NoneFacts ==
    /\ None \notin Users /\ Team \notin Users /\ Editor \notin Users
    /\ None \notin Accounts /\ None \notin Nat
    /\ AppleKey \notin AdminKeys /\ None \notin AdminKeys /\ None # AppleKey
  BY SessionsAssumption

\* No token is issued by nobody.
LEMMA NoIssuerIsNone == None \notin Users \union {Editor, Team}
  BY SessionsAssumption

\* There are no tokens and no rows to begin with.
LEMMA SessInvInit == Init => SessInv
<1> SUFFICES ASSUME Init PROVE SessInv
  OBVIOUS
<1> USE DEF Init
<1>1. ProcessTypeOK
  BY DEF ProcessTypeOK
<1>2. RowsTypeOK /\ TokensTypeOK
  BY DEF RowsTypeOK, TokensTypeOK
<1>3. LoginsTypeOK
  BY DEF LoginsTypeOK, NoLogin
<1>4. RequestsTypeOK /\ SocketsTypeOK
  BY DEF RequestsTypeOK, SocketsTypeOK
<1>5. SessTypeOK
  BY <1>1, <1>2, <1>3, <1>4 DEF SessTypeOK
<1>6. LoginInv
  BY DEF LoginInv, NoLogin
<1>7. OneUserPerAccount
  BY DEF OneUserPerAccount
<1>8. SignedInv /\ ReqInv /\ SockInv /\ DownInv /\ SinceInv /\ OutlivedByConnectionsOnly
  BY DEF SignedInv, ReqInv, SockInv, DownInv, SinceInv, OutlivedByConnectionsOnly
<1> QED
  BY <1>5, <1>6, <1>7, <1>8 DEF SessInv

\* A token that Validate or ValidateAdmin accepts adds a principal that is
\* what the token says, and keeps the other principal of the context.
LEMMA PrincipalGood ==
    ASSUME SessInv, NEW t \in signed, Validate(t) \/ ValidateAdmin(t),
           NEW base \in Contexts, GoodContext(base)
    PROVE  /\ WithPrincipal(t, base) \in Contexts
           /\ GoodContext(WithPrincipal(t, base))
<1> DEFINE c == WithPrincipal(t, base)
<1>0. t \in Tokens
  BY DEF SessInv, SessTypeOK, TokensTypeOK
<1>1. CASE Validate(t)
  <2>1. c = [base EXCEPT !.user = [id |-> t.iss, token |-> t]]
    BY <1>1 DEF WithPrincipal
  <2>2. c.user = [id |-> t.iss, token |-> t] /\ c.admin = base.admin
    BY <2>1 DEF Contexts
  <2>3. t.iss \in Users
    BY <1>1 DEF Validate, issuerUUID
  <2>4. PICK a \in Accounts : t \in granted[a]
    BY <1>1, <2>3, NoneFacts DEF Validate, SessInv, SignedInv
  <2>5. users[a] = t.iss
    BY <2>4 DEF SessInv, OneUserPerAccount
  <2>6. c \in Contexts
    BY <1>0, <2>1, <2>3 DEF Contexts, UserPrincipals
  <2>7. GoodContext(c)
    BY <2>2, <2>4, <2>5 DEF GoodContext
  <2> QED
    BY <2>6, <2>7
<1>2. CASE ~Validate(t)
  <2>1. ValidateAdmin(t)
    BY <1>2
  <2>2. c = [base EXCEPT !.admin = [token |-> t]]
    BY <1>2 DEF WithPrincipal
  <2>3. c.admin = [token |-> t] /\ c.user = base.user
    BY <2>2 DEF Contexts
  <2>4. c \in Contexts
    BY <1>0, <2>2 DEF Contexts, AdminPrincipals
  <2>5. GoodContext(c)
    BY <2>1, <2>3 DEF GoodContext, ValidateAdmin, adminVerification
  <2> QED
    BY <2>4, <2>5
<1> QED
  BY <1>1, <1>2

\* The context without principals, and what the middleware makes of a context.
LEMMA InterceptGood ==
    ASSUME SessInv, NEW header \in signed \union {None},
           NEW base \in Contexts, GoodContext(base)
    PROVE  /\ InterceptResponse(header, base) \in Contexts
           /\ GoodContext(InterceptResponse(header, base))
  BY PrincipalGood DEF InterceptResponse

\* No token of context c had expired at time since.
InTime(c, since) ==
    /\ c.user # None => since < c.user.token.exp
    /\ c.admin # None => since < c.admin.token.exp + Leeway

\* A token that is accepted now had not expired earlier either.
LEMMA PrincipalInTime ==
    ASSUME SessInv, NEW t \in signed, Validate(t) \/ ValidateAdmin(t),
           NEW base \in Contexts, NEW since \in 0 .. clock, InTime(base, since)
    PROVE  InTime(WithPrincipal(t, base), since)
<1> DEFINE c == WithPrincipal(t, base)
<1>0. clock \in Nat /\ since \in Nat /\ since <= clock /\ t.exp \in Nat /\ Leeway \in Nat
  BY SessionsAssumption DEF SessInv, SessTypeOK, ProcessTypeOK, TokensTypeOK, Tokens
<1>1. CASE Validate(t)
  <2>1. c = [base EXCEPT !.user = [id |-> t.iss, token |-> t]]
    BY <1>1 DEF WithPrincipal
  <2>2. c.user.token = t /\ c.admin = base.admin
    BY <2>1 DEF Contexts
  <2>3. since < t.exp
    BY <1>0, <1>1 DEF Validate, unexpired
  <2> QED
    BY <2>2, <2>3 DEF InTime
<1>2. CASE ~Validate(t)
  <2>1. c = [base EXCEPT !.admin = [token |-> t]]
    BY <1>2 DEF WithPrincipal
  <2>2. c.admin.token = t /\ c.user = base.user
    BY <2>1 DEF Contexts
  <2>3. since < t.exp + Leeway
    BY <1>0, <1>2 DEF ValidateAdmin, unexpired
  <2> QED
    BY <2>2, <2>3 DEF InTime
<1> QED
  BY <1>1, <1>2

LEMMA InterceptInTime ==
    ASSUME SessInv, NEW header \in signed \union {None},
           NEW base \in Contexts, NEW since \in 0 .. clock, InTime(base, since)
    PROVE  InTime(InterceptResponse(header, base), since)
  BY PrincipalInTime DEF InterceptResponse

LEMMA AnonymousGood == Anonymous \in Contexts /\ GoodContext(Anonymous)
  BY DEF Anonymous, Contexts, GoodContext

-----------------------------------------------------------------------------
(* Preservation. *)

\* Rows and tokens are only added while the process runs, so what was true of
\* a context in use stays true.
LEMMA ContextsKept ==
    ASSUME SessInv, adminKey' = adminKey, signed \subseteq signed',
           \A a \in Accounts : users[a] # None => users'[a] = users[a],
           \A a \in Accounts : granted[a] \subseteq granted'[a],
           req' = req, sock' = sock, clock' \in Nat, clock <= clock'
    PROVE  ReqInv' /\ SockInv' /\ SinceInv' /\ OutlivedByConnectionsOnly'
<1>1. ASSUME NEW c \in Contexts, GoodContext(c)
      PROVE  /\ c.user # None =>
                    \E a \in Accounts : users'[a] = c.user.id /\ c.user.token \in granted'[a]
             /\ c.admin # None =>
                    c.admin.token \in signed' /\ c.admin.token.key = adminKey' /\ c.admin.token.admin
  <2>1. ASSUME c.user # None
        PROVE  \E a \in Accounts : users'[a] = c.user.id /\ c.user.token \in granted'[a]
    <3>1. PICK a \in Accounts : users[a] = c.user.id /\ c.user.token \in granted[a]
      BY <1>1, <2>1 DEF GoodContext
    <3>2. c.user.id \in Users
      BY <2>1 DEF Contexts, UserPrincipals
    <3>3. users'[a] = users[a]
      BY <3>1, <3>2, NoneFacts
    <3> QED
      BY <3>1, <3>3
  <2> QED
    BY <1>1, <2>1 DEF GoodContext
<1>2. ReqInv'
  <2> SUFFICES ASSUME NEW r \in Requests, req[r] # None
               PROVE  GoodContext(req[r].ctx)'
    BY DEF ReqInv
  <2>1. req[r].ctx \in Contexts /\ GoodContext(req[r].ctx)
    BY DEF SessInv, SessTypeOK, RequestsTypeOK, ReqInv
  <2> QED
    BY <1>1, <2>1 DEF GoodContext
<1>3. SockInv'
  <2> SUFFICES ASSUME NEW c \in Conns, sock[c] # None
               PROVE  GoodContext(sock[c].ctx)' /\ sock[c].header \in signed' \union {None}
    BY DEF SockInv
  <2>1. sock[c].ctx \in Contexts /\ GoodContext(sock[c].ctx)
    BY DEF SessInv, SessTypeOK, SocketsTypeOK, SockInv
  <2>2. sock[c].header \in signed \union {None}
    BY DEF SessInv, SockInv
  <2> QED
    BY <1>1, <2>1, <2>2 DEF GoodContext
<1>4. OutlivedByConnectionsOnly'
  BY DEF SessInv, OutlivedByConnectionsOnly
<1>5. SinceInv'
  <2> SUFFICES ASSUME NEW c \in Conns, sock[c] # None PROVE sock[c].since <= clock'
    BY DEF SinceInv
  <2>1. sock[c].since \in Nat /\ sock[c].since <= clock /\ clock \in Nat
    BY DEF SessInv, SessTypeOK, SocketsTypeOK, ProcessTypeOK, SinceInv
  <2> QED
    BY <2>1
<1> QED
  BY <1>2, <1>3, <1>4, <1>5

\* Starting, stopping, the clock, the key's file and the editor's tokens.
LEMMA ProcessStep == SessInv /\ ProcessNext => SessInv'
<1> SUFFICES ASSUME SessInv, ProcessNext PROVE SessInv'
  OBVIOUS
<1>0. SessTypeOK /\ LoginInv /\ OneUserPerAccount /\ SignedInv /\ ReqInv /\ SockInv /\ DownInv
  BY DEF SessInv
<1> USE DEF rowVars, keyVars, tokenVars
<1>1. CASE Start
  <2> DEFINE secret == [key |-> AppleKey, iss |-> Team,
                        exp |-> clock + SecretLifetime, admin |-> FALSE]
  <2>0. signed' = signed \union {secret} /\ secret \in Tokens
    BY <1>0, <1>1, SessionsAssumption DEF Start, Tokens, SessTypeOK, ProcessTypeOK
  <2>1. SessTypeOK'
    <3>1. ProcessTypeOK'
      BY <1>0, <1>1 DEF Start, loadAdminKeys, SessTypeOK, ProcessTypeOK
    <3>2. RowsTypeOK' /\ TokensTypeOK' /\ LoginsTypeOK' /\ RequestsTypeOK' /\ SocketsTypeOK'
      BY <1>0, <1>1, <2>0
      DEF Start, SessTypeOK, RowsTypeOK, TokensTypeOK, LoginsTypeOK, RequestsTypeOK, SocketsTypeOK
    <3> QED
      BY <3>1, <3>2 DEF SessTypeOK
  <2>2. LoginInv' /\ OneUserPerAccount'
    BY <1>0, <1>1 DEF Start, LoginInv, OneUserPerAccount
  <2>3. SignedInv'
    BY <1>0, <1>1, <2>0 DEF Start, SignedInv
  <2>4. ReqInv' /\ SockInv' /\ DownInv' /\ SinceInv' /\ OutlivedByConnectionsOnly'
    BY <1>0, <1>1 DEF Start, DownInv, ReqInv, SockInv, SinceInv, OutlivedByConnectionsOnly
  <2> QED
    BY <2>1, <2>2, <2>3, <2>4 DEF SessInv
<1>2. CASE Stop
  <2>1. ProcessTypeOK' /\ RowsTypeOK' /\ TokensTypeOK' /\ RequestsTypeOK' /\ SocketsTypeOK'
    BY <1>0, <1>2
    DEF Stop, SessTypeOK, ProcessTypeOK, RowsTypeOK, TokensTypeOK, RequestsTypeOK, SocketsTypeOK
  <2>2. LoginsTypeOK' /\ LoginInv'
    BY <1>2 DEF Stop, NoLogin, LoginsTypeOK, LoginInv
  <2>3. OneUserPerAccount' /\ SignedInv'
    BY <1>0, <1>2 DEF Stop, OneUserPerAccount, SignedInv
  <2>4. ReqInv' /\ SockInv' /\ DownInv' /\ SinceInv' /\ OutlivedByConnectionsOnly'
    BY <1>2 DEF Stop, ReqInv, SockInv, DownInv, SinceInv, OutlivedByConnectionsOnly
  <2> QED
    BY <2>1, <2>2, <2>3, <2>4 DEF SessInv, SessTypeOK
<1>3. CASE Tick \/ \E k \in AdminKeys \union {None} : MountKey(k)
  <2>1. ProcessTypeOK'
    BY <1>0, <1>3 DEF Tick, MountKey, SessTypeOK, ProcessTypeOK
  <2>2. UNCHANGED <<up, adminKey, users, device, catalogue, signed, granted, login, req, sock>>
    BY <1>3 DEF Tick, MountKey
  <2>3. RowsTypeOK' /\ TokensTypeOK' /\ LoginsTypeOK' /\ RequestsTypeOK' /\ SocketsTypeOK'
    BY <1>0, <2>2
    DEF SessTypeOK, RowsTypeOK, TokensTypeOK, LoginsTypeOK, RequestsTypeOK, SocketsTypeOK
  <2>4. LoginInv' /\ OneUserPerAccount' /\ SignedInv' /\ DownInv'
    BY <1>0, <2>2 DEF LoginInv, OneUserPerAccount, SignedInv, DownInv
  <2>a. clock' \in Nat /\ clock <= clock'
    BY <1>0, <1>3 DEF Tick, MountKey, SessTypeOK, ProcessTypeOK
  <2>5. ReqInv' /\ SockInv' /\ SinceInv' /\ OutlivedByConnectionsOnly'
    BY <2>2, <2>a, ContextsKept
  <2> QED
    BY <2>1, <2>3, <2>4, <2>5 DEF SessInv, SessTypeOK
<1>4. ASSUME NEW k \in AdminKeys, NEW admin \in BOOLEAN, EditorSigns(k, admin)
      PROVE  SessInv'
  <2> DEFINE t == [key |-> k, iss |-> Editor, exp |-> clock + EditorLifetime, admin |-> admin]
  <2>0. signed' = signed \union {t}
    BY <1>4 DEF EditorSigns
  <2>a. t \in Tokens
    BY <1>0, SessionsAssumption DEF Tokens, SessTypeOK, ProcessTypeOK
  <2>1. ProcessTypeOK' /\ RowsTypeOK' /\ LoginsTypeOK' /\ RequestsTypeOK' /\ SocketsTypeOK'
    BY <1>0, <1>4
    DEF EditorSigns, SessTypeOK, ProcessTypeOK, RowsTypeOK, LoginsTypeOK, RequestsTypeOK, SocketsTypeOK
  <2>2. TokensTypeOK'
    BY <1>0, <1>4, <2>0, <2>a DEF EditorSigns, SessTypeOK, TokensTypeOK
  <2>3. LoginInv' /\ OneUserPerAccount' /\ DownInv'
    BY <1>0, <1>4 DEF EditorSigns, LoginInv, OneUserPerAccount, DownInv
  <2>4. SignedInv'
    BY <1>0, <1>4, <2>0, NoneFacts DEF EditorSigns, SignedInv
  <2>b. clock' \in Nat /\ clock <= clock'
    BY <1>0, <1>4 DEF EditorSigns, SessTypeOK, ProcessTypeOK
  <2>5. ReqInv' /\ SockInv' /\ SinceInv' /\ OutlivedByConnectionsOnly'
    BY <1>4, <2>0, <2>b, ContextsKept DEF EditorSigns
  <2> QED
    BY <2>1, <2>2, <2>3, <2>4, <2>5 DEF SessInv, SessTypeOK
<1> QED
  BY <1>1, <1>2, <1>3, <1>4 DEF ProcessNext

\* Logins, from Apple's answer to the binding of the device.
LEMMA LoginStep ==
    ASSUME SessInv, NEW l \in Logins, LoginNext(l)
    PROVE  SessInv'
<1>0. SessTypeOK /\ LoginInv /\ OneUserPerAccount /\ SignedInv /\ DownInv
  BY DEF SessInv
<1>a. LoginsTypeOK /\ RowsTypeOK /\ TokensTypeOK
  BY <1>0 DEF SessTypeOK
<1> USE DEF rowVars, keyVars, tokenVars
<1>1. ASSUME UNCHANGED <<clock, up, keyFile, adminKey, catalogue, req, sock>>,
             RowsTypeOK', TokensTypeOK', LoginsTypeOK', LoginInv', OneUserPerAccount',
             SignedInv', signed \subseteq signed',
             \A a \in Accounts : users[a] # None => users'[a] = users[a],
             \A a \in Accounts : granted[a] \subseteq granted'[a]
      PROVE  SessInv'
  <2>1. ProcessTypeOK' /\ RequestsTypeOK' /\ SocketsTypeOK' /\ DownInv'
    BY <1>0, <1>1 DEF SessTypeOK, ProcessTypeOK, RequestsTypeOK, SocketsTypeOK, DownInv
  <2>a. clock' \in Nat /\ clock <= clock'
    BY <1>0, <1>1 DEF SessTypeOK, ProcessTypeOK
  <2>2. ReqInv' /\ SockInv' /\ SinceInv' /\ OutlivedByConnectionsOnly'
    BY <1>1, <2>a, ContextsKept
  <2> QED
    BY <1>1, <2>1, <2>2 DEF SessInv, SessTypeOK
<1>2. ASSUME NEW a \in Accounts, NEW d \in Devices, AppleVerifies(l, a, d)
      PROVE  SessInv'
  <2>1. LoginsTypeOK'
    BY <1>a, <1>2 DEF AppleVerifies, LoginsTypeOK
  <2>2. LoginInv'
    BY <1>0, <1>a, <1>2 DEF AppleVerifies, LoginsTypeOK, LoginInv
  <2>3. UNCHANGED <<users, device, catalogue, signed, granted>>
    BY <1>2 DEF AppleVerifies
  <2>4. RowsTypeOK' /\ TokensTypeOK' /\ OneUserPerAccount' /\ SignedInv'
    BY <1>0, <1>a, <2>3 DEF RowsTypeOK, TokensTypeOK, OneUserPerAccount, SignedInv
  <2> QED
    BY <1>1, <1>2, <2>1, <2>2, <2>3, <2>4 DEF AppleVerifies
<1>3. ASSUME NEW u \in Users, GetOrCreateUser(l, u) PROVE SessInv'
  <2> DEFINE a == login[l].account
  <2>0. a \in Accounts
    BY <1>0, <1>3 DEF GetOrCreateUser, LoginInv
  <2>1. users' = [users EXCEPT ![a] = IF @ = None THEN u ELSE @]
    BY <1>3 DEF GetOrCreateUser, Upserted
  <2>2. RowsTypeOK'
    BY <1>a, <1>3, <2>1 DEF GetOrCreateUser, RowsTypeOK
  <2>3. users'[a] \in Users /\ users'[a] # None
    BY <1>a, <2>0, <2>1, NoneFacts DEF RowsTypeOK
  <2>4. \A b \in Accounts : users[b] # None => users'[b] = users[b]
    BY <1>a, <2>1 DEF RowsTypeOK
  <2>5. login' = [login EXCEPT ![l].pc = "upserted", ![l].user = users'[a]]
    BY <1>3 DEF GetOrCreateUser
  <2>6. LoginsTypeOK'
    BY <1>a, <2>3, <2>5 DEF LoginsTypeOK
  <2>7. LoginInv'
    <3> SUFFICES ASSUME NEW m \in Logins, login'[m].pc # "idle"
                 PROVE  /\ login'[m].account \in Accounts
                        /\ login'[m].pc # "verified" =>
                            login'[m].user = users'[login'[m].account] /\ login'[m].user # None
      BY DEF LoginInv
    <3>1. CASE m = l
      BY <1>a, <2>0, <2>3, <2>5, <3>1 DEF LoginsTypeOK
    <3>2. CASE m # l
      <4>1. login'[m] = login[m]
        BY <1>a, <1>3, <2>5, <3>2 DEF LoginsTypeOK, GetOrCreateUser
      <4> QED
        BY <1>0, <2>4, <4>1 DEF LoginInv
    <3> QED
      BY <3>1, <3>2
  <2>8. OneUserPerAccount'
    <3>1. ASSUME NEW b \in Accounts, NEW c \in Accounts, users'[b] # None, users'[b] = users'[c]
          PROVE  b = c
      <4>1. \A e \in Accounts : users[e] # u
        BY <1>3 DEF GetOrCreateUser
      <4>2. \A e \in Accounts : users'[e] = users[e] \/ (e = a /\ users[e] = None /\ users'[e] = u)
        BY <1>a, <2>1 DEF RowsTypeOK
      <4> QED
        BY <1>0, <3>1, <4>1, <4>2 DEF OneUserPerAccount
    <3>2. ASSUME NEW b \in Accounts, NEW t \in granted'[b] PROVE t.iss = users'[b]
      <4>1. granted' = granted
        BY <1>3 DEF GetOrCreateUser
      <4>2. t.iss = users[b] /\ t \in Tokens
        BY <1>0, <1>a, <3>2, <4>1 DEF OneUserPerAccount, TokensTypeOK
      <4>3. t.iss \in Users \union {Editor, Team} /\ users[b] \in Users \union {None}
        BY <1>a, <4>2 DEF Tokens, RowsTypeOK
      <4>4. CASE users[b] # None
        BY <2>4, <4>2, <4>4
      <4>5. CASE users[b] = None
        BY <4>2, <4>3, <4>5, NoIssuerIsNone
      <4> QED
        BY <4>4, <4>5
    <3> QED
      BY <3>1, <3>2 DEF OneUserPerAccount
  <2>9. UNCHANGED <<signed, granted, clock, up, keyFile, adminKey, catalogue, req, sock>>
    BY <1>3 DEF GetOrCreateUser
  <2>10. TokensTypeOK' /\ SignedInv'
    BY <1>0, <1>a, <2>9 DEF TokensTypeOK, SignedInv
  <2> QED
    BY <1>1, <2>2, <2>4, <2>6, <2>7, <2>8, <2>9, <2>10
<1>4. CASE SignToken(l)
  <2> DEFINE a == login[l].account
             t == [key |-> AppleKey, iss |-> login[l].user, exp |-> clock + Lifetime,
                   admin |-> FALSE]
  <2>0. a \in Accounts /\ login[l].user = users[a] /\ login[l].user \in Users
    BY <1>0, <1>a, <1>4 DEF SignToken, LoginInv, LoginsTypeOK
  <2>1. /\ login' = [login EXCEPT ![l].pc = "signed"]
        /\ signed' = signed \union {t}
        /\ granted' = [granted EXCEPT ![a] = @ \union {t}]
        /\ UNCHANGED <<clock, up, keyFile, adminKey, users, device, catalogue, req, sock>>
    BY <1>4 DEF SignToken
  <2>2. t \in Tokens
    BY <1>0, <2>0, SessionsAssumption DEF Tokens, SessTypeOK, ProcessTypeOK
  <2>3. TokensTypeOK'
    BY <1>a, <2>1, <2>2 DEF TokensTypeOK
  <2>4. LoginsTypeOK' /\ RowsTypeOK'
    BY <1>a, <2>1 DEF LoginsTypeOK, RowsTypeOK
  <2>5. \A b \in Accounts : granted[b] \subseteq granted'[b]
    BY <1>a, <2>1 DEF TokensTypeOK
  <2>6. LoginInv'
    <3> SUFFICES ASSUME NEW m \in Logins, login'[m].pc # "idle"
                 PROVE  /\ login'[m].account \in Accounts
                        /\ login'[m].pc # "verified" =>
                            login'[m].user = users'[login'[m].account] /\ login'[m].user # None
      BY DEF LoginInv
    <3>1. CASE m = l
      <4>1. login'[m].account = a /\ login'[m].user = login[l].user
        BY <1>a, <2>1, <3>1 DEF LoginsTypeOK
      <4> QED
        BY <2>0, <2>1, <4>1, NoneFacts
    <3>2. CASE m # l
      <4>1. login'[m] = login[m]
        BY <1>a, <2>1, <3>2 DEF LoginsTypeOK
      <4> QED
        BY <1>0, <2>1, <2>5, <4>1 DEF LoginInv
    <3> QED
      BY <3>1, <3>2
  <2>7. OneUserPerAccount'
    BY <1>0, <1>a, <2>0, <2>1 DEF OneUserPerAccount, TokensTypeOK
  <2>8. SignedInv'
    <3> SUFFICES ASSUME NEW x \in signed', x.key = AppleKey
                 PROVE  x.iss = Team \/ \E b \in Accounts : x \in granted'[b]
      BY DEF SignedInv
    <3>1. CASE x = t
      BY <1>a, <2>0, <2>1, <3>1 DEF TokensTypeOK
    <3>2. CASE x \in signed
      BY <1>0, <2>5, <3>2 DEF SignedInv
    <3> QED
      BY <2>1, <3>1, <3>2
  <2> QED
    BY <1>1, <2>1, <2>3, <2>4, <2>5, <2>6, <2>7, <2>8
<1>5. CASE BindDevice(l)
  <2>1. RowsTypeOK'
    BY <1>a, <1>5 DEF BindDevice, Bound, RowsTypeOK, LoginsTypeOK
  <2>2. LoginsTypeOK' /\ LoginInv'
    BY <1>0, <1>a, <1>5 DEF BindDevice, NoLogin, LoginsTypeOK, LoginInv
  <2>3. TokensTypeOK' /\ OneUserPerAccount' /\ SignedInv'
    BY <1>0, <1>a, <1>5 DEF BindDevice, TokensTypeOK, OneUserPerAccount, SignedInv
  <2> QED
    BY <1>1, <1>5, <2>1, <2>2, <2>3 DEF BindDevice
<1>6. CASE LoginFails(l)
  <2>1. LoginsTypeOK' /\ LoginInv'
    BY <1>0, <1>a, <1>6 DEF LoginFails, NoLogin, LoginsTypeOK, LoginInv
  <2>2. RowsTypeOK' /\ TokensTypeOK' /\ OneUserPerAccount' /\ SignedInv'
    BY <1>0, <1>a, <1>6 DEF LoginFails, RowsTypeOK, TokensTypeOK, OneUserPerAccount, SignedInv
  <2> QED
    BY <1>1, <1>6, <2>1, <2>2 DEF LoginFails
<1> QED
  BY <1>2, <1>3, <1>4, <1>5, <1>6 DEF LoginNext

\* Requests change who is being served, and the catalogue.
LEMMA RequestStep ==
    ASSUME SessInv, NEW r \in Requests, RequestNext(r)
    PROVE  SessInv'
<1>0. SessTypeOK /\ LoginInv /\ OneUserPerAccount /\ SignedInv /\ ReqInv /\ SockInv /\ DownInv
      /\ SinceInv /\ OutlivedByConnectionsOnly
  BY DEF SessInv
<1>a. RequestsTypeOK /\ SocketsTypeOK /\ ProcessTypeOK
  BY <1>0 DEF SessTypeOK
<1> USE DEF rowVars, keyVars, tokenVars
<1>1. ASSUME UNCHANGED <<clock, up, keyFile, adminKey, users, device, signed, granted, login, sock>>,
             catalogue' \in 0 .. 1, RequestsTypeOK', ReqInv', OutlivedByConnectionsOnly',
             ~up => \A q \in Requests : req'[q] = None
      PROVE  SessInv'
  <2>1. ProcessTypeOK' /\ RowsTypeOK' /\ TokensTypeOK' /\ LoginsTypeOK' /\ SocketsTypeOK'
    BY <1>0, <1>1
    DEF SessTypeOK, ProcessTypeOK, RowsTypeOK, TokensTypeOK, LoginsTypeOK, SocketsTypeOK
  <2>2. LoginInv' /\ OneUserPerAccount' /\ SignedInv' /\ DownInv'
    BY <1>0, <1>1 DEF LoginInv, OneUserPerAccount, SignedInv, DownInv
  <2>3. SockInv' /\ SinceInv'
    BY <1>0, <1>1 DEF SockInv, SinceInv, GoodContext
  <2> QED
    BY <1>1, <2>1, <2>2, <2>3 DEF SessInv, SessTypeOK
<1>2. ASSUME NEW c \in Contexts, GoodContext(c), NEW since \in Nat, InTime(c, since),
             Arrives(r, c, since)
      PROVE  SessInv'
  <2>1. /\ req' = [req EXCEPT ![r] = [ctx |-> c, since |-> since]]
        /\ up
        /\ UNCHANGED <<clock, up, keyFile, adminKey, users, device, catalogue, signed, granted,
                       login, sock>>
    BY <1>2 DEF Arrives
  <2>2. RequestsTypeOK'
    BY <1>a, <1>2, <2>1 DEF RequestsTypeOK
  <2>3. req'[r] = [ctx |-> c, since |-> since] /\ \A q \in Requests \ {r} : req'[q] = req[q]
    BY <1>a, <2>1 DEF RequestsTypeOK
  <2>4. ReqInv'
    <3> SUFFICES ASSUME NEW q \in Requests, req'[q] # None
                 PROVE  GoodContext(req[q].ctx)'
      BY DEF ReqInv
    <3>1. GoodContext(req'[q].ctx)
      BY <1>0, <1>2, <2>3 DEF ReqInv
    <3> QED
      BY <2>1, <3>1 DEF GoodContext
  <2>5. OutlivedByConnectionsOnly'
    <3>1. OpenedInTime(req'[r])
      BY <1>2, <2>3 DEF InTime, OpenedInTime
    <3>2. \A q \in Requests : req'[q] # None => OpenedInTime(req'[q])
      BY <1>0, <2>3, <3>1 DEF OutlivedByConnectionsOnly
    <3> QED
      BY <1>0, <2>1, <3>2 DEF OutlivedByConnectionsOnly
  <2>6. catalogue' \in 0 .. 1
    BY <1>0, <2>1 DEF SessTypeOK, RowsTypeOK
  <2> QED
    BY <1>1, <2>1, <2>2, <2>4, <2>5, <2>6
<1>3. ASSUME NEW header \in signed \union {None}, HttpRequest(r, header) PROVE SessInv'
  <2> DEFINE c == InterceptResponse(header, Anonymous)
  <2>1. c \in Contexts /\ GoodContext(c)
    BY InterceptGood, AnonymousGood
  <2>2. InTime(c, clock)
    BY <1>a, InterceptInTime, AnonymousGood DEF ProcessTypeOK, InTime, Anonymous
  <2>3. clock \in Nat /\ Arrives(r, c, clock)
    BY <1>a, <1>3 DEF ProcessTypeOK, HttpRequest
  <2> HIDE DEF c
  <2> QED
    BY <1>2, <2>1, <2>2, <2>3
<1>4. ASSUME NEW c \in Conns, SocketRequest(r, c) PROVE SessInv'
  <2>1. sock[c] # None /\ Arrives(r, InterceptResponse(sock[c].header, sock[c].ctx), sock[c].since)
    BY <1>4 DEF SocketRequest
  <2>2. sock[c].ctx \in Contexts /\ GoodContext(sock[c].ctx) /\ sock[c].header \in signed \union {None}
    BY <1>0, <1>a, <2>1 DEF SocketsTypeOK, SockInv
  <2>3. /\ InterceptResponse(sock[c].header, sock[c].ctx) \in Contexts
        /\ GoodContext(InterceptResponse(sock[c].header, sock[c].ctx))
    BY <2>2, InterceptGood
  <2>4. sock[c].since \in 0 .. clock /\ InTime(sock[c].ctx, sock[c].since)
    BY <1>0, <1>a, <2>1
    DEF SocketsTypeOK, ProcessTypeOK, SinceInv, OutlivedByConnectionsOnly, OpenedInTime, InTime
  <2>5. InTime(InterceptResponse(sock[c].header, sock[c].ctx), sock[c].since)
    BY <2>2, <2>4, InterceptInTime
  <2>6. sock[c].since \in Nat
    BY <1>a, <2>4 DEF ProcessTypeOK
  <2> QED
    BY <1>2, <2>1, <2>3, <2>5, <2>6
<1>5. ASSUME NEW c \in Conns, SocketSubscription(r, c) PROVE SessInv'
  <2>1. sock[c] # None /\ Arrives(r, sock[c].ctx, sock[c].since)
    BY <1>5 DEF SocketSubscription
  <2>2. sock[c].ctx \in Contexts /\ GoodContext(sock[c].ctx)
    BY <1>0, <1>a, <2>1 DEF SocketsTypeOK, SockInv
  <2>3. sock[c].since \in Nat /\ InTime(sock[c].ctx, sock[c].since)
    BY <1>0, <1>a, <2>1 DEF SocketsTypeOK, OutlivedByConnectionsOnly, OpenedInTime, InTime
  <2> QED
    BY <1>2, <2>1, <2>2, <2>3
<1>6. CASE Resolve(r)
  <2>1. /\ req' = [req EXCEPT ![r] = None]
        /\ UNCHANGED <<clock, up, keyFile, adminKey, users, device, signed, granted, login, sock>>
    BY <1>6 DEF Resolve
  <2>2. catalogue' \in 0 .. 1
    <3>1. PICK f \in Fields : catalogue' = CatalogueAfter(f, req[r].ctx)
      BY <1>6 DEF Resolve
    <3>2. catalogue \in 0 .. 1
      BY <1>0 DEF SessTypeOK, RowsTypeOK
    <3>3. catalogue' = catalogue \/ catalogue' = 1 - catalogue
      BY <3>1 DEF CatalogueAfter
    <3> QED
      BY <3>2, <3>3
  <2>3. RequestsTypeOK'
    BY <1>a, <2>1 DEF RequestsTypeOK
  <2>4. \A q \in Requests : req'[q] = None \/ req'[q] = req[q]
    BY <1>a, <2>1 DEF RequestsTypeOK
  <2>5. ReqInv'
    BY <1>0, <2>1, <2>4 DEF ReqInv, GoodContext
  <2>6. OutlivedByConnectionsOnly'
    BY <1>0, <2>1, <2>4 DEF OutlivedByConnectionsOnly
  <2>7. ~up => \A q \in Requests : req'[q] = None
    BY <1>0, <2>4 DEF DownInv
  <2> QED
    BY <1>1, <2>1, <2>2, <2>3, <2>5, <2>6, <2>7
<1> QED
  BY <1>3, <1>4, <1>5, <1>6 DEF RequestNext

\* Connections are opened with a token that is valid then, and closed.
LEMMA SocketStep ==
    ASSUME SessInv, NEW c \in Conns, SocketNext(c)
    PROVE  SessInv'
<1>0. SessTypeOK /\ LoginInv /\ OneUserPerAccount /\ SignedInv /\ ReqInv /\ SockInv /\ DownInv
      /\ SinceInv /\ OutlivedByConnectionsOnly
  BY DEF SessInv
<1>a. SocketsTypeOK /\ TokensTypeOK
  BY <1>0 DEF SessTypeOK
<1> USE DEF rowVars, keyVars, tokenVars
<1>1. ASSUME UNCHANGED <<clock, up, keyFile, adminKey, users, device, catalogue, signed, granted,
                         login, req>>,
             SocketsTypeOK', SockInv', SinceInv', OutlivedByConnectionsOnly', ~up => \A d \in Conns : sock'[d] = None
      PROVE  SessInv'
  <2>1. ProcessTypeOK' /\ RowsTypeOK' /\ TokensTypeOK' /\ LoginsTypeOK' /\ RequestsTypeOK'
    BY <1>0, <1>1
    DEF SessTypeOK, ProcessTypeOK, RowsTypeOK, TokensTypeOK, LoginsTypeOK, RequestsTypeOK
  <2>2. LoginInv' /\ OneUserPerAccount' /\ SignedInv' /\ DownInv'
    BY <1>0, <1>1 DEF LoginInv, OneUserPerAccount, SignedInv, DownInv
  <2>3. ReqInv'
    BY <1>0, <1>1 DEF ReqInv, GoodContext
  <2> QED
    BY <1>1, <2>1, <2>2, <2>3 DEF SessInv, SessTypeOK
<1>2. ASSUME NEW token \in signed \union {None}, NEW header \in signed \union {None},
             WsInitFunc(c, token, header)
      PROVE  SessInv'
  <2> DEFINE ctx == IF token = None THEN Anonymous ELSE WithPrincipal(token, Anonymous)
  <2>0. clock \in Nat /\ clock \in 0 .. clock
    BY <1>0 DEF SessTypeOK, ProcessTypeOK
  <2>1. ctx \in Contexts /\ GoodContext(ctx) /\ InTime(ctx, clock)
    <3>1. CASE token = None
      BY <3>1, AnonymousGood DEF InTime, Anonymous
    <3>2. CASE token # None
      <4>1. token \in signed /\ (Validate(token) \/ ValidateAdmin(token))
        BY <1>2, <3>2 DEF WsInitFunc
      <4> QED
        BY <2>0, <3>2, <4>1, PrincipalGood, PrincipalInTime, AnonymousGood DEF InTime, Anonymous
    <3> QED
      BY <3>1, <3>2
  <2>2. /\ sock' = [sock EXCEPT ![c] = [ctx |-> ctx, header |-> header, since |-> clock]]
        /\ up
        /\ UNCHANGED <<clock, up, keyFile, adminKey, users, device, catalogue, signed, granted,
                       login, req>>
    BY <1>2 DEF WsInitFunc
  <2> HIDE DEF ctx
  <2>3. SocketsTypeOK'
    BY <1>a, <2>0, <2>1, <2>2 DEF SocketsTypeOK, TokensTypeOK
  <2>4. SockInv'
    <3> SUFFICES ASSUME NEW d \in Conns, sock'[d] # None
                 PROVE  GoodContext(sock[d].ctx)' /\ sock'[d].header \in signed' \union {None}
      BY DEF SockInv
    <3>1. GoodContext(sock'[d].ctx) /\ sock'[d].header \in signed \union {None}
      BY <1>0, <1>a, <2>1, <2>2 DEF SockInv, SocketsTypeOK
    <3> QED
      BY <2>2, <3>1 DEF GoodContext
  <2>5. \A d \in Conns : sock'[d] = IF d = c THEN [ctx |-> ctx, header |-> header, since |-> clock]
                                            ELSE sock[d]
    BY <1>a, <2>2 DEF SocketsTypeOK
  <2>6. SinceInv'
    BY <1>0, <2>0, <2>2, <2>5 DEF SinceInv
  <2>7. OutlivedByConnectionsOnly'
    <3>1. OpenedInTime(sock'[c])
      BY <2>1, <2>5 DEF InTime, OpenedInTime
    <3>2. \A d \in Conns : sock'[d] # None => OpenedInTime(sock'[d])
      BY <1>0, <2>5, <3>1 DEF OutlivedByConnectionsOnly
    <3> QED
      BY <1>0, <2>2, <3>2 DEF OutlivedByConnectionsOnly
  <2> QED
    BY <1>1, <2>2, <2>3, <2>4, <2>6, <2>7
<1>3. CASE Disconnect(c)
  <2>1. /\ sock' = [sock EXCEPT ![c] = None]
        /\ UNCHANGED <<clock, up, keyFile, adminKey, users, device, catalogue, signed, granted,
                       login, req>>
    BY <1>3 DEF Disconnect
  <2>2. SocketsTypeOK'
    BY <1>a, <2>1 DEF SocketsTypeOK
  <2>3. \A d \in Conns : sock'[d] = None \/ sock'[d] = sock[d]
    BY <1>a, <2>1 DEF SocketsTypeOK
  <2>4. SockInv'
    BY <1>0, <2>1, <2>3 DEF SockInv, GoodContext
  <2>5. ~up => \A d \in Conns : sock'[d] = None
    BY <1>0, <2>3 DEF DownInv
  <2>6. SinceInv' /\ OutlivedByConnectionsOnly'
    BY <1>0, <2>1, <2>3 DEF SinceInv, OutlivedByConnectionsOnly
  <2> QED
    BY <1>1, <2>1, <2>2, <2>4, <2>5, <2>6
<1> QED
  BY <1>2, <1>3 DEF SocketNext

-----------------------------------------------------------------------------
(* Theorems. *)

\* The invariant holds of every step of a login, a request, a connection and
\* the process, restarts included.
THEOREM SessionsInvariant == Spec => []SessInv
<1>1. SessInv /\ [Next]_sessVars => SessInv'
  <2> SUFFICES ASSUME SessInv, [Next]_sessVars PROVE SessInv'
    OBVIOUS
  <2>1. CASE UNCHANGED sessVars
    BY <2>1
    DEF sessVars, SessInv, SessTypeOK, ProcessTypeOK, RowsTypeOK, TokensTypeOK, LoginsTypeOK,
        RequestsTypeOK, SocketsTypeOK, LoginInv, OneUserPerAccount, SignedInv, ReqInv, SockInv,
        DownInv, SinceInv, OutlivedByConnectionsOnly, GoodContext
  <2> QED
    BY <2>1, ProcessStep, LoginStep, RequestStep, SocketStep DEF Next
<1> QED
  BY <1>1, SessInvInit, PTL DEF Spec

\* Tables, tokens, logins, requests and connections keep their types.
THEOREM SessTypeCorrect == Spec => []SessTypeOK
<1>1. SessInv => SessTypeOK
  BY DEF SessInv
<1> QED
  BY <1>1, SessionsInvariant, PTL

\* However many logins of one Apple account run at once, fail or are cut off by
\* a restart, the account has one user of its own, whom all its tokens name.
THEOREM OneUser == Spec => []OneUserPerAccount
<1>1. SessInv => OneUserPerAccount
  BY DEF SessInv
<1> QED
  BY <1>1, SessionsInvariant, PTL

\* Whoever acts as a user or as the editor presented a token that was signed
\* for the user's account, or with the key this process loaded.
THEOREM PrincipalsAuthentic == Spec => []AuthenticPrincipals
<1>1. SessInv => AuthenticPrincipals
  <2> SUFFICES ASSUME SessInv, NEW c \in ContextsInUse PROVE GoodContext(c)
    BY DEF AuthenticPrincipals, UserHasLoggedIn, AdminHasLoadedKey, GoodContext
  <2> QED
    BY DEF ContextsInUse, SessInv, ReqInv, SockInv
<1> QED
  BY <1>1, SessionsInvariant, PTL

\* Whatever the lifetimes, only a connection opened in time outlives its token:
\* nothing is begun with an expired one.
THEOREM TokensExpire == Spec => []OutlivedByConnectionsOnly
<1>1. SessInv => OutlivedByConnectionsOnly
  BY DEF SessInv
<1> QED
  BY <1>1, SessionsInvariant, PTL

\* Every field whose resolver writes the catalogue asks for the editor.
LEMMA WritesAskForAdmin == CatalogueWrites \subseteq TeaAdminFields \union TagAdminFields
  BY DEF CatalogueWrites, TeaAdminFields, TagAdminFields, TeaMutations, TeaTagMutations,
         CategoryMutations, TagMutations, TagMoveMutations

\* The catalogue changes only by a request that carries the editor.
THEOREM CatalogueGuarded == Spec => CatalogueByAdmin
<1> DEFINE A == catalogue' # catalogue =>
                    \E r \in Requests :
                        /\ req[r] # None /\ req'[r] = None
                        /\ req[r].ctx.admin # None
                        /\ req[r].ctx.admin.token.key = adminKey
<1>1. SessInv /\ [Next]_sessVars => [A]_sessVars
  <2> SUFFICES ASSUME SessInv, Next, catalogue' # catalogue
               PROVE  \E r \in Requests :
                        /\ req[r] # None /\ req'[r] = None
                        /\ req[r].ctx.admin # None
                        /\ req[r].ctx.admin.token.key = adminKey
    OBVIOUS
  <2> USE DEF rowVars, keyVars, tokenVars
  <2>1. PICK r \in Requests : Resolve(r)
    <3>1. ~ProcessNext
      BY DEF ProcessNext, Start, Stop, MountKey, Tick, EditorSigns
    <3>2. \A l \in Logins : ~LoginNext(l)
      BY DEF LoginNext, AppleVerifies, GetOrCreateUser, SignToken, BindDevice, LoginFails
    <3>3. \A c \in Conns : ~SocketNext(c)
      BY DEF SocketNext, WsInitFunc, Disconnect
    <3>4. \A r \in Requests : RequestNext(r) => Resolve(r)
      BY DEF RequestNext, HttpRequest, SocketRequest, SocketSubscription, Arrives
    <3> QED
      BY <3>1, <3>2, <3>3, <3>4 DEF Next
  <2>2. PICK f \in Fields : catalogue' = CatalogueAfter(f, req[r].ctx)
    BY <2>1 DEF Resolve
  <2>3. f \in CatalogueWrites /\ MayResolve(f, req[r].ctx)
    BY <2>2 DEF CatalogueAfter
  <2>4. req[r].ctx.admin # None
    BY <2>3, WritesAskForAdmin DEF MayResolve, RequireAdmin
  <2>5. req[r] # None /\ req'[r] = None
    BY <2>1 DEF Resolve, SessInv, SessTypeOK, RequestsTypeOK
  <2>6. req[r].ctx.admin.token.key = adminKey
    BY <2>4, <2>5 DEF SessInv, ReqInv, GoodContext
  <2> QED
    BY <2>4, <2>5, <2>6
<1> QED
  BY <1>1, SessionsInvariant, PTL DEF Spec, CatalogueByAdmin

=============================================================================
