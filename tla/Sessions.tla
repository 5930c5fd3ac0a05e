------------------------------ MODULE Sessions ------------------------------
(***************************************************************************)
(* Who may do what: logging in with an Apple account, the tokens of users  *)
(* and of the editor, the websocket and HTTP transports that turn a token  *)
(* into a principal, and the checks at the top of the resolvers            *)
(* (internal/auth, the start-up of cmd/server and internal/server,         *)
(* schema.resolvers.go, pkg/pg).                                           *)
(*                                                                         *)
(* A token is what its verification looks at: the key that signed it, the  *)
(* issuer, the expiry and the admin claim.  Nobody makes a token without   *)
(* the key.  The process may stop at any step and start again: tables and  *)
(* tokens survive, connections, requests and the loaded key do not.        *)
(***************************************************************************)
EXTENDS Schema, Integers, FiniteSets

CONSTANTS Accounts,     \* Apple accounts
          Users,        \* user ids (uuid.New())
          Devices,
          AdminKeys,    \* the editor's key pairs
          AppleKey,     \* the server's own key, the one registered with Apple
          Editor, Team, \* issuers that are not user ids: the editor, the Apple team
          Logins,       \* requests that call authApple
          Requests,     \* requests that call another field
          Conns,        \* websocket connections
          Lifetime,     \* JwtDurationHour, of a user's token
          EditorLifetime, \* of an editor's token, by the server's clock
          SecretLifetime, \* how long the secret made for Apple is valid
          Leeway,       \* ClockSkewSeconds
          MaxTime,      \* bound on the clock
          MaxTokens,    \* bound on the tokens signed, secrets not counted
          None

ASSUME SessionsAssumption ==
    /\ Lifetime \in Nat /\ EditorLifetime \in Nat /\ SecretLifetime \in Nat /\ Leeway \in Nat
    /\ MaxTime \in Nat /\ MaxTokens \in Nat
    /\ Users \intersect {Editor, Team, None} = {}
    /\ AppleKey \notin AdminKeys /\ None \notin AdminKeys \union {AppleKey}
    /\ None \notin Accounts \union Devices \union Nat \union {Editor, Team}

Tokens ==
    [key : AdminKeys \union {AppleKey}, iss : Users \union {Editor, Team},
     exp : Nat, admin : BOOLEAN]

ASSUME NoneIsNoToken == None \notin Tokens

VARIABLES
    clock,     \* time.Now()
    up,        \* the process accepts connections
    keyFile,   \* the admin public key in the mounted file, or None
    adminKey,  \* the admin public key this process has loaded
    users,     \* users[a]: the id in the row of account a, or None
    device,    \* device[d]: the user in the row of device d, or None
    catalogue, \* changes with every write to the teas, tags and categories
    signed,    \* every token signed so far
    granted,   \* history: granted[a]: the tokens signed for account a
    login,     \* login[l]: what login l has done, for which account and device
    req,       \* req[r]: the context of r's resolvers, and since when there is the
               \* HTTP request or the connection that carries r, or None
    sock       \* sock[c]: the context and upgrade header of connection c, and since
               \* when it is open, or None

sessVars == <<clock, up, keyFile, adminKey, users, device, catalogue, signed,
              granted, login, req, sock>>

rowVars == <<users, device, catalogue>>
keyVars == <<up, keyFile, adminKey>>
tokenVars == <<signed, granted>>

-----------------------------------------------------------------------------
(* Principals. *)

UserPrincipals  == [id : Users, token : Tokens]
AdminPrincipals == [token : Tokens]
Contexts == [user : UserPrincipals \union {None}, admin : AdminPrincipals \union {None}]

Anonymous == [user |-> None, admin |-> None]
NoLogin   == [pc |-> "idle", account |-> None, device |-> None, user |-> None]

ProcessTypeOK ==
    /\ clock \in Nat
    /\ up \in BOOLEAN
    /\ keyFile \in AdminKeys \union {None} /\ adminKey \in AdminKeys \union {None}

RowsTypeOK ==
    /\ users \in [Accounts -> Users \union {None}]
    /\ device \in [Devices -> Users \union {None}]
    /\ catalogue \in 0 .. 1

TokensTypeOK == signed \in SUBSET Tokens /\ granted \in [Accounts -> SUBSET Tokens]

LoginsTypeOK ==
    login \in [Logins -> [pc : {"idle", "verified", "upserted", "signed"},
                          account : Accounts \union {None},
                          device : Devices \union {None}, user : Users \union {None}]]

RequestsTypeOK ==
    req \in [Requests -> [ctx : Contexts, since : Nat] \union {None}]

SocketsTypeOK ==
    sock \in [Conns -> [ctx : Contexts, header : Tokens \union {None}, since : Nat] \union {None}]

SessTypeOK ==
    ProcessTypeOK /\ RowsTypeOK /\ TokensTypeOK /\ LoginsTypeOK /\ RequestsTypeOK /\ SocketsTypeOK

\* Mutant: any issuer is taken for a user.
issuerUUIDUnchecked(t) == TRUE

\* The issuer of a user's token is the user's id.
issuerUUID(t) == t.iss \in Users

\* Mutant: the leeway meant for the editor is given to everybody.
unexpiredWithLeeway(t, leeway) == clock < t.exp + Leeway

\* The parser refuses a token from its expiry on.
unexpired(t, leeway) == clock < t.exp + leeway

Validate(t) == t.key = AppleKey /\ unexpired(t, 0) /\ issuerUUID(t)

\* There is one key, the default, whatever the token's kid.
adminVerification(t) == t.key = adminKey

\* The admin claim stands for the audience the editor's tokens are for as well: a
\* token that lacks either is refused.
ValidateAdmin(t) ==
    adminVerification(t) /\ t.iss = Editor /\ unexpired(t, Leeway) /\ t.admin

\* As a user first, then as the editor.
WithPrincipal(t, base) ==
    IF Validate(t)
    THEN [base EXCEPT !.user = [id |-> t.iss, token |-> t]]
    ELSE [base EXCEPT !.admin = [token |-> t]]

\* Neither: the error is added to the response, the operation runs as it is.
InterceptResponse(header, base) ==
    IF header # None /\ (Validate(header) \/ ValidateAdmin(header))
    THEN WithPrincipal(header, base)
    ELSE base

-----------------------------------------------------------------------------
(* The process. *)

\* The file is read once, under the default name.
loadAdminKeys == keyFile # None /\ adminKey' = keyFile

(***************************************************************************)
(* Start signs the secret for Apple with the server's key, reads the admin *)
(* key from the file, and only then does main open the port; without the   *)
(* file it panics.                                                         *)
(***************************************************************************)
Start ==
    /\ ~up
    /\ up' = TRUE
    /\ loadAdminKeys
    /\ signed' = signed \union {[key |-> AppleKey, iss |-> Team,
                                 exp |-> clock + SecretLifetime, admin |-> FALSE]}
    /\ UNCHANGED <<clock, keyFile, rowVars, granted, login, req, sock>>

\* The process ends, with all it was doing.
Stop ==
    /\ up
    /\ up' = FALSE
    /\ adminKey' = None
    /\ login' = [l \in Logins |-> NoLogin]
    /\ req' = [r \in Requests |-> None]
    /\ sock' = [c \in Conns |-> None]
    /\ UNCHANGED <<clock, keyFile, rowVars, tokenVars>>

\* The mounted file is replaced or removed.
MountKey(k) ==
    /\ k # keyFile
    /\ keyFile' = k
    /\ UNCHANGED <<clock, up, adminKey, rowVars, tokenVars, login, req, sock>>

Tick ==
    /\ clock < MaxTime
    /\ clock' = clock + 1
    /\ UNCHANGED <<keyVars, rowVars, tokenVars, login, req, sock>>

MoreTokens == Cardinality({t \in signed : t.iss # Team}) < MaxTokens

\* The editor signs a token with one of its keys.
EditorSigns(k, admin) ==
    /\ MoreTokens
    /\ signed' = signed \union {[key |-> k, iss |-> Editor, exp |-> clock + EditorLifetime,
                                 admin |-> admin]}
    /\ UNCHANGED <<clock, keyVars, rowVars, granted, login, req, sock>>

-----------------------------------------------------------------------------
(* authApple. *)

\* Apple has verified the code and says whose it is.
AppleVerifies(l, a, d) ==
    /\ up /\ login[l].pc = "idle"
    /\ login' = [login EXCEPT ![l] = [pc |-> "verified", account |-> a, device |-> d, user |-> None]]
    /\ UNCHANGED <<clock, keyVars, rowVars, tokenVars, req, sock>>

\* Mutant: the row is replaced on conflict.
UpsertedAnew(a, u) == [users EXCEPT ![a] = u]

\* INSERT ... ON CONFLICT (apple_id) DO UPDATE SET apple_id: the id stays.
Upserted(a, u) == [users EXCEPT ![a] = IF @ = None THEN u ELSE @]

GetOrCreateUser(l, u) ==
    LET a == login[l].account IN
    /\ login[l].pc = "verified"
    /\ \A b \in Accounts : users[b] # u
    /\ users' = Upserted(a, u)
    /\ login' = [login EXCEPT ![l].pc = "upserted", ![l].user = users'[a]]
    /\ UNCHANGED <<clock, keyVars, device, catalogue, tokenVars, req, sock>>

SignToken(l) ==
    LET a == login[l].account
        t == [key |-> AppleKey, iss |-> login[l].user, exp |-> clock + Lifetime, admin |-> FALSE] IN
    /\ login[l].pc = "upserted" /\ MoreTokens
    /\ login' = [login EXCEPT ![l].pc = "signed"]
    /\ signed' = signed \union {t}
    /\ granted' = [granted EXCEPT ![a] = @ \union {t}]
    /\ UNCHANGED <<clock, keyVars, rowVars, req, sock>>

\* INSERT ... ON CONFLICT (id) DO NOTHING: the first user keeps the device.
Bound(d, u) == [device EXCEPT ![d] = IF @ = None THEN u ELSE @]

\* The session is sent once the device is bound.
BindDevice(l) ==
    /\ login[l].pc = "signed"
    /\ device' = Bound(login[l].device, login[l].user)
    /\ login' = [login EXCEPT ![l] = NoLogin]
    /\ UNCHANGED <<clock, keyVars, users, catalogue, tokenVars, req, sock>>

\* A statement or the signing fails: an error is sent, what was written stays.
LoginFails(l) ==
    /\ login[l].pc # "idle"
    /\ login' = [login EXCEPT ![l] = NoLogin]
    /\ UNCHANGED <<clock, keyVars, rowVars, tokenVars, req, sock>>

-----------------------------------------------------------------------------
(* Requests over HTTP and websockets. *)

Arrives(r, c, since) ==
    /\ up /\ req[r] = None
    /\ req' = [req EXCEPT ![r] = [ctx |-> c, since |-> since]]
    /\ UNCHANGED <<clock, keyVars, rowVars, tokenVars, login, sock>>

HttpRequest(r, header) == Arrives(r, InterceptResponse(header, Anonymous), clock)

\* The token of the connection's first message is validated once, here.
WsInitFunc(c, token, header) ==
    /\ up /\ sock[c] = None
    /\ token # None => Validate(token) \/ ValidateAdmin(token)
    /\ sock' = [sock EXCEPT ![c] =
                    [ctx |-> IF token = None THEN Anonymous ELSE WithPrincipal(token, Anonymous),
                     header |-> header, since |-> clock]]
    /\ UNCHANGED <<clock, keyVars, rowVars, tokenVars, login, req>>

Disconnect(c) ==
    /\ sock[c] # None
    /\ sock' = [sock EXCEPT ![c] = None]
    /\ UNCHANGED <<clock, keyVars, rowVars, tokenVars, login, req>>

\* The middleware looks at the header of the upgrade request for every response.
SocketRequest(r, c) ==
    sock[c] # None /\ Arrives(r, InterceptResponse(sock[c].header, sock[c].ctx), sock[c].since)

\* The resolver of a subscription runs before there is a response.
SocketSubscription(r, c) == sock[c] # None /\ Arrives(r, sock[c].ctx, sock[c].since)

-----------------------------------------------------------------------------
(* The resolvers: who is let in, and whether the catalogue is written. *)

\* RequireAdmin comes first.
TeaAdminFields == {"newTea", "updateTea", "addTagToTea", "deleteTagFromTea", "deleteTea"}

\* Mutant: a check is missing.
TagAdminFieldsLess ==
    {"createTagCategory", "updateTagCategory", "deleteTagCategory", "createTag",
     "updateTag", "deleteTag"}

TagAdminFields ==
    {"createTagCategory", "updateTagCategory", "deleteTagCategory", "createTag",
     "updateTag", "changeTagCategory", "deleteTag"}

\* GetUser comes first.
CollectionUserFields ==
    {"createCollection", "addRecordsToCollection", "deleteRecordsFromCollection",
     "deleteCollection"}
OtherUserFields == {"send", "teaRecommendation", "me", "collections", "teaOfTheDay", "recommendTea"}

GetUser(c) == c.user # None
RequireAdmin(c) == c.admin # None

MayResolve(f, c) ==
    /\ f \in TeaAdminFields \union TagAdminFields => RequireAdmin(c)
    /\ f \in CollectionUserFields \union OtherUserFields => GetUser(c)

\* The fields whose resolvers call the tea or tag manager to write.
CatalogueWrites ==
    (DOMAIN TeaMutations \union DOMAIN TeaTagMutations \union {"deleteTea"}
        \union DOMAIN CategoryMutations \union DOMAIN TagMutations \union DOMAIN TagMoveMutations)

Fields == (DOMAIN Query \union DOMAIN Mutation \union DOMAIN Subscription) \ {"authApple"}

\* The catalogue after field f is resolved in context c.
CatalogueAfter(f, c) ==
    IF f \in CatalogueWrites /\ MayResolve(f, c) THEN 1 - catalogue ELSE catalogue

Resolve(r) ==
    /\ req[r] # None
    /\ catalogue' \in {CatalogueAfter(f, req[r].ctx) : f \in Fields}
    /\ req' = [req EXCEPT ![r] = None]
    /\ UNCHANGED <<clock, keyVars, users, device, tokenVars, login, sock>>

-----------------------------------------------------------------------------
Init ==
    /\ clock = 0
    /\ up = FALSE
    /\ keyFile \in AdminKeys \union {None}
    /\ adminKey = None
    /\ users = [a \in Accounts |-> None]
    /\ device = [d \in Devices |-> None]
    /\ catalogue = 0
    /\ signed = {}
    /\ granted = [a \in Accounts |-> {}]
    /\ login = [l \in Logins |-> NoLogin]
    /\ req = [r \in Requests |-> None]
    /\ sock = [c \in Conns |-> None]

ProcessNext ==
    \/ Start
    \/ Stop
    \/ \E k \in AdminKeys \union {None} : MountKey(k)
    \/ Tick
    \/ \E k \in AdminKeys, admin \in BOOLEAN : EditorSigns(k, admin)

LoginNext(l) ==
    \/ \E a \in Accounts, d \in Devices : AppleVerifies(l, a, d)
    \/ \E u \in Users : GetOrCreateUser(l, u)
    \/ SignToken(l)
    \/ BindDevice(l)
    \/ LoginFails(l)

RequestNext(r) ==
    \/ \E header \in signed \union {None} : HttpRequest(r, header)
    \/ \E c \in Conns : SocketRequest(r, c)
    \/ \E c \in Conns : SocketSubscription(r, c)
    \/ Resolve(r)

SocketNext(c) ==
    \/ \E token \in signed \union {None}, header \in signed \union {None} :
        WsInitFunc(c, token, header)
    \/ Disconnect(c)

Next ==
    \/ ProcessNext
    \/ \E l \in Logins : LoginNext(l)
    \/ \E r \in Requests : RequestNext(r)
    \/ \E c \in Conns : SocketNext(c)

Spec == Init /\ [][Next]_sessVars

-----------------------------------------------------------------------------
(* Properties. *)

(***************************************************************************)
(* Concurrent first logins, failed logins and restarts leave every Apple   *)
(* account with one user of its own, and every token ever signed for the   *)
(* account names that user.                                                *)
(***************************************************************************)
OneUserPerAccount ==
    /\ \A a, b \in Accounts : users[a] # None /\ users[a] = users[b] => a = b
    /\ \A a \in Accounts : \A t \in granted[a] : t.iss = users[a]

\* The contexts of the requests under way and of the open connections.
ContextsInUse ==
    {req[r].ctx : r \in {q \in Requests : req[q] # None}} \union
        {sock[c].ctx : c \in {d \in Conns : sock[d] # None}}

(***************************************************************************)
(* Whoever acts as a user presented a token that Auth had signed for the   *)
(* Apple account of that user, and not another token of the same key.      *)
(***************************************************************************)
UserHasLoggedIn ==
    \A c \in ContextsInUse : c.user # None =>
        \E a \in Accounts : users[a] = c.user.id /\ c.user.token \in granted[a]

(***************************************************************************)
(* Whoever acts as the editor, over HTTP or a connection, presented a token*)
(* with the admin claim signed with the key this process loaded: after a   *)
(* restart no token of a replaced key counts.                              *)
(***************************************************************************)
AdminHasLoadedKey ==
    \A c \in ContextsInUse : c.admin # None =>
        /\ c.admin.token \in signed
        /\ c.admin.token.key = adminKey
        /\ c.admin.token.admin

(***************************************************************************)
(* Both: a principal comes from a token that was signed for it, whatever   *)
(* logins, replaced keys and restarts came in between.                     *)
(***************************************************************************)
AuthenticPrincipals == UserHasLoggedIn /\ AdminHasLoadedKey

\* No token of x's context had expired when the HTTP request or the connection
\* that carries x began.
OpenedInTime(x) ==
    /\ x.ctx.user # None => x.since < x.ctx.user.token.exp
    /\ x.ctx.admin # None => x.since < x.ctx.admin.token.exp + Leeway

(***************************************************************************)
(* A token acts past its expiry only over a connection that was opened     *)
(* before it expired: whichever of its two tokens a websocket's requests   *)
(* act on, and however late they come, no connection and no HTTP request   *)
(* is begun with a token that has expired.                                 *)
(***************************************************************************)
OutlivedByConnectionsOnly ==
    /\ \A r \in Requests : req[r] # None => OpenedInTime(req[r])
    /\ \A c \in Conns : sock[c] # None => OpenedInTime(sock[c])

(***************************************************************************)
(* The catalogue changes only by a request that carries the editor,        *)
(* authenticated with the key this process loaded.                         *)
(***************************************************************************)
CatalogueByAdmin ==
    [][catalogue' # catalogue =>
        \E r \in Requests :
            /\ req[r] # None /\ req'[r] = None
            /\ req[r].ctx.admin # None
            /\ req[r].ctx.admin.token.key = adminKey]_sessVars

=============================================================================
