------------------------------ MODULE Accounts ------------------------------
(***************************************************************************)
(* Settings, messages and accounts of a namespace: the REST handlers       *)
(* (configs.go, messages.go and user.go of cmd/apps/apis/rest/v1), the     *)
(* service for logins with Google (pkg/auth/google.go), the notifications  *)
(* (pkg/notify) and the configuration with its cache (config/config.go).   *)
(* Google itself is external: an exchange of a code succeeds or fails.     *)
(***************************************************************************)
EXTENDS Handlers

CONSTANT Text    \* the strings in requests and tables

ASSUME TextAssumption == {"", "none", "friday", "workflow"} \subseteq Text

VARIABLES
  cfg,          \* table of settings: <<group, name>> -> value
  cached,       \* configWrapper.cached, the same way
  msg,          \* notifications: id -> "unread" or "read"
  user,         \* users: number -> [sub, email, ns]
  owner,        \* namespaces: name -> user
  google,       \* logins with Google are configured
  bypassed,     \* ghost: settings whose cached value may be outdated
  unsynced,     \* ghost: names of settings of friday whose copy may differ
  orphaned      \* ghost: users and namespaces that lost each other

accountVars == <<cfg, cached, msg, user, owner, google, bypassed, unsynced, orphaned>>
tables == <<msg, user, owner, google, orphaned>>
settings == <<cfg, cached, bypassed, unsynced>>

K(p) == req[p].key
Friday(name) == <<"friday", name>>
Copy(name) == <<"workflow", name>>          \* "friday_" + name
None == "none"
Value(key) == IF key \in DOMAIN cfg THEN cfg[key] ELSE None

AccountLocal == [val |-> None, tok |-> [ns |-> "", uid |-> 0], uid |-> 0, ids |-> <<>>, list |-> {}]

\* Other requests in the middle of their work on one of the settings.
Together(p, keys) ==
  \E q \in Procs \ {p} : pc[q] \notin {"enter", "done"} /\ "key" \in DOMAIN req[q] /\ K(q) \in keys

\* AuthMiddleware: no handler runs without a token, or without the header with the
\* namespace, not even those of the login.
Authorized(p) == req[p].caller.ns # ""
Unauthorized(p) ==
  /\ pc[p] = "enter" /\ ~Authorized(p) /\ Fine /\ Reply(p, 401)
  /\ UNCHANGED <<req, at>> /\ UNCHANGED accountVars

Enters(p, o) == Op(p) = o /\ pc[p] = "enter" /\ Authorized(p)
End(p, code) == Reply(p, code) /\ UNCHANGED <<req, at>>
Step(p, l) == Goto(p, l) /\ UNCHANGED <<req, at, resp>>

----------------------------------------------------------------------------
(* Settings. *)

GetConfig(p) ==
  /\ Enters(p, "getcfg") /\ UNCHANGED accountVars
  /\ \/ Fine /\ End(p, IF K(p) \in DOMAIN cfg THEN 200 ELSE 404)
     \/ Fail /\ End(p, 404)

ListConfig(p) ==
  /\ Enters(p, "listcfg") /\ UNCHANGED accountVars
  /\ (Fine /\ End(p, 200)) \/ (Fail /\ End(p, 500))

\* The cache of configWrapper does not learn of what the handlers write, and a copy in
\* the group workflow can be set directly.
Wrote(p, keys) ==
  /\ bypassed' = bypassed \cup keys
  /\ unsynced' = unsynced \cup {k[2] : k \in {x \in keys : x[1] = "workflow" \/ Together(p, {Friday(x[2]), Copy(x[2])})}}
  /\ UNCHANGED <<cached, tables>>
Lost(p) == unsynced' = unsynced \cup {K(p)[2]} /\ UNCHANGED <<cfg, cached, bypassed, tables>>

SetConfigValue(key, v) == cfg' = Put(cfg, key, v)
DeleteConfigValue(key) == cfg' = Drop(cfg, {key})

\* SetConfig: a value of the group friday is written to the group workflow as well.
SetConfig(p) ==
  \/ /\ Enters(p, "setcfg")
     /\ \/ Fine /\ req[p].val = "" /\ End(p, 400) /\ UNCHANGED accountVars
        \/ Fail /\ req[p].val # "" /\ End(p, 500) /\ UNCHANGED accountVars
        \/ /\ Fine /\ req[p].val # "" /\ SetConfigValue(K(p), req[p].val) /\ Wrote(p, {K(p)})
           /\ IF K(p)[1] = "friday" THEN Step(p, "sync") ELSE End(p, 200)
  \/ /\ Op(p) = "setcfg" /\ pc[p] = "sync"
     /\ \/ /\ Fine /\ SetConfigValue(Copy(K(p)[2]), req[p].val) /\ End(p, 200)
           /\ UNCHANGED <<cached, tables>> /\ bypassed' = bypassed \cup {Copy(K(p)[2])}
           /\ unsynced' = IF Together(p, {K(p), Copy(K(p)[2])}) THEN unsynced \cup {K(p)[2]} ELSE unsynced
        \/ Fail /\ Lost(p) /\ End(p, 500)

\* DeleteConfig: an error of the second deletion is not reported.
DeleteConfig(p) ==
  \/ /\ Enters(p, "delcfg")
     /\ \/ Fail /\ End(p, 500) /\ UNCHANGED accountVars
        \/ /\ Fine /\ DeleteConfigValue(K(p)) /\ Wrote(p, {K(p)})
           /\ IF K(p)[1] = "friday" THEN Step(p, "sync") ELSE End(p, 200)
  \/ /\ Op(p) = "delcfg" /\ pc[p] = "sync"
     /\ \/ /\ Fine /\ DeleteConfigValue(Copy(K(p)[2])) /\ End(p, 200)
           /\ UNCHANGED <<cached, tables>> /\ bypassed' = bypassed \cup {Copy(K(p)[2])}
           /\ unsynced' = IF Together(p, {K(p), Copy(K(p)[2])}) THEN unsynced \cup {K(p)[2]} ELSE unsynced
        \/ Fail /\ Lost(p) /\ End(p, 200)

\* Mutant: the cache keeps the value.
InvalidateNot(key) == UNCHANGED cached

Invalidate(key) == cached' = Drop(cached, {key})

\* SetNamespacedConfig: the cache forgets the setting, then the table is written.
SetNamespacedConfig(p) ==
  \/ /\ Op(p) = "cacheset" /\ pc[p] = "enter" /\ Fine
     /\ Invalidate(K(p)) /\ Step(p, "write")
     /\ bypassed' = IF Together(p, {K(p)}) THEN bypassed \cup {K(p)} ELSE bypassed
     /\ UNCHANGED <<cfg, unsynced, tables>>
  \/ /\ Op(p) = "cacheset" /\ pc[p] = "write"
     /\ bypassed' = IF Together(p, {K(p)}) THEN bypassed \cup {K(p)} ELSE bypassed
     /\ UNCHANGED <<cached, tables>>
     /\ \/ Fine /\ SetConfigValue(K(p), req[p].val) /\ End(p, 200)
           /\ unsynced' = unsynced \cup {K(p)[2]}
        \/ Fail /\ UNCHANGED <<cfg, unsynced>> /\ End(p, 500)

\* GetNamespacedConfig: the cache, else the table; a value that was found is cached.
GetNamespacedConfig(p) ==
  \/ /\ Op(p) = "cacheget" /\ pc[p] = "enter" /\ Fine /\ UNCHANGED accountVars
     /\ IF K(p) \in DOMAIN cached THEN End(p, 200) ELSE Step(p, "read")
  \/ /\ Op(p) = "cacheget" /\ pc[p] = "read" /\ UNCHANGED accountVars
     /\ \/ Fail /\ End(p, 500)
        \/ Fine /\ K(p) \notin DOMAIN cfg /\ End(p, 404)
        \/ /\ Fine /\ K(p) \in DOMAIN cfg /\ at' = [at EXCEPT ![p].val = cfg[K(p)]]
           /\ Goto(p, "cache") /\ UNCHANGED <<req, resp>>
  \/ /\ Op(p) = "cacheget" /\ pc[p] = "cache" /\ Fine
     /\ cached' = Put(cached, K(p), at[p].val) /\ End(p, 200)
     /\ bypassed' = IF Together(p, {K(p)}) THEN bypassed \cup {K(p)} ELSE bypassed
     /\ UNCHANGED <<cfg, unsynced, tables>>

\* A cached value is used for 15 minutes.
Expire ==
  /\ \E k \in DOMAIN cached : cached' = Drop(cached, {k})
  /\ UNCHANGED <<handlerVars, cfg, bypassed, unsynced, tables>>

----------------------------------------------------------------------------
(* Messages. *)

\* The messages a request names.
Asked(ids) == {ids[i] : i \in DOMAIN ids}

\* ListMessages: an error is answered with an empty list.
ListMessages(p) ==
  /\ Enters(p, "listmsgs") /\ UNCHANGED accountVars
  /\ UNCHANGED req /\ Reply(p, 200)
  /\ \/ Fine /\ at' = [at EXCEPT ![p].list = {i \in DOMAIN msg : req[p].all \/ msg[i] = "unread"}]
     \/ Fail /\ UNCHANGED at

\* UpdateNotificationStatus of one id: no row is no error.
MarkRead(i) == msg' = [j \in DOMAIN msg |-> IF j = i THEN "read" ELSE msg[j]]

\* ReadMessages marks one message after the other and goes on after an error.
ReadMessages(p) ==
  \/ /\ Enters(p, "readmsgs") /\ Fine /\ req[p].ids = <<>> /\ End(p, 400) /\ UNCHANGED accountVars
  \/ /\ Enters(p, "readmsgs") /\ Fine /\ req[p].ids # <<>> /\ UNCHANGED accountVars /\ UNCHANGED <<req, resp>>
     /\ Goto(p, "mark") /\ at' = [at EXCEPT ![p].ids = req[p].ids]
  \/ /\ Op(p) = "readmsgs" /\ pc[p] = "mark" /\ UNCHANGED <<user, owner, google, orphaned, settings, req>>
     /\ IF at[p].ids = <<>> THEN Fine /\ UNCHANGED <<msg, at>> /\ Reply(p, 200)
        ELSE /\ UNCHANGED <<pc, resp>>
             /\ \/ Fine /\ MarkRead(Head(at[p].ids)) /\ at' = [at EXCEPT ![p].ids = Tail(@)]
                \/ Fail /\ UNCHANGED msg /\ at' = [at EXCEPT ![p].ids = Tail(@)]

\* RecordInfo and RecordWarn: a new id.
RecordNotification ==
  /\ Len(msg) \in 1 .. 2
  /\ msg' = Append(msg, "unread")
  /\ UNCHANGED <<handlerVars, user, owner, google, orphaned, settings>>

----------------------------------------------------------------------------
(* Accounts. *)

KeepAccounts == UNCHANGED <<msg, google, settings>>
Sub(p) == req[p].sub
UserOf(s) == {u \in DOMAIN user : user[u].sub = s}
Token(u) == [ns |-> user[u].ns, uid |-> u]

\* What the handlers of the login do first: they need the service, the fields of the
\* request and the answer of Google.
Login(p, o, l) ==
  /\ Enters(p, o) /\ UNCHANGED accountVars
  /\ \/ Fine /\ ~google /\ End(p, 503)
     \/ Fine /\ google /\ Sub(p) = "" /\ End(p, 400)
     \/ Fail /\ google /\ Sub(p) # "" /\ End(p, 400)
     \/ Fine /\ google /\ Sub(p) # "" /\ Step(p, l)

GetGoogleAuthURL(p) ==
  Enters(p, "authurl") /\ Fine /\ End(p, IF google THEN 200 ELSE 503) /\ UNCHANGED accountVars

\* LoginOrRegister: any error of the first query counts as no user, and the user found
\* by the email then has another account, the same one included.
LoginOrRegister(p) ==
  /\ pc[p] = "login" /\ UNCHANGED accountVars /\ UNCHANGED req
  /\ LET mail == {u \in DOMAIN user : user[u].email = req[p].email}
     IN  \/ \E u \in UserOf(Sub(p)) : Fine /\ at' = [at EXCEPT ![p].tok = Token(u)] /\ Reply(p, 200)
         \/ Fine /\ UserOf(Sub(p)) = {} /\ UNCHANGED at /\ Reply(p, IF mail = {} THEN 400 ELSE 409)
         \/ Fail /\ UNCHANGED at /\ Reply(p, IF mail = {} \/ UserOf(Sub(p)) = {} THEN 400 ELSE 409)

GoogleLogin(p) == Login(p, "login", "login") \/ (Op(p) = "login" /\ LoginOrRegister(p))

\* The name of a namespace is unique.
CanCreate(ns) == ns \notin DOMAIN owner

\* CreateUser: google id and email are unique.
Taken(p) == \E u \in DOMAIN user : user[u].sub = Sub(p) \/ user[u].email = req[p].email

\* CreateUserWithNamespace: look for the name, insert the user, insert the namespace.
CreateUserWithNamespace(p) ==
  LET ns == req[p].ns
      u == at[p].uid
  IN  \/ /\ pc[p] = "exists" /\ UNCHANGED accountVars
         /\ \/ Fail /\ End(p, 500)
            \/ Fine /\ ns \in DOMAIN owner /\ End(p, 409)
            \/ Fine /\ ns \notin DOMAIN owner /\ Step(p, "user")
      \/ /\ pc[p] = "user" /\ KeepAccounts /\ UNCHANGED <<owner, orphaned, req>>
         /\ LET new == Len(user) + 1
            IN  \/ (Fail \/ (Fine /\ Taken(p))) /\ UNCHANGED <<user, at>> /\ Reply(p, 500)
                \/ /\ Fine /\ ~Taken(p) /\ user' = Append(user, [sub |-> Sub(p), email |-> req[p].email, ns |-> ns])
                   /\ at' = [at EXCEPT ![p].uid = new] /\ Goto(p, "ns") /\ UNCHANGED resp
      \/ /\ pc[p] = "ns" /\ KeepAccounts /\ UNCHANGED <<user, req>>
         /\ \/ /\ Fail \/ (Fine /\ ~CanCreate(ns))
               /\ orphaned' = orphaned \cup {u} /\ UNCHANGED <<owner, at>> /\ Reply(p, 500)
            \/ /\ Fine /\ CanCreate(ns) /\ owner' = Put(owner, ns, u)
               /\ at' = [at EXCEPT ![p].tok = Token(u)] /\ Reply(p, 200) /\ UNCHANGED orphaned

GoogleLoginWithNamespace(p) ==
  Login(p, "loginns", "exists") \/ (Op(p) = "loginns" /\ CreateUserWithNamespace(p))

\* A handler that uses the service without a look whether there is one: gin recovers.
Ask(p, ok) ==
  /\ UNCHANGED accountVars
  /\ \/ Fine /\ End(p, IF ~google THEN 500 ELSE IF ok THEN 200 ELSE 404)
     \/ Fail /\ google /\ End(p, 404)

ListMyNamespace(p) == Enters(p, "myns") /\ Ask(p, Caller(p).ns \in DOMAIN owner)
GetCurrentUser(p) == Enters(p, "me") /\ Ask(p, Caller(p).uid \in DOMAIN user)

Foreign(p) == req[p].ns # Caller(p).ns
GetNamespace(p) ==
  /\ Enters(p, "getns")
  /\ IF Foreign(p) THEN Fine /\ End(p, 403) /\ UNCHANGED accountVars
     ELSE Ask(p, Caller(p).ns \in DOMAIN owner)

\* CreateNamespace is for a caller without a namespace, and AuthMiddleware lets none in.
CreateNamespace(p) == Enters(p, "newns") /\ Fine /\ End(p, 403) /\ UNCHANGED accountVars

\* DeleteNamespace: the row goes, the user keeps the name.
DeleteNamespace(p) ==
  /\ Enters(p, "delns") /\ KeepAccounts /\ UNCHANGED user
  /\ \/ Fine /\ Foreign(p) /\ End(p, 403) /\ UNCHANGED <<owner, orphaned>>
     \/ Fine /\ ~Foreign(p) /\ ~google /\ End(p, 500) /\ UNCHANGED <<owner, orphaned>>
     \/ Fail /\ ~Foreign(p) /\ google /\ End(p, 500) /\ UNCHANGED <<owner, orphaned>>
     \/ /\ Fine /\ ~Foreign(p) /\ google /\ End(p, 200)
        /\ owner' = Drop(owner, {req[p].ns})
        /\ orphaned' = orphaned \cup {u \in DOMAIN user : user[u].ns = req[p].ns}

----------------------------------------------------------------------------
AccountStep(p) ==
  \/ Unauthorized(p)
  \/ GetConfig(p) \/ ListConfig(p) \/ SetConfig(p) \/ DeleteConfig(p)
  \/ SetNamespacedConfig(p) \/ GetNamespacedConfig(p)
  \/ ListMessages(p) \/ ReadMessages(p)
  \/ GetGoogleAuthURL(p) \/ GoogleLogin(p) \/ GoogleLoginWithNamespace(p)
  \/ ListMyNamespace(p) \/ GetCurrentUser(p) \/ GetNamespace(p) \/ CreateNamespace(p) \/ DeleteNamespace(p)

AccountEnv == Expire \/ RecordNotification

NoRows == [k \in {} |-> 0]
NoAccounts ==
  [cfg |-> NoRows, cached |-> NoRows, msg |-> <<>>, user |-> <<>>, owner |-> NoRows, google |-> FALSE]

AccountInit(rows) ==
  /\ cfg = rows.cfg /\ cached = rows.cached /\ msg = rows.msg
  /\ user = rows.user /\ owner = rows.owner /\ google = rows.google
  /\ bypassed = {} /\ unsynced = {} /\ orphaned = {}

\* The server on its own: rows are what there is, loads the requests that may come.
AccountNext == AccountEnv \/ \E p \in Procs : AccountStep(p)
AccountSpec(rows, loads) ==
  /\ InitHandlers(loads) /\ at = [p \in Procs |-> AccountLocal] /\ AccountInit(rows)
  /\ [][AccountNext]_<<handlerVars, accountVars>>

\* What the handlers find in a request that passed the binding of its fields, and no
\* request names a message that there will be later.
SettingOps == {"getcfg", "listcfg", "setcfg", "delcfg", "cacheset", "cacheget"}
Proper(r, ids) ==
  /\ r.op \in SettingOps => "key" \in DOMAIN r /\ r.key \in Text \X Text /\ r.val \in Text
  /\ r.op = "readmsgs" => r.ids \in Seq(Nat) /\ Asked(r.ids) \cap (1 .. 3) \subseteq ids
  /\ r.op \in {"login", "loginns"} => r.sub \in Text /\ r.email \in Text /\ r.ns \in Text
ProperLoads(rows, loads) == \A l \in loads : \A p \in Procs : Proper(l[p], DOMAIN rows.msg)

\* Tables that agree with each other, as those of a new namespace do.
ProperRows(rows) ==
  /\ DOMAIN rows.cfg \subseteq Text \X Text /\ \A k \in DOMAIN rows.cfg : rows.cfg[k] \in Text
  /\ \A n \in {k[2] : k \in DOMAIN rows.cfg} :
       (IF Friday(n) \in DOMAIN rows.cfg THEN rows.cfg[Friday(n)] ELSE None) =
       (IF Copy(n) \in DOMAIN rows.cfg THEN rows.cfg[Copy(n)] ELSE None)
  /\ \A k \in DOMAIN rows.cached : k \in DOMAIN rows.cfg /\ rows.cached[k] = rows.cfg[k]
  /\ rows.msg \in Seq({"unread", "read"}) /\ rows.user \in Seq([sub : Text, email : Text, ns : Text])
  /\ \A u \in DOMAIN rows.user :
       /\ rows.user[u].ns \in DOMAIN rows.owner /\ rows.owner[rows.user[u].ns] = u

----------------------------------------------------------------------------
(* Properties. *)

Done == \A p \in Procs : pc[p] = "done"

\* When no request is under way, the group workflow has the value of every setting of
\* friday, unless one of the two calls failed, two requests worked on the setting at
\* the same time, or the copy was set directly (SetConfig, DeleteConfig).
FridayIsSynced ==
  \A k \in DOMAIN cfg : (k[2] \notin unsynced /\ Done) => Value(Friday(k[2])) = Value(Copy(k[2]))

\* The cache has the value of the table when no request is under way, unless a handler
\* wrote to the table past the cache, or two calls worked on the setting at the same
\* time (SetNamespacedConfig, GetNamespacedConfig, SetConfig).
CacheIsFresh == \A k \in DOMAIN cached \ bypassed : Done => cached[k] = Value(k)

\* After an answer to ReadMessages the messages are read, unless a query failed, and
\* they stay so (ReadMessages, MarkRead, RecordNotification).
AnsweredIsRead ==
  \A p \in Procs : (Op(p) = "readmsgs" /\ pc[p] = "done" /\ faults = 0 /\ Authorized(p)) =>
    \A i \in Asked(req[p].ids) \cap DOMAIN msg : msg[i] = "read"

\* A user owns the namespace of the user's row, unless the namespace was deleted, or
\* could not be created after the user was: CreateUserWithNamespace does both without a
\* transaction, and the name may be taken in between.
UserOwnsNamespace ==
  \A u \in DOMAIN user :
    \/ user[u].ns \in DOMAIN owner /\ owner[user[u].ns] = u
    \/ u \in orphaned
    \/ \E p \in Procs : at[p].uid = u /\ pc[p] = "ns"

\* What two tables, or a table and a cache, say of the same thing agrees: settings and
\* their copies, users and their namespaces, messages and what was answered.
CopiesAgree == FridayIsSynced /\ CacheIsFresh /\ AnsweredIsRead /\ UserOwnsNamespace
=============================================================================
