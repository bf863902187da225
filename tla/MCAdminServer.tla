---------------------------- MODULE MCAdminServer ----------------------------
(* Two requests on the workflows w1 (a feed with interval) and w2 (watches     *)
(* files), next to timers, a created entry, running jobs or the routine task;  *)
(* or two requests on settings, messages or accounts of a namespace.           *)
EXTENDS AdminServer, Integers, TLC

\* Any two requests of a list for the two processes, in either order.
Loads(reqs) ==
  LET p == CHOOSE x \in Procs : TRUE
  IN  UNION {{[q \in Procs |-> IF q = p THEN reqs[i] ELSE reqs[j]] : j \in i .. Len(reqs)} : i \in DOMAIN reqs}

MCNewWf == CHOOSE f \in [Procs -> {"n1", "n2"}] : \A p, q \in Procs : p # q => f[p] # f[q]

Trigger(w, r, i) == [watch |-> w, rss |-> r, interval |-> i]
Row(t) == [name |-> "name", enable |-> TRUE, trig |-> t]
MCRows == "w1" :> Row(Trigger("", TRUE, 1)) @@ "w2" :> Row(Trigger("match", FALSE, Nil))
          
MCJob(w, s, a) == [wf |-> w, status |-> s, by |-> "user", age |-> a]

Set(w, n, t, on) == [op |-> "wfupdate", wf |-> w, name |-> n, trig |-> t, enable |-> on]
New(n, t, on) == [op |-> "wfcreate", name |-> n, trig |-> t, enable |-> on]
Wf(o, w) == [op |-> o, wf |-> w]
Job(o, j) == [op |-> o, job |-> j]
Run(w, c) == [op |-> "wftrigger", wf |-> w, complete |-> c]

Writes ==
  <<Set("w1", "", NoTrigger, "off"), Set("w1", "", Trigger("", TRUE, 2), "on"),
    Set("w1", "", Trigger("match", FALSE, 0), ""), Set("w2", "", Trigger("other", TRUE, 2), ""),
    New("", NoTrigger, "on"), New("new", Trigger("match", TRUE, 1), "on"), New("new", NoTrigger, "on"),
    Wf("wfdelete", "w1"), Wf("wfdelete", "w9")>>

Reads ==
  <<[op |-> "wflist", page |-> 0], [op |-> "wflist", page |-> -1],
    [op |-> "wfjobs", page |-> 0, statuses |-> {"succeed"}], [op |-> "wfjobs", page |-> 0, statuses |-> {"done"}],
    Wf("wfget", "w1"), Wf("wfget", "w9"), Job("jobget", 1)>>

Controls ==
  <<Wf("wfdelete", "w1"), Set("w1", "", Trigger("", TRUE, 2), "on"), Run("w1", TRUE), Run("w1", FALSE),
    Job("jobpause", 1), Job("jobresume", 1), Job("jobcancel", 1)>>

Env(e, t, r, c, s, js) == [wf |-> MCRows, job |-> js, entry |-> e, timer |-> t, runs |-> r, cleans |-> c, serial |-> s]

Changes ==
  <<Set("w1", "", Trigger("match", FALSE, 0), ""), Set("w2", "", NoTrigger, "off"), New("new", Trigger("match", TRUE, 1), "on"),
    Wf("wfdelete", "w1")>>

Few == {l \in Loads(<<Wf("wfget", "w9"), Wf("wfdelete", "w1")>>) : \E p, q \in Procs : l[p] # l[q]}

MCWorkflowCases ==
  {[env |-> Env("none", TRUE, FALSE, FALSE, TRUE, <<>>), loads |-> Loads(Writes)],
   [env |-> Env("none", FALSE, FALSE, FALSE, TRUE, <<>>), loads |-> Loads(Reads)]} \cup
  {[env |-> Env(e, FALSE, FALSE, FALSE, TRUE, <<>>), loads |-> Loads(Changes)] : e \in {"file", "rss"}} \cup
  {[env |-> Env(e, FALSE, FALSE, FALSE, TRUE, <<>>), loads |-> Few] : e \in {"group", "hidden"}} \cup
  {[env |-> Env("none", FALSE, TRUE, FALSE, s, <<MCJob("w1", st, 0)>>), loads |-> Loads(Controls)] :
     s \in BOOLEAN, st \in {"initializing", "running", "paused"}} \cup
  {[env |-> Env("none", FALSE, FALSE, TRUE, TRUE,
               <<MCJob("w1", s1, 7), MCJob("w1", s2, 1), MCJob("w1", s3, 0)>>), loads |-> Few] :
     s1, s2, s3 \in {"succeed", "failed", "error"}}

MCNoWorkflows == Env("none", FALSE, FALSE, FALSE, TRUE, <<>>)

MCText ==
  {"", "none", "friday", "workflow", "model", "absent", "home", "new", "v1", "v2", "v3", "v4",
   "s1", "s2", "s3", "s4", "m1", "m3", "m4"}
Me == [ns |-> "home", uid |-> 1]
Setting(o, k, v) == [op |-> o, caller |-> Me, key |-> k, val |-> v]
K1 == <<"friday", "model">>
K2 == <<"workflow", "model">>
K3 == <<"friday", "absent">>

SettingRequests ==
  <<Setting("setcfg", K1, "v2"), Setting("setcfg", K2, "v3"), Setting("setcfg", K1, ""),
    Setting("delcfg", K1, ""), Setting("delcfg", K2, ""), Setting("getcfg", K1, ""), Setting("getcfg", K3, ""),
    Setting("listcfg", K1, ""), Setting("cacheset", K1, "v4"), Setting("cacheget", K1, ""), Setting("cacheget", K3, "")>>

Messages(o, all, ids) == [op |-> o, caller |-> Me, all |-> all, ids |-> ids]
MessageRequests ==
  <<Messages("listmsgs", TRUE, <<>>), Messages("listmsgs", FALSE, <<>>), Messages("readmsgs", FALSE, <<1, 2>>),
    Messages("readmsgs", FALSE, <<9, 1>>), Messages("readmsgs", FALSE, <<>>)>>

Account(o, c, s, m, n) == [op |-> o, caller |-> c, sub |-> s, email |-> m, ns |-> n]
AccountRequests ==
  <<Account("authurl", Me, "", "", ""), Account("authurl", [ns |-> "", uid |-> 0], "", "", ""),
    Account("login", Me, "s1", "m1", ""), Account("login", Me, "s2", "m1", ""), Account("login", Me, "s3", "m3", ""),
    Account("login", Me, "", "", ""), Account("loginns", Me, "s2", "m1", "new"), Account("loginns", Me, "s3", "m3", "new"), Account("loginns", Me, "s4", "m4", "new"),
    Account("loginns", Me, "s3", "m4", "home"), Account("myns", Me, "", "", ""), Account("me", Me, "", "", ""),
    Account("newns", Me, "", "", "new"), Account("getns", Me, "", "", "home"), Account("getns", Me, "", "", "new"),
    Account("delns", Me, "", "", "home"), Account("delns", Me, "", "", "new")>>

Tables(g, m) ==
  [cfg |-> K1 :> "v1" @@ K2 :> "v1", cached |-> NoRows, msg |-> m,
   user |-> <<[sub |-> "s1", email |-> "m1", ns |-> "home"]>>, owner |-> [home |-> 1], google |-> g]

MCAccountCases ==
  {[env |-> Tables(FALSE, <<>>), loads |-> Loads(SettingRequests)],
   [env |-> Tables(FALSE, <<"unread", "unread">>), loads |-> Loads(MessageRequests)]} \cup
  {[env |-> Tables(g, <<>>), loads |-> Loads(AccountRequests)] : g \in BOOLEAN}

\* A server, and another one or a command, on an empty metastore.
Serve(a) == [serve |-> TRUE, auto |-> a, ns |-> "default"]
Namespace(n) == [serve |-> FALSE, auto |-> FALSE, ns |-> n]
MCBootCases ==
  {[c \in Cmds |-> IF c = "c1" THEN Serve(a) ELSE d] :
     a \in BOOLEAN, d \in {Serve(TRUE), Namespace("default"), Namespace("personal")}}

\* One call fails when the two requests are of the same kind, or not for workflows.
MCMaxFaults(r) ==
  IF \A p, q \in Procs : r[p].op = r[q].op \/ "caller" \in DOMAIN r[p] THEN 1 ELSE 0
=============================================================================
