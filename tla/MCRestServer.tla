---------------------------- MODULE MCRestServer ----------------------------
(* Two requests on the tree  /g (group), /g/h (smart group), /g/f and /n       *)
(* (files), with one failing metastore call.                                   *)
EXTENDS RestServer, TLC

MCAccess(u, perms) == [uid |-> u, gid |-> 10, perm |-> perms]
MCAll == {"owner", "group", "others"} \X {"r", "w"}
MCUser == [uid |-> 1, gid |-> 1]
MCOther == [uid |-> 2, gid |-> 2]

MCRow(k, u, n, a) == [kind |-> k, up |-> u, name |-> n, acc |-> a, alias |-> ""]

MCTree ==
  1 :> MCRow("group", 0, "", MCAccess(1, MCAll)) @@
  2 :> MCRow("group", 1, "g", MCAccess(1, MCAll \ {<<"others", "w">>})) @@
  3 :> MCRow("smart", 2, "h", MCAccess(1, MCAll)) @@
  4 :> MCRow("raw", 2, "f", MCAccess(1, MCAll \ {<<"others", "r">>}))

MCUserGroups == 1 :> {1} @@ 2 :> {2}

URI(u) == [uri |-> u, id |-> 0]
ID(i) == [uri |-> NoURI, id |-> i]

G == <<"g">>
H == <<"g", "h">>
F == <<"g", "f">>
N == <<"n">>

On(o, s) == [op |-> o, sel |-> s, caller |-> MCUser]
Set(o, s, fs, v) == On(o, s) @@ [set |-> fs, val |-> v]
New(u, k, flt, feed, d) == On("create", URI(u)) @@ [kind |-> k, filter |-> flt, rss |-> feed, doc |-> d]
Move(u, b, n, how) == On("move", URI(u)) @@ [slash |-> b, new |-> n, replace |-> how]

MCEntryRequests ==
  << New(N, "raw", "", "", "t"), New(<<"g", "n">>, "group", "", "feed", ""),
    New(N, "other", "cel", "feed", ""), New(<<"g", "f", "n">>, "raw", "", "", ""),
    New(N, "smart", "", "", ""),
    On("update", URI(F)) @@ [val |-> "a"],
    On("delete", ID(4)), On("delete", ID(2)), [On("delete", URI(F)) EXCEPT !.caller = MCOther],
    On("deletes", URI(NoURI)) @@ [list |-> <<F, G>>],
    Move(F, FALSE, N, "no"), Move(F, FALSE, H, "yes"), Move(F, FALSE, <<"g", "">>, "no"), Move(G, TRUE, <<"g", "h", "x">>, "no"),
    Move(H, FALSE, <<"h">>, "exchange"), Move(G, FALSE, <<"g", "h", "x">>, "no"),
    Set("setdoc", ID(4), {"title"}, "a"), Set("setdoc", URI(F), {"unread"}, "b"),
    Set("setdoc", URI(G), {"title"}, "c"),
    Set("setprop", URI(F), {"tags"}, "a"), Set("setgroup", ID(3), {"filter", "rss"}, "b"),
    Set("setgroup", URI(F), {"rss"}, "c"),
    On("details", ID(4)), On("property", URI(H)), [On("friday", URI(F)) EXCEPT !.caller = MCOther],
    On("getgroup", URI(H)), On("list", URI(G)), On("list", ID(4)), On("tree", URI(NoURI)),
    On("filter", URI(NoURI)) @@ [kind |-> "raw"], On("markdown", ID(4)),
    On("write", URI(F)) @@ [data |-> <<"a", "a", "a">>], On("write", ID(4)) @@ [data |-> <<"b">>],
    On("read", URI(F)), On("read", ID(3)) >>

MCNewSid == CHOOSE f \in [Procs -> {"s3", "s4"}] : \A p, q \in Procs : p # q => f[p] # f[q]

MCSessionRequests ==
  LET r(o, s) == [op |-> o, sid |-> s]
  IN  <<r("newsession", "") @@ [name |-> "name"], 
       r("listsessions", ""), r("getsession", "s1"), r("rmsession", "s1"),
       r("rename", "s1") @@ [name |-> "other"], r("chat", "s1"), r("chat", "s2")>>

\* Any two requests of a list for the two processes, in either order.
Loads(reqs) ==
  LET p == CHOOSE x \in Procs : TRUE
  IN  UNION {{[q \in Procs |-> IF q = p THEN reqs[i] ELSE reqs[j]] : j \in i .. Len(reqs)} : i \in DOMAIN reqs}

MCEntryLoads == Loads(MCEntryRequests)
MCSessionLoads ==
  {l \in Loads(MCSessionRequests) : \E p \in Procs : l[p].sid # "s2"} \cup
  Loads(<<[op |-> "rename", sid |-> "s1", name |-> ""], [op |-> "chat", sid |-> ""]>>)

\* One call fails, except when two chats run at the same time.
MCMaxFaults(r) == IF \A p \in Procs : r[p].op = "chat" THEN 0 ELSE 1
=============================================================================
