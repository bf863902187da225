--------------------------- MODULE MCMountServer ---------------------------
(* Up to three calls at the same time on the tree  /a (an RSS group) with the  *)
(* files /a/f (old) and /a/g (of this year), /b (group), /l (symbolic link).   *)
EXTENDS MountServer, TLC

MCPerm == ({"owner", "group"} \X {"r", "w"}) \cup {<<"others", "r">>}
MCAcc(u, perm) == [uid |-> u, gid |-> 10, perm |-> perm]
MCRow(k, u, n, a) == [kind |-> k, up |-> u, name |-> n, acc |-> a, alias |-> ""]

MCTree ==
  1 :> MCRow("group", 0, "/", MCAcc(1, All("w") \cup {<<"sticky", "t">>})) @@
  2 :> MCRow("group", 1, "a", MCAcc(1, MCPerm)) @@
  3 :> MCRow("raw", 2, "f", MCAcc(1, MCPerm \cup SetIds)) @@
  4 :> MCRow("symlink", 1, "l", MCAcc(1, MCPerm)) @@
  5 :> MCRow("group", 1, "b", MCAcc(2, All("w"))) @@
  6 :> MCRow("raw", 2, "g", MCAcc(1, MCPerm))

MCBytes == [e \in DOMAIN MCTree |-> IF e = 3 THEN <<1, 2, 3>> ELSE <<>>]
MCProps == <<2, "group">> :> [filter |-> "", rss |-> "feed"] @@ <<4, "symlink">> :> [target |-> <<7>>]
MCYear == [e \in Ids |-> IF e = 3 THEN 1 ELSE IF e = 4 THEN 0 ELSE 2]
MCYearName == <<"y1", "y2">>
MCUserGroups == 0 :> {} @@ 1 :> {11} @@ 2 :> {10}

U1 == [uid |-> 1, gid |-> 10]
U2 == [uid |-> 2, gid |-> 20]

MCIdle == [via |-> "none", op |-> "none"]
F(o, n) == [via |-> "fuse", op |-> o, node |-> n, caller |-> U1]
FN(o, n, m) == F(o, n) @@ [name |-> m]
FA(n, w, v) == F("setattr", n) @@ [what |-> w, val |-> v]
Mv(n, m, t, new, r, x) == FN("rename", n, m) @@ [to |-> t, newname |-> new, opt |-> [replace |-> r, exchange |-> x]]
D(o, u) == [via |-> "dav", op |-> o, uri |-> u, caller |-> U1]
By(r, c) == [r EXCEPT !.caller = c]

MCRequests ==
  << FN("lookup", 1, "a"), FN("lookup", 2, "f"), FN("lookup", 2, "long"),
     FN("create", 2, "x") @@ [mode |-> "S_IFREG"], FN("create", 2, "f") @@ [mode |-> "S_IFREG"],
     FN("mkdir", 1, "a"), FN("mkdir", 2, "long"), FN("mknod", 2, "x") @@ [mode |-> "S_IFIFO"],
     FN("symlink", 1, "x") @@ [target |-> <<8>>],
     F("access", 3) @@ [mask |-> "w"], By(F("access", 6) @@ [mask |-> "r"], U2), F("getattr", 3),
     FA(3, "perm", {<<"owner", "r">>}), FA(3, "uid", 2), FA(3, "gid", 11), FA(3, "size", 1), FA(3, "size", 3),
     FA(3, "gid", 12), By(FA(3, "perm", {<<"owner", "w">>}), U2), By(FA(5, "size", 0), U2),
     F("getxattr", 3) @@ [key |-> "k1"], F("setxattr", 3) @@ [key |-> "k1", val |-> "u"],
     F("setxattr", 3) @@ [key |-> "k2", val |-> "v"], F("removexattr", 3) @@ [key |-> "k1"],
     FN("link", 5, "x") @@ [to |-> 3], FN("link", 1, "a") @@ [to |-> 3],
     FN("unlink", 2, "f"), FN("unlink", 1, "a"), By(FN("unlink", 1, "l"), U2), FN("rmdir", 1, "b"), FN("rmdir", 1, "a"),
     FN("rmdir", 2, "f"), By(FN("unlink", 2, "g"), U2),
     Mv(2, "f", 5, "f", TRUE, FALSE), Mv(1, "a", 1, "c", TRUE, FALSE), Mv(1, "a", 5, "a", FALSE, FALSE),
     Mv(1, "b", 2, "b", TRUE, FALSE), Mv(2, "g", 2, "f", TRUE, FALSE), Mv(2, "g", 2, "f", TRUE, TRUE),
     By(Mv(1, "a", 5, "z", TRUE, FALSE), U2),
     F("read", 3), F("write", 3) @@ [trunc |-> FALSE, val |-> <<5>>], F("write", 3) @@ [trunc |-> TRUE, val |-> <<6, 6>>],
     F("readlink", 4), F("readdir", 2), F("readdir", 3),
     D("mkcol", <<"m", "n">>), D("get", <<"a", "f">>), D("get", <<"a">>), D("put", <<"a", "f">>) @@ [val |-> <<4, 4>>],
     D("put", <<"x">>) @@ [val |-> <<4>>], D("put", <<"z", "x">>) @@ [val |-> <<4>>], By(D("put", <<"a", "x">>) @@ [val |-> <<4>>], U2),
     By(D("get", <<"a">>), NoUser), D("delete", <<"a">>), D("delete", <<"a", "f">>), D("delete", <<>>),
     D("move", <<"a", "f">>) @@ [dst |-> <<"b", "f">>], D("move", <<"a">>) @@ [dst |-> <<"a", "x">>],
     D("move", <<>>) @@ [dst |-> <<"x">>], D("stat", <<"a", "f">>),
     [via |-> "archive", op |-> "archive"], [via |-> "config", op |-> "config", val |-> "cel"] >>

Three(a, b, c) == [p \in Procs |-> CASE p = 1 -> a [] p = 2 -> b [] p = 3 -> c]

MCTriples ==
  { <<Mv(1, "a", 1, "c", TRUE, FALSE), FN("mkdir", 1, "a"), D("move", <<"a">>) @@ [dst |-> <<"c", "a">>]>>,
    <<Mv(1, "a", 1, "c", TRUE, FALSE), FN("mkdir", 1, "a"), FN("create", 2, "x") @@ [mode |-> "S_IFREG"]>>,
    <<D("mkcol", <<"m">>), D("put", <<"m", "x">>) @@ [val |-> <<4>>], D("delete", <<"m">>)>>,
    <<FA(3, "size", 1), F("write", 3) @@ [trunc |-> FALSE, val |-> <<5, 5>>], F("read", 3)>>,
    <<FN("symlink", 1, "x") @@ [target |-> <<8>>], FN("lookup", 1, "x"), F("readlink", 7)>>,
    <<Mv(2, "f", 5, "f", TRUE, FALSE), Mv(1, "a", 1, "c", TRUE, FALSE), Mv(1, "b", 1, "d", TRUE, FALSE)>> }

MCPairs == {<<i, j>> \in (1 .. Len(MCRequests)) \X (0 .. Len(MCRequests)) : j <= i}

MCLoad ==
  {Three(MCRequests[ij[1]], IF ij[2] = 0 THEN MCIdle ELSE MCRequests[ij[2]], MCIdle) : ij \in MCPairs}
    \cup {Three(t[1], t[2], t[3]) : t \in MCTriples}

\* One call fails where one request runs alone; the process is restarted where
\* entries are moved twice, or once.
MCMaxFaults(r) == IF r[2] = MCIdle THEN 1 ELSE 0
MCMaxRestarts(r) == IF r[2] = MCIdle /\ r[1].op \in {"rename", "setxattr", "symlink", "archive"} THEN 1 ELSE 0
=============================================================================
