----------------------------- MODULE EntryTree -----------------------------
(***************************************************************************)
(* The entries of a namespace as core and metastore offer them to the      *)
(* front ends: one call is one step, and Core checks what happens inside.  *)
(* A path is the sequence of its names, <<>> is "/".  Entries have one     *)
(* parent here.                                                            *)
(***************************************************************************)
EXTENDS Handlers, FiniteSets, SequencesExt

CONSTANTS
  Ids,          \* entry ids
  Root,         \* id of the namespace root
  Tree,         \* rows of the entry table at the start
  UserGroups    \* uid -> group ids of that user in the server's user database

VARIABLES
  entry,        \* entry table with its link: id -> [kind, up, name, acc, alias]
  prop,         \* property rows: <<id, type>> -> [field -> value]
  data          \* file contents: id -> sequence of bytes

treeVars == <<entry, prop, data>>

None == 0
Groups == {"group", "smart"}
Live == DOMAIN entry

Linked(e) == e \in Live /\ (e = Root \/ entry[e].up # None)

Child(e, n) ==
  LET cs == {c \in Live \ {Root} : entry[c].up = e /\ entry[c].name = n}
  IN  IF cs = {} THEN None ELSE CHOOSE c \in cs : TRUE

GetEntryByPath(uri) ==
  LET named(n) == [d \in Ids \cup {None} |-> IF d = None THEN None ELSE Child(d, n)]
      e[i \in 0 .. Len(uri)] == IF i = 0 THEN Root ELSE named(uri[i])[e[i-1]]
  IN  e[Len(uri)]

\* The chain of names above an entry.  It ends early at an entry without
\* parent, and then the URI is that of whatever else is at this path.
ProbableEntryPath(e) ==
  LET path[s \in [id : Ids \cup {None}, n : 0 .. Cardinality(Ids)]] ==
        IF s.id \in {Root, None} \/ s.id \notin Live \/ s.n = 0 \/ entry[s.id].up = None THEN <<>>
        ELSE Append(path[[id |-> entry[s.id].up, n |-> s.n - 1]], entry[s.id].name)
  IN  path[[id |-> e, n |-> Cardinality(Ids)]]

\* Permissions are pairs of a class and a right.  Only the rights of the class
\* "others" survive "mask & 7"; they are then looked up in the caller's class.
IsAccess(acc, uid, gid, mask) ==
  \/ uid = 0
  \/ LET class == CASE uid = acc.uid -> "owner"
                    [] uid # acc.uid /\ (gid = acc.gid \/ acc.gid \in UserGroups[uid]) -> "group"
                    [] OTHER -> "others"
     IN  \A r \in mask : <<class, r>> \in acc.perm

HasAllPermissions(acc, uid, gid, perms) ==
  IsAccess(acc, uid, gid, {p[2] : p \in {q \in perms : q[1] = "others"}})

All(r) == {"owner", "group", "others"} \X {r}

\* GetEntryProperties: no row, no fields.
Fields(t) == CASE t = "doc" -> {"title", "unread"}
               [] t = "prop" -> {"tags", "index"}
               [] t = "group" -> {"filter", "rss"}
               [] t = "friday" -> {"summary"}
               [] t = "attr" -> {"k1", "k2"}

GetEntryProperties(e, t) ==
  IF <<e, t>> \in DOMAIN prop THEN prop[<<e, t>>] ELSE [f \in Fields(t) |-> ""]

UpdateEntryProperties(e, t, rec) == prop' = Put(prop, <<e, t>>, rec)

\* The k-th entry above c, None when there are not so many.
Up(c, k) ==
  LET parent == [d \in Ids \cup {None} |-> IF d \in Live THEN entry[d].up ELSE None]
      up[i \in 0 .. k] == IF i = 0 THEN c ELSE parent[up[i-1]]
  IN  up[k]

Above(c) == {Up(c, k) : k \in 1 .. Cardinality(Ids)} \cap Live

\* What the recursion of RemoveEntry reaches: it only looks into groups.
Below(e) ==
  {c \in Live : \E k \in 1 .. Cardinality(Ids) :
     /\ Up(c, k) = e
     /\ \A i \in 1 .. k : Up(c, i) \in Live /\ entry[Up(c, i)].kind \in Groups}

Unlink(es) == [e \in Live |-> IF e \in es THEN [entry[e] EXCEPT !.up = None] ELSE entry[e]]
=============================================================================
