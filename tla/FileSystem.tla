----------------------------- MODULE FileSystem -----------------------------
(***************************************************************************)
(* The file system of one namespace as its mounts use it (pkg/core/fs.go,  *)
(* pkg/core/rawfile.go).  Calls that only resolve, check and then call     *)
(* core take two steps: what was checked may have changed when core        *)
(* resolves the path again.  Errors keep the names of pkg/types/errors.go. *)
(***************************************************************************)
EXTENDS EntryTree, Integers

CONSTANTS
  LongNames     \* names beyond fileNameMaxLength

VARIABLES
  size,         \* entry rows: id -> size
  eventQ,       \* change_parent events on their way: [id, uri, seen]
  tasks,        \* task.index.update_uri rows: sequence of [id, uri, status]
  moved,        \* ghost: entries whose path changed, or that were removed
  overtaken,    \* ghost: entries moved again before the index knew of the first move
  kept,         \* ghost: <<id, field>> -> value last acknowledged
  content,      \* ghost: id -> bytes a file has by what was acknowledged
  raced         \* ghost: <<id, what>> written while another call worked on it

fsVars == <<size, eventQ, tasks, moved, overtaken, kept, content, raced>>
rowVars == <<entry, size, eventQ, moved, overtaken>>
fileVars == <<data, content>>

Nothing == <<None, "">>
Local == [id |-> None, on |-> Nothing, buf |-> <<>>, row |-> <<>>, todo |-> {}]

Under(e) == {c \in Live : e \in Above(c)}
IsGroup(e) == entry[e].kind \in Groups
Empty(e) == \A c \in Live : entry[c].up # e

\* Another call is under way on what this one writes.
Touch(p, k) ==
  raced' = IF \E q \in Procs \ {p} : pc[q] \notin {"enter", "done"} /\ at[q].on = k
           THEN raced \cup {k} ELSE raced

-----------------------------------------------------------------------------
(* Entries by id, name and path.                                           *)

LookUpEntry(e, n) ==
  IF n \in LongNames THEN "ErrNameTooLong"
  ELSE IF Child(e, n) = None THEN "ErrNotFound" ELSE "ok"

NewId == CHOOSE i \in Ids \ Live : \A j \in Ids \ Live : i <= j

CreateErr(uri, n) ==
  IF n \in LongNames THEN "ErrNameTooLong"
  ELSE IF GetEntryByPath(uri) = None THEN "ErrNotFound"
  ELSE IF Child(GetEntryByPath(uri), n) # None THEN "ErrIsExist" ELSE "ok"

\* Mutant: the entry is linked into the root.
CreateEntryInRoot(uri, n, attr) ==
  /\ entry' = Put(entry, NewId, [kind |-> attr.kind, up |-> Root, name |-> n, alias |-> "",
                                 acc |-> IF attr.kind = "symlink"
                                         THEN entry[GetEntryByPath(uri)].acc ELSE attr.acc])
  /\ size' = Put(size, NewId, 0)
  /\ data' = Put(data, NewId, <<>>)
  /\ content' = Put(content, NewId, <<>>)
  /\ UNCHANGED <<eventQ, moved, overtaken>>

\* The parent need not be a group.  Without Access in attr the parent's is taken.
CreateEntry(uri, n, attr) ==
  LET up == GetEntryByPath(uri)
  IN  /\ entry' = Put(entry, NewId, [kind |-> attr.kind, up |-> up, name |-> n, alias |-> "",
                                     acc |-> IF attr.kind = "symlink" THEN entry[up].acc
                                             ELSE attr.acc])
      /\ size' = Put(size, NewId, 0)
      /\ data' = Put(data, NewId, <<>>)
      /\ content' = Put(content, NewId, <<>>)
      /\ UNCHANGED <<eventQ, moved, overtaken>>

Sticky(uid, own, dir) ==
  /\ uid \notin {0, entry[own].acc.uid, entry[dir].acc.uid}
  /\ <<"sticky", "t">> \in entry[dir].acc.perm

Parent(uri) == GetEntryByPath(Front(uri))
Writable(e, c) == IsAccess(entry[e].acc, c.uid, c.gid, {"w"})

UnlinkErr(uri, c) ==
  LET e == GetEntryByPath(uri)
  IN  IF e = None THEN "ErrNotFound"
      ELSE IF ~Writable(Parent(uri), c) THEN "ErrNoAccess"
      ELSE IF IsGroup(e) THEN "ErrIsGroup"
      ELSE IF Sticky(c.uid, e, Parent(uri)) THEN "ErrNoAccess" ELSE "ok"

RmGroupErr(uri, c) ==
  LET e == GetEntryByPath(uri)
  IN  IF e = None THEN "ErrNotFound"
      ELSE IF ~Writable(Parent(uri), c) \/ Sticky(c.uid, e, Parent(uri)) THEN "ErrNoAccess"
      ELSE IF ~IsGroup(e) THEN "ErrNoGroup" ELSE "ok"

RemoveErr(uri, all) ==
  LET e == GetEntryByPath(uri)
  IN  IF e = None THEN "ErrNotFound"
      ELSE IF IsGroup(e) /\ ~Empty(e) /\ ~all THEN "ErrNotEmpty" ELSE "ok"

\* Mutant: what is below a group stays linked.
RemoveEntryFlat(uri) ==
  LET e == GetEntryByPath(uri)
  IN  /\ entry' = Unlink({e})
      /\ moved' = moved \cup {e} \cup Under(e)
      /\ UNCHANGED <<size, eventQ, overtaken>>

RemoveEntry(uri) ==
  LET e == GetEntryByPath(uri)
      gone == {e} \cup Below(e)
  IN  /\ entry' = Unlink(gone)
      /\ moved' = moved \cup gone \cup Under(e)
      /\ UNCHANGED <<size, eventQ, overtaken>>

RenameErr(src, dst, n, c) ==
  LET e == GetEntryByPath(src)
      d == GetEntryByPath(dst)
  IN  IF n \in LongNames THEN "ErrNameTooLong"
      ELSE IF e = None THEN "ErrNotFound"
      ELSE IF ~Writable(Parent(src), c) THEN "ErrNoAccess"
      ELSE IF d = None THEN "ErrNotFound"
      ELSE IF ~Writable(d, c) THEN "ErrNoAccess"
      ELSE IF Sticky(c.uid, e, Parent(src)) THEN "ErrNoPerm"
      ELSE IF Child(d, n) # None /\ Sticky(c.uid, Child(d, n), d) THEN "ErrNoPerm" ELSE "ok"

\* The new parent is not a descendant of the target: its path does not start
\* with that of the target and a "/".
Descends(dst, src) == IsStrictPrefix(src, dst)

ChangeErr(src, dst, n, opt) ==
  LET e == GetEntryByPath(src)
      d == GetEntryByPath(dst)
  IN  IF src = dst \o <<n>> THEN "same"
      ELSE IF e = None \/ d = None THEN "ErrNotFound"
      ELSE IF IsGroup(e) /\ Descends(dst, src) THEN "errors.New"
      ELSE LET over == Child(d, n)
           IN  IF over = None THEN "ok"
               ELSE IF (IsGroup(over) /\ ~Empty(over)) \/ ~opt.replace THEN "ErrIsExist"
               ELSE IF opt.exchange THEN "ErrUnsupported" ELSE "ok"

Pending(e) ==
  \/ \E i \in DOMAIN eventQ : eventQ[i].id = e
  \/ \E i \in DOMAIN tasks : tasks[i].id = e /\ tasks[i].status \in {"wait", "executing"}

\* An entry already there under the new name is removed first.
ChangeEntryParent(src, dst, n) ==
  LET e == GetEntryByPath(src)
      d == GetEntryByPath(dst)
      over == {Child(d, n)} \ {None}
      all == {e} \cup Under(e)
  IN  /\ entry' = [Unlink(over) EXCEPT ![e].up = d, ![e].name = n]
      /\ eventQ' = Append(eventQ, [id |-> e, uri |-> dst \o <<n>>, seen |-> FALSE])
      /\ moved' = moved \cup all \cup over \cup UNION {Under(o) : o \in over}
      /\ overtaken' = IF \E x \in all \cup Above(e) : Pending(x) THEN overtaken \cup all
                      ELSE overtaken
      /\ UNCHANGED size

-----------------------------------------------------------------------------
(* Open files.                                                             *)

OpenErr(e) ==
  IF ~Linked(e) THEN "ErrNotFound" ELSE IF IsGroup(e) THEN "ErrIsGroup" ELSE "ok"

Target(e) == IF <<e, "symlink">> \in DOMAIN prop THEN prop[<<e, "symlink">>].target ELSE <<>>
IsLink(e) == entry[e].kind = "symlink"
Handle(e) == <<e, IF IsLink(e) THEN "link" ELSE "bytes">>

\* A symlink is opened with its whole target.
Open(p, e, trunc) ==
  /\ size' = IF trunc THEN [size EXCEPT ![e] = 0] ELSE size
  /\ data' = IF trunc THEN [data EXCEPT ![e] = <<>>] ELSE data
  /\ content' = IF trunc /\ ~IsLink(e) THEN [content EXCEPT ![e] = <<>>] ELSE content
  /\ at' = [at EXCEPT ![p] = [@ EXCEPT !.id = e, !.on = Handle(e),
                                       !.buf = IF IsLink(e) THEN Target(e) ELSE <<>>]]
  /\ IF trunc THEN Touch(p, Handle(e)) ELSE UNCHANGED raced
  /\ UNCHANGED <<entry, eventQ, moved, overtaken>>

Padded(s, n) == [i \in 1 .. n |-> IF i <= Len(s) THEN s[i] ELSE 0]
Overlaid(s, w) == [i \in 1 .. IF Len(s) > Len(w) THEN Len(s) ELSE Len(w) |->
                     IF i <= Len(w) THEN w[i] ELSE s[i]]

\* A file ends where its row says, whatever its chunks hold.
ReadAt(e) == IF IsLink(e) THEN Target(e) ELSE Padded(data[e], size[e])

\* The pages of a file are appended as segments, which only ever enlarge it.
\* What lies in the chunks beyond the size of a row comes back with the bytes
\* that make the file longer again.
Exposed(e, n) == n > size[e] /\ Len(data[e]) > size[e]

\* Mutant: the row keeps its size.
AppendSegmentsInside(p, e, w) ==
  /\ data' = [data EXCEPT ![e] = Overlaid(@, w)]
  /\ content' = [content EXCEPT ![e] = Overlaid(@, w)]
  /\ UNCHANGED <<entry, prop, size, eventQ, moved, overtaken, raced>>

AppendSegments(p, e, w) ==
  /\ data' = [data EXCEPT ![e] = Overlaid(@, w)]
  /\ size' = [size EXCEPT ![e] = IF Len(w) > @ THEN Len(w) ELSE @]
  /\ content' = [content EXCEPT ![e] = Overlaid(@, w)]
  /\ raced' = IF Exposed(e, Len(w))
                 \/ \E q \in Procs \ {p} : pc[q] \notin {"enter", "done"} /\ at[q].on = Handle(e)
              THEN raced \cup {Handle(e)} ELSE raced
  /\ UNCHANGED <<entry, prop, eventQ, moved, overtaken>>

\* symlink.Flush: the size of the row, then the whole target as this handle has it.
FlushLink(p, e, w) ==
  /\ UpdateEntryProperties(e, "symlink", [target |-> w])
  /\ size' = [size EXCEPT ![e] = Len(w)]
  /\ Touch(p, Handle(e))
  /\ UNCHANGED <<entry, fileVars, eventQ, moved, overtaken>>

-----------------------------------------------------------------------------
(* Extended attributes: read the row, change it, write it back.            *)

ReadXAttr(p, e) ==
  at' = [at EXCEPT ![p] = [@ EXCEPT !.id = e, !.on = <<e, "attr">>,
                                    !.row = GetEntryProperties(e, "attr")]]

\* Mutant: the row holds only the attribute that is set.
XAttrRowOnly(row, key, val) == [k \in DOMAIN row |-> IF k = key THEN val ELSE ""]

XAttrRow(row, key, val) == [row EXCEPT ![key] = val]

WriteXAttr(p, e, key, val) ==
  /\ UpdateEntryProperties(e, "attr", XAttrRow(at[p].row, key, val))
  /\ kept' = Put(kept, <<e, key>>, val)
  /\ Touch(p, <<e, "attr">>)

-----------------------------------------------------------------------------
(* Property.                                                               *)

\* No group comes to lie below itself: "Cycle detection: ensure new parent is
\* not a descendant of target" (core.ChangeEntryParent).  The new parent may
\* be the target.
NotBelowItself == \A e \in Live : e \notin Above(e)
=============================================================================
