----------------------------- MODULE FuseNodes -----------------------------
(***************************************************************************)
(* The FUSE mount (cmd/apps/fuse).  The kernel names an inode and a name   *)
(* in it; a node knows its entry by id, but hands FileSystem the path it   *)
(* had when the inode was made.  go-fuse keeps one node per inode number,  *)
(* the first one, and calls each operation in a goroutine of its own.      *)
(***************************************************************************)
EXTENDS FileSystem

VARIABLES
  node          \* inodes the kernel knows: id -> [path, name, kind, acc]

N(p) == req[p].node
Fuse(p) == req[p].via = "fuse"
Known(p) == Fuse(p) /\ N(p) \in DOMAIN node /\ (Op(p) \in {"rename", "link"} => req[p].to \in DOMAIN node)
Calls(p, ops, l) == Known(p) /\ Op(p) \in ops /\ pc[p] = l
NodePath(n, name) == node[n].path \o <<name>>
Uri(p) == NodePath(N(p), req[p].name)

Errnos == [ok |-> "ok", same |-> "ok", ErrNotFound |-> "ENOENT", ErrIsExist |-> "EEXIST",
           ErrNoGroup |-> "ENOTDIR", ErrNotEmpty |-> "ENOTEMPTY", ErrIsGroup |-> "EISDIR",
           ErrNoAccess |-> "EACCES", ErrNoPerm |-> "EPERM", ErrNameTooLong |-> "ENAMETOOLONG",
           ErrUnsupported |-> "EBADF"]

Error2FuseSysError(err) == IF err \in DOMAIN Errnos THEN Errnos[err] ELSE "EIO"
Ret(p, err) == Reply(p, Error2FuseSysError(err))

\* The row of an entry, or what the node remembers of it.
Row(n) == IF Linked(n) THEN entry[n] ELSE node[n]

-----------------------------------------------------------------------------
(* Inodes.                                                                 *)

newFsNode(path, n, e) == [path |-> path, name |-> n, kind |-> entry[e].kind, acc |-> entry[e].acc]

\* Lookup, and the four calls that create, look the name up first.
Lookup(p) ==
  LET err == LookUpEntry(N(p), req[p].name)
      e == Child(N(p), req[p].name)
  IN  /\ Calls(p, {"lookup"}, "enter")
      /\ Fine
      /\ IF err # "ok" THEN Ret(p, err) /\ UNCHANGED at
         ELSE /\ at' = [at EXCEPT ![p].id = e, ![p].row = newFsNode(Uri(p), req[p].name, e)]
              /\ Goto(p, "inode")
              /\ UNCHANGED resp
      /\ UNCHANGED <<node, treeVars, fsVars>>

Makes == {"create", "mkdir", "mknod", "symlink"}

LookupNew(p) ==
  LET err == LookUpEntry(N(p), req[p].name)
  IN  /\ Calls(p, Makes, "enter")
      /\ Fine
      /\ CASE err = "ok" -> Ret(p, "ErrIsExist")
           [] err = "ErrNotFound" -> Goto(p, "create") /\ UNCHANGED resp
           [] OTHER -> Ret(p, err)
      /\ UNCHANGED <<at, node, treeVars, fsVars>>

fileKindFromMode(mode) ==
  CASE mode = "S_IFDIR" -> "group" [] mode = "S_IFLNK" -> "symlink"
    [] mode = "S_IFIFO" -> "fifo"  [] OTHER -> "raw"

NewAttr(p) ==
  [kind |-> CASE Op(p) = "mkdir" -> "group" [] Op(p) = "symlink" -> "symlink"
              [] OTHER -> fileKindFromMode(req[p].mode),
   acc |-> [uid |-> Caller(p).uid, gid |-> Caller(p).gid, perm |-> All("r") \cup {<<"owner", "w">>}]]

\* The entry is created by the node's path, not in the entry that was searched.
CreateNode(p) ==
  LET err == CreateErr(node[N(p)].path, req[p].name)
  IN  /\ Calls(p, Makes, "create")
      /\ Fine
      /\ IF err # "ok" THEN Ret(p, err) /\ UNCHANGED <<at, rowVars, fileVars>>
         ELSE /\ CreateEntry(node[N(p)].path, req[p].name, NewAttr(p))
              /\ at' = [at EXCEPT ![p].id = NewId,
                          ![p].row = [path |-> Uri(p), name |-> req[p].name,
                                      kind |-> entry'[NewId].kind, acc |-> entry'[NewId].acc]]
              /\ Goto(p, IF Op(p) \in {"create", "symlink"} THEN "open" ELSE "inode")
              /\ UNCHANGED resp
      /\ UNCHANGED <<node, prop, tasks, kept, raced>>

OpenNew(p) ==
  LET err == OpenErr(at[p].id)
  IN  /\ Calls(p, {"create", "symlink"}, "open")
      /\ Fine
      /\ IF err # "ok" THEN Ret(p, err) /\ UNCHANGED <<at, raced, rowVars, fileVars>>
         ELSE /\ Open(p, at[p].id, Op(p) = "symlink")
              /\ Goto(p, IF Op(p) = "symlink" THEN "link" ELSE "inode")
              /\ UNCHANGED resp
      /\ UNCHANGED <<node, prop, tasks, kept>>

\* Symlink writes the target, which flushes it, and Close flushes it again.
WriteTarget(p) ==
  /\ Calls(p, {"symlink"}, "link")
  /\ at' = [at EXCEPT ![p].buf = req[p].target]
  /\ \/ Fine /\ FlushLink(p, at[p].id, req[p].target)
     \/ Fail /\ UNCHANGED <<prop, raced, rowVars, fileVars>>
  /\ Goto(p, "linked")
  /\ UNCHANGED <<resp, node, tasks, kept>>

CloseTarget(p) ==
  /\ Calls(p, {"symlink"}, "linked")
  /\ Fine
  /\ FlushLink(p, at[p].id, at[p].buf)
  /\ Goto(p, "inode")
  /\ UNCHANGED <<resp, at, node, tasks, kept>>

\* go-fuse: a node that is known is not replaced.  A child of a node whose
\* path is out of date inherits that.
NewInode(p) ==
  /\ Calls(p, Makes \cup {"lookup"}, "inode")
  /\ Fine
  /\ node' = IF at[p].id \in DOMAIN node THEN node ELSE Put(node, at[p].id, at[p].row)
  /\ moved' = IF Op(p) = "lookup" /\ N(p) \in moved THEN moved \cup {at[p].id} ELSE moved
  /\ Ret(p, "ok")
  /\ UNCHANGED <<at, treeVars, size, eventQ, tasks, overtaken, kept, content, raced>>

-----------------------------------------------------------------------------
(* Attributes.                                                             *)

\* Access and Getattr answer from the node's copy of a removed entry.
Access(p) ==
  /\ Calls(p, {"access", "getattr"}, "enter")
  /\ Fine
  /\ Ret(p, IF Op(p) = "access"
               /\ ~IsAccess(Row(N(p)).acc, Caller(p).uid, Caller(p).gid, {req[p].mask})
            THEN "ErrNoAccess" ELSE "ok")
  /\ UNCHANGED <<at, node, treeVars, fsVars>>

SetIds == {<<"setid", "u">>, <<"setid", "g">>}

\* What may be set: mode and owner by the owner, the group to one of the
\* caller's, the size by whoever may write.
SetattrErr(acc, c, what, val) ==
  LET own == c.uid \in {0, acc.uid}
  IN  IF what = "size" THEN IF IsAccess(acc, c.uid, c.gid, {"w"}) THEN "ok" ELSE "ErrNoAccess"
      ELSE IF ~own THEN "ErrNoPerm"
      ELSE IF what = "gid" /\ c.uid # 0 /\ val # c.gid /\ val \notin UserGroups[c.uid]
      THEN "ErrNoPerm" ELSE "ok"

\* A new owner or group clears setuid and setgid in the permissions read before.
updateNanaNodeWithAttr(acc, c, what, val) ==
  CASE what = "perm" -> [what |-> what, val |-> val,
                         perm |-> IF c.uid = 0 \/ c.gid = acc.gid THEN val
                                  ELSE val \ {<<"setid", "g">>}]
    [] what \in {"uid", "gid"} -> [what |-> what, val |-> val, perm |-> acc.perm \ SetIds]
    [] OTHER -> [what |-> what, val |-> val, perm |-> {}]

ReadAttr(p) ==
  LET row == Row(N(p))
      err == SetattrErr(row.acc, Caller(p), req[p].what, req[p].val)
  IN  /\ Calls(p, {"setattr"}, "enter")
      /\ Fine
      /\ IF err # "ok" THEN Ret(p, err) /\ UNCHANGED at
         ELSE /\ at' = [at EXCEPT ![p] = [@ EXCEPT !.id = N(p), !.on = <<N(p), "acc">>,
                          !.row = updateNanaNodeWithAttr(row.acc, Caller(p), req[p].what, req[p].val)]]
              /\ Goto(p, "setattr")
              /\ UNCHANGED resp
      /\ UNCHANGED <<node, treeVars, fsVars>>

\* core.UpdateEntry: no permissions at all means leave them as they are.
UpdatedAcc(acc, u) ==
  [uid  |-> IF u.what = "uid" THEN u.val ELSE acc.uid,
   gid  |-> IF u.what = "gid" THEN u.val ELSE acc.gid,
   perm |-> IF u.perm # {} THEN u.perm ELSE acc.perm]

\* Setattr changes the size of the row; the chunks of the file stay.
Setattr(p) ==
  LET e == N(p)
      u == at[p].row
      new == UpdatedAcc(entry[e].acc, u)
  IN  /\ Calls(p, {"setattr"}, "setattr")
      /\ Fine
      /\ entry' = [entry EXCEPT ![e].acc = new]
      /\ node' = [node EXCEPT ![e].acc = new]
      /\ size' = IF u.what = "size" THEN [size EXCEPT ![e] = u.val] ELSE size
      /\ content' = IF u.what = "size" THEN [content EXCEPT ![e] = Padded(@, u.val)] ELSE content
      /\ kept' = IF u.perm = {} THEN kept
                 ELSE LET perm == Put(kept, <<e, "perm">>,
                                      IF u.what = "perm" THEN u.perm ELSE entry[e].acc.perm \ SetIds)
                      IN  IF u.what = "perm" THEN perm ELSE Put(perm, <<e, u.what>>, u.val)
      /\ IF u.what = "size"
         THEN raced' = IF Exposed(e, u.val)
                          \/ \E q \in Procs \ {p} : pc[q] \notin {"enter", "done"} /\ at[q].on = Handle(e)
                       THEN raced \cup {Handle(e)} ELSE raced
         ELSE Touch(p, <<e, "acc">>)
      /\ Ret(p, "ok")
      /\ UNCHANGED <<at, prop, data, eventQ, tasks, moved, overtaken>>

Getxattr(p) ==
  /\ Calls(p, {"getxattr"}, "enter")
  /\ Fine
  /\ Reply(p, IF GetEntryProperties(N(p), "attr")[req[p].key] = "" THEN "ENOATTR" ELSE "ok")
  /\ UNCHANGED <<at, node, treeVars, fsVars>>

ReadXattrs(p) ==
  /\ Calls(p, {"setxattr", "removexattr"}, "enter")
  /\ Fine
  /\ ReadXAttr(p, N(p))
  /\ IF Op(p) = "removexattr" /\ GetEntryProperties(N(p), "attr")[req[p].key] = ""
     THEN Reply(p, "ENOATTR")
     ELSE Goto(p, "setxattr") /\ UNCHANGED resp
  /\ UNCHANGED <<node, treeVars, fsVars>>

Setxattr(p) ==
  /\ Calls(p, {"setxattr", "removexattr"}, "setxattr")
  /\ Fine
  /\ WriteXAttr(p, N(p), req[p].key, IF Op(p) = "setxattr" THEN req[p].val ELSE "")
  /\ Ret(p, "ok")
  /\ UNCHANGED <<at, node, entry, data, size, eventQ, tasks, moved, overtaken, content>>

-----------------------------------------------------------------------------
(* The tree.                                                               *)

\* The path of a node ends in its name already, so no entry is ever found.
Link(p) ==
  LET src == node[req[p].to].path \o <<node[req[p].to].name>>
      d == GetEntryByPath(node[N(p)].path)
  IN  /\ Calls(p, {"link"}, "enter")
      /\ Fine
      /\ Ret(p, IF req[p].name \in LongNames THEN "ErrNameTooLong"
                ELSE IF d = None THEN "ErrNotFound"
                ELSE IF Child(d, req[p].name) # None THEN "ErrIsExist"
                ELSE IF GetEntryByPath(src) = None THEN "ErrNotFound" ELSE "errors.New")
      /\ UNCHANGED <<at, node, treeVars, fsVars>>

Unlink_(p) ==
  LET err == IF Op(p) = "unlink" THEN UnlinkErr(Uri(p), Caller(p)) ELSE RmGroupErr(Uri(p), Caller(p))
  IN  /\ Calls(p, {"unlink", "rmdir"}, "enter")
      /\ Fine
      /\ IF err # "ok" THEN Ret(p, err) ELSE Goto(p, "remove") /\ UNCHANGED resp
      /\ UNCHANGED <<at, node, treeVars, fsVars>>

\* Unlink refreshes the copy of the directory's row.
RemoveNode(p) ==
  LET err == RemoveErr(Uri(p), FALSE)
  IN  /\ Calls(p, {"unlink", "rmdir"}, "remove")
      /\ Fine
      /\ IF err # "ok" THEN UNCHANGED <<node, rowVars>>
         ELSE /\ RemoveEntry(Uri(p))
              /\ node' = IF Op(p) = "unlink" THEN [node EXCEPT ![N(p)].acc = Row(N(p)).acc] ELSE node
      /\ Ret(p, err)
      /\ UNCHANGED <<at, prop, fileVars, tasks, kept, raced>>

Rename(p) ==
  LET err == RenameErr(Uri(p), node[req[p].to].path, req[p].newname, Caller(p))
  IN  /\ Calls(p, {"rename"}, "enter")
      /\ Fine
      /\ IF err # "ok" THEN Ret(p, err) ELSE Goto(p, "move") /\ UNCHANGED resp
      /\ UNCHANGED <<at, node, treeVars, fsVars>>

\* No node learns its new path.
MoveNode(p) ==
  LET dst == node[req[p].to].path
      err == ChangeErr(Uri(p), dst, req[p].newname, req[p].opt)
  IN  /\ Calls(p, {"rename"}, "move")
      /\ Fine
      /\ IF err = "ok" THEN ChangeEntryParent(Uri(p), dst, req[p].newname) ELSE UNCHANGED rowVars
      /\ Ret(p, err)
      /\ UNCHANGED <<at, node, prop, fileVars, tasks, kept, raced>>

-----------------------------------------------------------------------------
(* Files and directories.                                                  *)

\* Open for reading or writing, and for Readlink.
OpenNode(p) ==
  LET err == OpenErr(N(p))
  IN  /\ Calls(p, {"read", "write", "readlink"}, "enter")
      /\ Fine
      /\ IF err # "ok" THEN Ret(p, err) /\ UNCHANGED <<at, raced, rowVars, fileVars>>
         ELSE /\ Open(p, N(p), Op(p) = "write" /\ req[p].trunc)
              /\ Goto(p, Op(p))
              /\ UNCHANGED resp
      /\ UNCHANGED <<node, prop, tasks, kept>>

Read(p) ==
  /\ Calls(p, {"read", "readlink"}, Op(p))
  /\ Fine
  /\ Goto(p, "release")
  /\ UNCHANGED <<resp, at, node, treeVars, fsVars>>

\* The writer may append the segment before it is asked to.
Write(p) ==
  /\ Calls(p, {"write"}, "write")
  /\ Fine
  /\ \/ /\ AppendSegments(p, N(p), req[p].val)
        /\ UNCHANGED at
     \/ /\ at' = [at EXCEPT ![p].buf = req[p].val]
        /\ UNCHANGED <<treeVars, fsVars>>
  /\ Goto(p, "release")
  /\ UNCHANGED <<resp, node, tasks, kept>>

\* Close: a file appends what is buffered, a symlink writes its target back,
\* even when it was opened to be read.
Release(p) ==
  /\ Calls(p, {"read", "write", "readlink"}, "release")
  /\ Fine
  /\ CASE IsLink(N(p)) -> FlushLink(p, N(p), at[p].buf)
       [] ~IsLink(N(p)) /\ at[p].buf # <<>> -> AppendSegments(p, N(p), at[p].buf)
       [] OTHER -> UNCHANGED <<treeVars, fsVars>>
  /\ Ret(p, "ok")
  /\ UNCHANGED <<at, node, tasks, kept>>

\* Readdir: Opendir asks the node, OpenDir the entry, then every child is read.
Readdir(p) ==
  /\ Calls(p, {"readdir"}, "enter")
  /\ Fine
  /\ IF node[N(p)].kind \notin Groups THEN Reply(p, "EISDIR") /\ UNCHANGED at
     ELSE IF ~Linked(N(p)) \/ ~IsGroup(N(p)) THEN Ret(p, "ErrNoGroup") /\ UNCHANGED at
     ELSE /\ at' = [at EXCEPT ![p].todo = {c \in Live : entry[c].up = N(p)}]
          /\ Goto(p, "list")
          /\ UNCHANGED resp
  /\ UNCHANGED <<node, treeVars, fsVars>>

\* Mutant: the loop does not notice io.EOF.
ListChildForever(p) ==
  /\ Calls(p, {"readdir"}, "list")
  /\ Fine
  /\ IF at[p].todo = {} THEN Goto(p, "loop") /\ UNCHANGED <<at, resp>>
     ELSE /\ at' = [at EXCEPT ![p].todo = @ \ {CHOOSE x \in @ : TRUE}]
          /\ UNCHANGED <<pc, resp>>
  /\ UNCHANGED <<node, treeVars, fsVars>>

\* The loop of Readdir ends at io.EOF.  A child that is gone makes every turn
\* return the same error, and the loop does not end.
ListChild(p) ==
  /\ Calls(p, {"readdir"}, "list")
  /\ Fine
  /\ IF at[p].todo = {} THEN Ret(p, "ok") /\ UNCHANGED at
     ELSE LET c == CHOOSE x \in at[p].todo : \A y \in at[p].todo : x <= y
          IN  /\ at' = [at EXCEPT ![p].todo = @ \ {c}]
              /\ Goto(p, IF Linked(c) THEN "list" ELSE "loop")
              /\ UNCHANGED resp
  /\ UNCHANGED <<node, treeVars, fsVars>>

-----------------------------------------------------------------------------
\* A call to core, metastore or storage fails and changes nothing.  Access and
\* Getattr fall back to the node; the others answer with an error.
FailErrno(p) ==
  CASE Op(p) = "getattr" -> "ok"
    [] Op(p) = "access" -> IF IsAccess(node[N(p)].acc, Caller(p).uid, Caller(p).gid, {req[p].mask})
                           THEN "ok" ELSE "EACCES"
    [] Op(p) = "getxattr" -> "ENODATA"
    [] Op(p) = "removexattr" -> "ENOATTR"
    [] Op(p) = "readdir" -> "ENOTDIR"
    [] OTHER -> "EIO"

CallFails(p) ==
  /\ Known(p)
  /\ pc[p] \notin {"inode", "link", "done", "loop"}
  /\ Fail
  /\ IF pc[p] = "list" THEN Goto(p, "loop") /\ UNCHANGED resp ELSE Reply(p, FailErrno(p))
  /\ UNCHANGED <<at, node, treeVars, fsVars>>

FuseStep(p) ==
  /\ \/ Lookup(p) \/ LookupNew(p) \/ CreateNode(p) \/ OpenNew(p) \/ WriteTarget(p)
     \/ CloseTarget(p) \/ NewInode(p) \/ Access(p) \/ ReadAttr(p) \/ Setattr(p)
     \/ Getxattr(p) \/ ReadXattrs(p) \/ Setxattr(p) \/ Link(p) \/ Unlink_(p)
     \/ RemoveNode(p) \/ Rename(p) \/ MoveNode(p) \/ OpenNode(p) \/ Read(p)
     \/ Write(p) \/ Release(p) \/ Readdir(p) \/ ListChild(p) \/ CallFails(p)
  /\ UNCHANGED req

-----------------------------------------------------------------------------
(* Properties.                                                             *)

\* A node's path leads to the node's entry: that is why calls that are given an
\* inode may be carried out by path.  It fails once the entry, or a directory
\* above it, has been renamed or removed (NanaNode.Rename updates no node).
NodeIsFound ==
  \A e \in DOMAIN node \ moved : GetEntryByPath(node[e].path) = e

Value(e, f) ==
  CASE f \in Fields("attr") -> GetEntryProperties(e, "attr")[f]
    [] f \in Fields("group") -> GetEntryProperties(e, "group")[f]
    [] OTHER -> entry[e].acc[f]

Resource(f) ==
  CASE f \in Fields("attr") -> "attr" [] f \in Fields("group") -> "conf" [] OTHER -> "acc"

\* An attribute keeps the value that was acknowledged last, and a new owner has
\* cleared setuid and setgid (SetXAttr, RemoveXAttr, Setattr and the settings
\* of a group read a row, change a field and write the row back), unless two
\* such calls overlapped.
SetIsKept ==
  \A k \in DOMAIN kept : <<k[1], Resource(k[2])>> \in raced \/ Value(k[1], k[2]) = kept[k]

\* A symbolic link that was acknowledged has its target (Symlink creates, opens,
\* writes and closes it), unless another handle was open at the same time:
\* closing a symlink that was only read writes back what was read.
LinkHasTarget ==
  \A p \in Procs : Fuse(p) /\ Op(p) = "symlink" /\ resp[p] = <<"ok">>
    => Handle(at[p].id) \in raced \/ Target(at[p].id) = req[p].target

Busy(e) == \E p \in Procs : pc[p] \notin {"enter", "done"} /\ at[p].on = <<e, "bytes">>

\* A file nobody has open holds what was written to it (Open with truncation,
\* Write, Release, Setattr of the size), unless two writers overlapped, or
\* a file that was cut by Setattr grew again over the chunks that were kept.
StoredIsWritten ==
  \A e \in Live : entry[e].kind = "raw" /\ <<e, "bytes">> \notin raced /\ ~Busy(e)
    => ReadAt(e) = content[e]

\* Files and symbolic links hold what was written to them.
ContentIsKept == LinkHasTarget /\ StoredIsWritten
=============================================================================
