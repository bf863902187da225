---------------------------- MODULE RssArchive ----------------------------
(***************************************************************************)
(* Filing the entries of an RSS group by year (archiveRSSGroupEntries of   *)
(* workflow/trigger.go), a goroutine started with each sync of the feed.   *)
(* It works by path on a list made at the start, and ends by writing back  *)
(* the settings of the group it was given.                                 *)
(***************************************************************************)
EXTENDS FileSystem

CONSTANTS
  Feed,         \* the RSS group
  Year,         \* extractPublishYear: id -> year, 0 for unknown
  ThisYear,     \* current year
  YearName      \* year -> name of its directory

Archive(p, l) == req[p].via = "archive" /\ pc[p] = l
FeedURI == ProbableEntryPath(Feed)

\* Children of the group that are neither groups nor of this year, by path.
IsOld(c, row) == row.up = Feed /\ row.kind \notin Groups /\ Year[c] \notin {0, ThisYear}

\* at[p].row: the settings and the path the goroutine was given; at[p].todo:
\* <<year, path>> still to be moved.
ListOld(p) ==
  /\ Archive(p, "enter")
  /\ at' = [at EXCEPT ![p] = [@ EXCEPT !.id = Feed, !.on = <<Feed, "conf">>,
                !.row = [conf |-> GetEntryProperties(Feed, "group"), uri |-> FeedURI],
                !.todo = {<<Year[c], entry[c].name>> : c \in {c \in Live : IsOld(c, entry[c])}}]]
  /\ IF GetEntryProperties(Feed, "group").rss = "archived" \/ Empty(Feed)
     THEN Fine /\ Reply(p, "skip")
     ELSE \/ Fine /\ Goto(p, "year") /\ UNCHANGED resp
          \/ Fail /\ Reply(p, "error")
  /\ UNCHANGED <<treeVars, fsVars>>

YearDir(p, y) == at[p].row.uri \o <<YearName[y]>>

\* ensureYearDir looks at the parent of the year's entry, which is the group:
\* a file of that name passes for the directory.  todo of one year at a time;
\* at[p].buf is the year whose directory is there.
EnsureYearDir(p) ==
  /\ Archive(p, "year")
  /\ \E y \in {t[1] : t \in at[p].todo} :
    LET rest == {t \in at[p].todo : t[1] # y}
        err == CreateErr(at[p].row.uri, YearName[y])
    IN  /\ \/ /\ GetEntryByPath(YearDir(p, y)) # None
              /\ Fine
              /\ at' = [at EXCEPT ![p].buf = <<y>>]
              /\ Goto(p, "file")
              /\ UNCHANGED <<entry, data, size, content>>
           \/ /\ GetEntryByPath(YearDir(p, y)) = None
              /\ err = "ok"
              /\ Fine
              /\ CreateEntry(at[p].row.uri, YearName[y],
                             [kind |-> "group", acc |-> entry[GetEntryByPath(at[p].row.uri)].acc])
              /\ at' = [at EXCEPT ![p].buf = <<y>>]
              /\ Goto(p, "file")
           \/ /\ IF GetEntryByPath(YearDir(p, y)) = None /\ err # "ok" THEN Fine ELSE Fail
              /\ at' = [at EXCEPT ![p].todo = rest]
              /\ UNCHANGED <<entry, data, size, content, pc>>
        /\ UNCHANGED <<resp, prop, eventQ, tasks, moved, overtaken, kept, raced>>

\* One entry is moved by its path; what cannot be moved is left.
FileEntry(p) ==
  LET y == at[p].buf[1]
  IN  /\ Archive(p, "file")
      /\ \/ /\ \A t \in at[p].todo : t[1] # y
            /\ Fine
            /\ Goto(p, "year")
            /\ UNCHANGED <<at, rowVars>>
         \/ \E t \in {x \in at[p].todo : x[1] = y} :
              LET src == at[p].row.uri \o <<t[2]>>
                  err == ChangeErr(src, YearDir(p, y), t[2], [replace |-> FALSE, exchange |-> FALSE])
              IN  /\ at' = [at EXCEPT ![p].todo = @ \ {t}]
                  /\ \/ /\ Fine
                        /\ IF err = "ok" THEN ChangeEntryParent(src, YearDir(p, y), t[2]) ELSE UNCHANGED rowVars
                     \/ Fail /\ UNCHANGED rowVars
                  /\ UNCHANGED pc
      /\ UNCHANGED <<resp, prop, fileVars, tasks, kept, raced>>

\* The settings as they were at the start, with the time of this run.
SaveArchivedAt(p) ==
  /\ Archive(p, "year")
  /\ at[p].todo = {}
  /\ \/ /\ Fine
        /\ UpdateEntryProperties(Feed, "group", [at[p].row.conf EXCEPT !.rss = "archived"])
        /\ Touch(p, <<Feed, "conf">>)
        /\ Reply(p, "ok")
     \/ Fail /\ Reply(p, "error") /\ UNCHANGED <<prop, raced>>
  /\ UNCHANGED <<at, entry, data, size, eventQ, tasks, moved, overtaken, kept, content>>

\* The settings of the group are saved by someone else, from the row read before.
SetGroupConfig(p) ==
  /\ req[p].via = "config"
  /\ Fine
  /\ \/ /\ pc[p] = "enter"
        /\ at' = [at EXCEPT ![p] = [@ EXCEPT !.on = <<Feed, "conf">>, !.row = GetEntryProperties(Feed, "group")]]
        /\ Goto(p, "save")
        /\ UNCHANGED <<resp, prop, kept, raced>>
     \/ /\ pc[p] = "save"
        /\ UpdateEntryProperties(Feed, "group", [at[p].row EXCEPT !.filter = req[p].val])
        /\ kept' = Put(kept, <<Feed, "filter">>, req[p].val)
        /\ Touch(p, <<Feed, "conf">>)
        /\ Reply(p, "ok")
        /\ UNCHANGED at
  /\ UNCHANGED <<entry, data, size, eventQ, tasks, moved, overtaken, content>>

ArchiveStep(p) ==
  /\ ListOld(p) \/ EnsureYearDir(p) \/ FileEntry(p) \/ SaveArchivedAt(p) \/ SetGroupConfig(p)
  /\ UNCHANGED req

-----------------------------------------------------------------------------
(* Property.                                                               *)

\* Where only archive runs and changes of the settings are at work, a finished
\* run has moved every old entry of the feed into the directory of its year
\* and left everything else where it was (archiveRSSGroupEntries).  Two runs
\* may overlap: the feed is synced again while the last run is still busy.
OldIsFiled ==
  /\ \A p \in Procs : req[p].via \in {"archive", "config", "none"} /\ pc[p] \in {"enter", "done"}
  /\ \E p \in Procs : req[p].via = "archive" /\ resp[p] = <<"ok">>
  /\ faults = 0
  => \A e \in DOMAIN Tree :
       IF IsOld(e, Tree[e])
       THEN /\ entry[e].up = Child(Feed, YearName[Year[e]])
            /\ IsGroup(entry[e].up)
       ELSE entry[e] = Tree[e]
=============================================================================
