---------------------------- MODULE AdminProofs ----------------------------
(***************************************************************************)
(* Proofs about parts of the REST server that share nothing but a process: *)
(* its start, and the services for settings, messages and accounts.        *)
(*                                                                         *)
(* Start: for any number of commands on one metastore, each of which may   *)
(* be stopped and started again anywhere, what was reported as ready is    *)
(* complete.  Commands find what others have made and go on from there, so *)
(* each place a command has come to stands for rows that somebody has made *)
(* (PlaceInv) and that nobody takes away (Grows); groups are the exception *)
(* as only the one that made the root entry makes them (RootInv).          *)
(*                                                                         *)
(* Services: for any number of requests, what two tables, or a table and   *)
(* the cache, say of the same thing agrees, up to the exceptions the       *)
(* ghosts record.  A handler works in steps between which others run, so   *)
(* the invariants say what each request has still to do at the place it    *)
(* has come to: the copy of a setting (SettingInv), the write after the    *)
(* cache was cleared, the messages still to be marked (MessageInv), the    *)
(* namespace of a user who was just created (UserInv).                     *)
(***************************************************************************)
EXTENDS Bootstrap, Accounts, TLAPS

----------------------------------------------------------------------------
(* Start. *)

Groups == {".inbox", ".friday"}
Defaults == {"rss", "docloader"}

\* What a command is after, and where it can be.
Goal == {"none", "namespace", "check", "create", "fs"}
BootPc == {"idle", "root", "mkroot", "find", "nsroot", "group", "workflow", "serving", "exit"}
StageRec == [goal : Goal, pc : BootPc, i : {1, 2}]

\* What the variables of the start hold.
BootTyped ==
  /\ does \in [Cmds -> [serve : BOOLEAN, auto : BOOLEAN, ns : Namespaces]]
  /\ step \in [Cmds -> StageRec]
  /\ nsRoot \subseteq Namespaces
  /\ groups \in [Namespaces -> SUBSET Groups]
  /\ default \in [Namespaces -> [Defaults -> {"none", "default", "changed"}]]

\* A namespace has both workflows.
HasDefaults(n) == \A w \in Defaults : default[n][w] # "none"

\* What goes with the place a command has come to.
GoalInv(c) ==
  /\ step[c].pc # "idle" => (step[c].goal = "namespace" <=> ~does[c].serve) /\ step[c].goal # "none"
  /\ step[c].pc \in {"nsroot", "group", "workflow"} => step[c].goal # "check"
  /\ step[c].pc = "workflow" => step[c].goal # "fs"
  /\ step[c].pc = "exit" => step[c].goal = "namespace"
  /\ step[c].pc = "serving" => step[c].goal = "fs"

\* What a command has left behind on its way: the root entry of its namespace, then the
\* first group, the first workflow, and all of them at the end.
PlaceInv(c) ==
  /\ step[c].pc \in {"group", "workflow", "exit", "serving"} => Target(c) \in nsRoot
  /\ step[c].pc = "group" /\ step[c].i = 2 => ".inbox" \in groups[Target(c)]
  /\ step[c].pc = "workflow" /\ step[c].i = 2 => default[Target(c)]["rss"] # "none"
  /\ step[c].pc = "exit" => HasDefaults(Target(c))
  /\ step[c].pc # "idle" /\ does[c].serve /\ does[c].auto /\ step[c].goal = "fs" =>
       "personal" \in nsRoot \/ HasDefaults("default")

\* Somebody is at the groups of a namespace.
Grouping(n) == \E d \in Cmds : step[d].pc = "group" /\ Target(d) = n

\* A namespace with a root entry has its groups, or somebody makes them, or somebody
\* stopped on the way; and there are none without a root entry.
RootInv ==
  /\ \A n \in nsRoot : groups[n] = Groups \/ n \in half \/ Grouping(n)
  /\ \A n \in Namespaces : groups[n] # {} => n \in nsRoot

\* The inductive invariant of the start.
BootInv == BootTyped /\ (\A c \in Cmds : GoalInv(c) /\ PlaceInv(c)) /\ RootInv

\* Rows are only added.
Grows ==
  /\ does' = does /\ nsRoot \subseteq nsRoot' /\ half \subseteq half'
  /\ \A n \in Namespaces : groups[n] \subseteq groups'[n]
  /\ \A n \in Namespaces, w \in Defaults : default[n][w] # "none" => default'[n][w] # "none"

\* Target is a namespace.
LEMMA TargetTyped ==
    ASSUME BootTyped, NEW c \in Cmds
    PROVE  Target(c) \in Namespaces
  BY Zenon DEF BootTyped, Target, Namespaces

\* A command that makes no step keeps what it knows, as rows are only added.
LEMMA RestKeeps ==
    ASSUME BootTyped, Grows, NEW c \in Cmds, GoalInv(c), PlaceInv(c), step'[c] = step[c]
    PROVE  GoalInv(c)' /\ PlaceInv(c)' /\ Target(c)' = Target(c)
  <1>1. Target(c)' = Target(c)
    BY Zenon DEF Grows, Target
  <1>2. Target(c) \in Namespaces /\ "default" \in Namespaces /\ "rss" \in Defaults
    BY TargetTyped, Zenon DEF Namespaces, Defaults
  <1>3. \A n \in Namespaces : HasDefaults(n) => HasDefaults(n)'
    BY Zenon DEF Grows, HasDefaults
  <1> QED
    BY <1>1, <1>2, <1>3, Zenon DEF Grows, GoalInv, PlaceInv

\* A step of one command: what is to be shown of it.
LEMMA CommandMoves ==
    ASSUME BootInv, NEW c \in Cmds, NEW s \in StageRec, ToStep(c, s), Grows, BootTyped',
           GoalInv(c)', PlaceInv(c)',
           \A n \in nsRoot' : groups'[n] = Groups \/ n \in half' \/ n \in nsRoot \/ Grouping(n)',
           \A n \in Namespaces : groups'[n] # {} => n \in nsRoot',
           step[c].pc = "group" =>
             \/ groups'[Target(c)] = Groups \/ Target(c) \in half'
             \/ s.pc = "group" /\ Target(c)' = Target(c)
    PROVE  BootInv'
  <1>1. step' = [step EXCEPT ![c] = s] /\ step \in [Cmds -> StageRec] /\ step'[c] = s
    BY Zenon DEF BootInv, BootTyped, ToStep
  <1>2. \A d \in Cmds : d # c => step'[d] = step[d]
    BY <1>1, Zenon
  <1>3. \A d \in Cmds : d # c => GoalInv(d)' /\ PlaceInv(d)' /\ Target(d)' = Target(d)
    BY <1>2, RestKeeps, Zenon DEF BootInv
  <1>4. ASSUME NEW n \in nsRoot'
        PROVE  groups'[n] = Groups \/ n \in half' \/ Grouping(n)'
    <2>1. CASE n \in nsRoot
      <3>1. n \in Namespaces /\ groups'[n] \subseteq Groups
        BY Zenon DEF BootTyped
      <3>2. groups[n] = Groups => groups'[n] = Groups
        BY <3>1, Zenon DEF Grows
      <3>3. n \in half => n \in half'
        BY Zenon DEF Grows
      <3>4. ASSUME NEW d \in Cmds, step[d].pc = "group", Target(d) = n
            PROVE  groups'[n] = Groups \/ n \in half' \/ Grouping(n)'
        <4>1. CASE d = c
          BY <3>4, <4>1, <1>1, Zenon DEF Grouping
        <4>2. CASE d # c
          BY <3>4, <4>2, <1>2, <1>3, Zenon DEF Grouping
        <4> QED
          BY <4>1, <4>2, Zenon
      <3> QED
        BY <2>1, <3>2, <3>3, <3>4, Zenon DEF BootInv, RootInv, Grouping
    <2> QED
      BY <2>1, Zenon
  <1> QED
    BY <1>3, <1>4, Zenon DEF BootInv, RootInv

\* A stage is a record.
LEMMA StageTyped ==
    ASSUME NEW g \in Goal, NEW l \in BootPc, NEW n \in {1, 2}
    PROVE  Stage(g, l, n) \in StageRec /\ Stage(g, l, n).goal = g /\ Stage(g, l, n).pc = l /\ Stage(g, l, n).i = n
  BY Zenon DEF Stage, StageRec

\* The loops have two passes.
LEMMA Passes ==
    ASSUME NEW c \in Cmds
    PROVE  /\ LastPass(c, BuildInGroups) <=> step[c].i = 2
           /\ LastPass(c, DefaultWorkflows) <=> step[c].i = 2
  BY Zenon DEF LastPass, BuildInGroups, DefaultWorkflows

\* A step that leaves the rows alone and goes to a place where nothing is needed yet.
LEMMA StageMoves ==
    ASSUME BootInv, NEW c \in Cmds, NEW s \in StageRec, ToStep(c, s),
           UNCHANGED <<does, nsRoot, groups, default, half>>,
           s.pc \in {"root", "mkroot", "find", "nsroot", "idle"},
           s.pc # "idle" => (s.goal = "namespace" <=> ~does[c].serve) /\ s.goal # "none",
           s.pc = "nsroot" => s.goal # "check",
           s.pc # "idle" /\ does[c].serve /\ does[c].auto /\ s.goal = "fs" =>
             "personal" \in nsRoot \/ HasDefaults("default"),
           step[c].pc # "group"
    PROVE  BootInv'
  <1>1. step \in [Cmds -> StageRec] /\ step' \in [Cmds -> StageRec] /\ step'[c] = s
    BY Zenon DEF BootInv, BootTyped, ToStep
  <1>2. Grows /\ BootTyped'
    BY <1>1, Zenon DEF BootInv, BootTyped, Grows
  <1>3. GoalInv(c)' /\ PlaceInv(c)'
    BY <1>1, Zenon DEF GoalInv, PlaceInv, HasDefaults
  <1>4. \A n \in Namespaces : groups'[n] # {} => n \in nsRoot'
    BY Zenon DEF BootInv, RootInv
  <1> QED
    BY <1>2, <1>3, <1>4, CommandMoves, Zenon

\* A command starts.
LEMMA BeginsInv ==
    ASSUME BootInv, NEW c \in Cmds, Begins(c)
    PROVE  BootInv'
  <1>1. FirstStep(c) \in StageRec /\ FirstStep(c).pc = "root" /\ FirstStep(c).goal # "none"
    BY StageTyped DEF FirstStep, Goal, BootPc
  <1>2. FirstStep(c).goal = "namespace" <=> ~does[c].serve
    BY StageTyped DEF FirstStep, Goal, BootPc
  <1>3. does[c].serve /\ does[c].auto => FirstStep(c).goal # "fs"
    BY StageTyped DEF FirstStep, Goal, BootPc
  <1>4. ToStep(c, FirstStep(c)) /\ UNCHANGED <<does, nsRoot, groups, default, half>> /\ step[c].pc = "idle"
    BY Zenon DEF Begins, In
  <1> QED
    BY <1>1, <1>2, <1>3, <1>4, StageMoves, Zenon

\* A command ends, killed or after an error.
LEMMA QuitInv ==
    ASSUME BootInv, NEW c \in Cmds, Quit(c)
    PROVE  BootInv'
  <1> DEFINE s == Stage("none", "idle", 1)
  <1>1. s \in StageRec /\ s.pc = "idle"
    BY StageTyped DEF Goal, BootPc
  <1>2. ToStep(c, s) /\ UNCHANGED <<does, nsRoot, groups, default>> /\ half' = HalfWay(c)
    BY Zenon DEF Quit
  <1> HIDE DEF s
  <1>3. half \subseteq half' /\ (step[c].pc = "group" => Target(c) \in half')
    BY <1>2, Zenon DEF HalfWay, In
  <1>4. step \in [Cmds -> StageRec] /\ step' \in [Cmds -> StageRec] /\ step'[c] = s
    BY <1>1, <1>2, Zenon DEF BootInv, BootTyped, ToStep
  <1>5. Grows /\ BootTyped'
    BY <1>2, <1>3, <1>4, Zenon DEF BootInv, BootTyped, Grows
  <1>6. GoalInv(c)' /\ PlaceInv(c)'
    BY <1>1, <1>4, Zenon DEF GoalInv, PlaceInv
  <1>7. \A n \in Namespaces : groups'[n] # {} => n \in nsRoot'
    BY <1>2, Zenon DEF BootInv, RootInv
  <1> QED
    BY <1>1, <1>2, <1>3, <1>5, <1>6, <1>7, CommandMoves, Zenon

\* FSRoot and NamespaceRoot failed.
LEMMA RootFailsInv ==
    ASSUME BootInv, NEW c \in Cmds, RootFails(c), step[c].pc \in {"root", "mkroot", "find"}
    PROVE  BootInv'
  <1>1. CASE step[c].goal = "check"
    BY <1>1, QuitInv, Zenon DEF RootFails
  <1>2. CASE step[c].goal # "check"
    <2> DEFINE s == Stage(step[c].goal, "nsroot", 1)
    <2>1. step[c].goal \in Goal
      BY Zenon DEF BootInv, BootTyped, StageRec
    <2>2. s \in StageRec /\ s.pc = "nsroot" /\ s.goal = step[c].goal
      BY <2>1, StageTyped DEF BootPc
    <2>3. ToStep(c, s) /\ UNCHANGED <<does, nsRoot, groups, default, half>>
      BY <1>2, Zenon DEF RootFails, ToPc, KeepRows
    <2> HIDE DEF s
    <2> QED
      BY <1>2, <2>2, <2>3, StageMoves, Zenon DEF BootInv, GoalInv, PlaceInv
  <1> QED
    BY <1>1, <1>2, Zenon

\* FSRoot.
LEMMA FSRootInv ==
    ASSUME BootInv, NEW c \in Cmds, FSRoot(c)
    PROVE  BootInv'
  <1>1. step[c].pc \in {"root", "mkroot"}
    BY Zenon DEF FSRoot, In
  <1>2. CASE RootFails(c)
    BY <1>1, <1>2, RootFailsInv, Zenon
  <1>3. ASSUME NEW l \in {"find", "mkroot"}, ToPc(c, l), UNCHANGED <<does, nsRoot, groups, default, half>>
        PROVE  BootInv'
    <2> DEFINE s == Stage(step[c].goal, l, 1)
    <2>1. step[c].goal \in Goal
      BY Zenon DEF BootInv, BootTyped, StageRec
    <2>2. s \in StageRec /\ s.pc = l /\ s.goal = step[c].goal
      BY <2>1, StageTyped DEF BootPc
    <2>3. ToStep(c, s)
      BY <1>3, Zenon DEF ToPc
    <2> HIDE DEF s
    <2> QED
      BY <1>1, <1>3, <2>2, <2>3, StageMoves, Zenon DEF BootInv, GoalInv, PlaceInv
  <1> QED
    BY <1>2, <1>3, Zenon DEF FSRoot, KeepRows

\* NamespaceRoot: whoever finds the root entry of a namespace goes on.
LEMMA NamespaceRootInv ==
    ASSUME BootInv, NEW c \in Cmds, NamespaceRoot(c)
    PROVE  BootInv'
  <1>1. step[c].pc = "find" /\ step[c].goal \in Goal
    BY Zenon DEF NamespaceRoot, In, BootInv, BootTyped, StageRec
  <1>2. CASE RootFails(c)
    BY <1>1, <1>2, RootFailsInv, Zenon
  <1>3. CASE /\ UNCHANGED <<does, nsRoot, groups, default, half>>
             /\ ToStep(c, IF Target(c) \in nsRoot THEN Found(c) ELSE NotFound(c))
    <2>1. CASE Target(c) \notin nsRoot
      <3>1. NotFound(c) \in StageRec /\ NotFound(c).pc \in {"root", "nsroot"}
        BY <1>1, StageTyped DEF NotFound, Goal, BootPc
      <3>2. /\ NotFound(c).goal = IF step[c].goal = "check" THEN "create" ELSE step[c].goal
            /\ NotFound(c).pc = "nsroot" => step[c].goal # "check"
        BY <1>1, StageTyped DEF NotFound, Goal, BootPc
      <3> QED
        BY <1>1, <1>3, <2>1, <3>1, <3>2, StageMoves, Zenon DEF BootInv, GoalInv, PlaceInv
    <2>2. CASE Target(c) \in nsRoot /\ step[c].goal = "check"
      <3>1. Found(c) \in StageRec /\ Found(c).pc = "root" /\ Found(c).goal = "fs"
        BY <2>2, StageTyped DEF Found, Goal, BootPc
      <3>2. Target(c) = "personal"
        BY <2>2, Zenon DEF Target
      <3> QED
        BY <1>1, <1>3, <2>2, <3>1, <3>2, StageMoves, Zenon DEF BootInv, GoalInv, PlaceInv
    <2>3. CASE Target(c) \in nsRoot /\ step[c].goal # "check"
      <3> DEFINE s == Created(c)
      <3>1. /\ s \in StageRec /\ s.goal = step[c].goal /\ s.i = 1
            /\ s.pc = IF step[c].goal = "fs" THEN "serving" ELSE "workflow"
        BY <1>1, StageTyped DEF Created, Goal, BootPc
      <3>2. ToStep(c, s)
        BY <1>3, <2>3, Zenon DEF Found
      <3> HIDE DEF s
      <3>3. step \in [Cmds -> StageRec] /\ step' \in [Cmds -> StageRec] /\ step'[c] = s
        BY <3>1, <3>2, Zenon DEF BootInv, BootTyped, ToStep
      <3>4. Grows /\ BootTyped'
        BY <1>3, <3>3, Zenon DEF BootInv, BootTyped, Grows
      <3>5. Target(c)' = Target(c)
        BY <1>3, <3>1, <3>3, Zenon DEF Target
      <3>6. GoalInv(c)' /\ PlaceInv(c)'
        BY <1>1, <1>3, <2>3, <3>1, <3>3, <3>5 DEF BootInv, GoalInv, PlaceInv, HasDefaults
      <3>7. \A n \in Namespaces : groups'[n] # {} => n \in nsRoot'
        BY <1>3, Zenon DEF BootInv, RootInv
      <3> QED
        BY <1>1, <1>3, <3>1, <3>2, <3>4, <3>6, <3>7, CommandMoves, Zenon
    <2> QED
      BY <2>1, <2>2, <2>3, Zenon
  <1> QED
    BY <1>2, <1>3, Zenon DEF NamespaceRoot, KeepRows

\* The root entry of a namespace: whoever makes it goes on with the groups.
LEMMA CreateNamespaceRootInv ==
    ASSUME BootInv, NEW c \in Cmds, CreateNamespaceRoot(c)
    PROVE  BootInv'
  <1>1. CASE Quit(c)
    BY <1>1, QuitInv, Zenon
  <1>2. CASE /\ step[c].pc = "nsroot" /\ nsRoot' = nsRoot \cup {Target(c)} /\ ToPc(c, "group")
             /\ UNCHANGED <<does, groups, default, half>>
    <2> DEFINE s == Stage(step[c].goal, "group", 1)
    <2>1. step[c].goal \in Goal
      BY Zenon DEF BootInv, BootTyped, StageRec
    <2>2. s \in StageRec /\ s.goal = step[c].goal /\ s.i = 1 /\ s.pc = "group"
      BY <2>1, StageTyped DEF BootPc
    <2>3. ToStep(c, s)
      BY <1>2, Zenon DEF ToPc
    <2> HIDE DEF s
    <2>4. step \in [Cmds -> StageRec] /\ step' \in [Cmds -> StageRec] /\ step'[c] = s
      BY <2>2, <2>3, Zenon DEF BootInv, BootTyped, ToStep
    <2>5. Target(c)' = Target(c) /\ Target(c) \in Namespaces
      BY <1>2, <2>2, <2>4, TargetTyped, Zenon DEF Target, BootInv
    <2>6. Grows /\ BootTyped'
      BY <1>2, <2>4, <2>5, Zenon DEF BootInv, BootTyped, Grows
    <2>7. GoalInv(c)' /\ PlaceInv(c)'
      BY <1>2, <2>2, <2>4, <2>5 DEF BootInv, GoalInv, PlaceInv, HasDefaults
    <2>8. \A n \in Namespaces : groups'[n] # {} => n \in nsRoot'
      BY <1>2, Zenon DEF BootInv, RootInv
    <2>9. PICK t \in Namespaces : t = Target(c)
      BY <2>5, Zenon
    <2>10. \A n \in nsRoot' : n \in nsRoot \/ Grouping(n)'
      <3>1. Grouping(t)'
        BY <2>2, <2>4, <2>5, <2>9, Zenon DEF Grouping
      <3> QED
        BY <1>2, <2>9, <3>1, Zenon
    <2> QED
      BY <1>2, <2>2, <2>3, <2>6, <2>7, <2>8, <2>10, CommandMoves, Zenon
  <1> QED
    BY <1>1, <1>2, Zenon DEF CreateNamespaceRoot, KeepRows, In

\* One of the groups: after the last one the namespace has them all.
LEMMA CreateBuildInGroupInv ==
    ASSUME BootInv, NEW c \in Cmds, CreateBuildInGroup(c)
    PROVE  BootInv'
  <1>1. CASE Quit(c)
    BY <1>1, QuitInv, Zenon
  <1>2. CASE /\ step[c].pc = "group"
             /\ groups' = [groups EXCEPT ![Target(c)] = @ \cup {BuildInGroups[step[c].i]}]
             /\ ToStep(c, IF LastPass(c, BuildInGroups) THEN Created(c) ELSE NextPass(c))
             /\ UNCHANGED <<does, nsRoot, default, half>>
    <2> DEFINE s == IF LastPass(c, BuildInGroups) THEN Created(c) ELSE NextPass(c)
               g == BuildInGroups[step[c].i]
    <2>1. step[c].goal \in Goal /\ step[c].i \in {1, 2}
      BY Zenon DEF BootInv, BootTyped, StageRec
    <2>2. g = IF step[c].i = 1 THEN ".inbox" ELSE ".friday"
      BY <2>1 DEF BuildInGroups
    <2>3. /\ s \in StageRec /\ s.goal = step[c].goal /\ s.i = IF step[c].i = 1 THEN 2 ELSE 1
          /\ s.pc = IF step[c].i = 1 THEN "group" ELSE IF step[c].goal = "fs" THEN "serving" ELSE "workflow"
      <3>1. CASE step[c].i = 1
        BY <1>2, <2>1, <3>1, Passes, StageTyped DEF NextPass, BootPc
      <3>2. CASE step[c].i = 2
        BY <2>1, <3>2, Passes, StageTyped DEF Created, Goal, BootPc
      <3> QED
        BY <2>1, <3>1, <3>2, Zenon
    <2>4. ToStep(c, s)
      BY <1>2, Zenon
    <2> HIDE DEF s
    <2>5. step \in [Cmds -> StageRec] /\ step' \in [Cmds -> StageRec] /\ step'[c] = s
      BY <2>3, <2>4, Zenon DEF BootInv, BootTyped, ToStep
    <2>6. Target(c)' = Target(c) /\ Target(c) \in Namespaces /\ Target(c) \in nsRoot
      BY <1>2, <2>3, <2>5, TargetTyped, Zenon DEF Target, BootInv, PlaceInv
    <2>7. groups \in [Namespaces -> SUBSET Groups] /\ groups' = [groups EXCEPT ![Target(c)] = @ \cup {g}]
      BY <1>2, Zenon DEF BootInv, BootTyped
    <2>8. groups'[Target(c)] = groups[Target(c)] \cup {g}
      BY <2>6, <2>7, Zenon
    <2>9. \A n \in Namespaces : n # Target(c) => groups'[n] = groups[n]
      BY <2>6, <2>7, Zenon
    <2>10. groups' \in [Namespaces -> SUBSET Groups]
      BY <2>2, <2>6, <2>7, Zenon DEF Groups
    <2> HIDE DEF g
    <2>11. Grows /\ BootTyped'
      BY <1>2, <2>5, <2>8, <2>9, <2>10, Zenon DEF BootInv, BootTyped, Grows
    <2>12. step[c].i = 2 => groups'[Target(c)] = Groups
      BY <1>2, <2>2, <2>6, <2>7, <2>8 DEF BootInv, PlaceInv, Groups
    <2>13. step[c].i = 1 => ".inbox" \in groups'[Target(c)]
      BY <2>2, <2>8, Zenon
    <2>14. GoalInv(c)' /\ PlaceInv(c)'
      BY <1>2, <2>1, <2>3, <2>5, <2>6, <2>13, Zenon DEF BootInv, GoalInv, PlaceInv, HasDefaults
    <2>15. \A n \in Namespaces : groups'[n] # {} => n \in nsRoot'
      BY <1>2, <2>6, <2>9, Zenon DEF BootInv, RootInv
    <2> QED
      BY <1>2, <2>1, <2>3, <2>4, <2>6, <2>11, <2>12, <2>14, <2>15, CommandMoves, Zenon
  <1> QED
    BY <1>1, <1>2, Zenon DEF CreateBuildInGroup, KeepRows, In

\* One of the workflows: after the last one the namespace has them both.
LEMMA CreateDefaultWorkflowInv ==
    ASSUME BootInv, NEW c \in Cmds, CreateDefaultWorkflow(c)
    PROVE  BootInv'
  <1> DEFINE w == DefaultWorkflows[step[c].i]
             s == IF ~LastPass(c, DefaultWorkflows) THEN NextPass(c)
                  ELSE IF does[c].serve THEN Stage("fs", "root", 1) ELSE Stage("namespace", "exit", 1)
  <1>1. CASE Quit(c)
    BY <1>1, QuitInv, Zenon
  <1>2. CASE /\ step[c].pc = "workflow" /\ default' = [default EXCEPT ![Target(c)][w] = "default"]
             /\ ToStep(c, s) /\ UNCHANGED <<does, nsRoot, groups, half>>
    <2>1. step[c].goal \in Goal /\ step[c].i \in {1, 2}
      BY Zenon DEF BootInv, BootTyped, StageRec
    <2>2. w = IF step[c].i = 1 THEN "rss" ELSE "docloader"
      BY <2>1 DEF DefaultWorkflows
    <2>3. step[c].i = 1 => s \in StageRec /\ s.goal = step[c].goal /\ s.pc = "workflow" /\ s.i = 2
      BY <1>2, <2>1, Passes, StageTyped DEF NextPass, BootPc
    <2>4. step[c].i = 2 /\ does[c].serve => s \in StageRec /\ s.goal = "fs" /\ s.pc = "root" /\ s.i = 1
      BY <2>1, Passes, StageTyped DEF Goal, BootPc
    <2>5. step[c].i = 2 /\ ~does[c].serve => s \in StageRec /\ s.goal = "namespace" /\ s.pc = "exit" /\ s.i = 1
      BY <2>1, Passes, StageTyped DEF Goal, BootPc
    <2>6. s \in StageRec
      BY <2>1, <2>3, <2>4, <2>5, Zenon
    <2>7. ToStep(c, s)
      BY <1>2, Zenon
    <2> HIDE DEF s
    <2>8. step \in [Cmds -> StageRec] /\ step' \in [Cmds -> StageRec] /\ step'[c] = s
      BY <2>6, <2>7, Zenon DEF BootInv, BootTyped, ToStep
    <2>9. Target(c) \in Namespaces /\ Target(c) \in nsRoot
      BY <1>2, TargetTyped, Zenon DEF BootInv, PlaceInv
    <2>10. default \in [Namespaces -> [Defaults -> {"none", "default", "changed"}]] /\ w \in Defaults
      BY <2>2, Zenon DEF BootInv, BootTyped, Defaults
    <2>11. default' \in [Namespaces -> [Defaults -> {"none", "default", "changed"}]]
      BY <1>2, <2>9, <2>10, Zenon
    <2>12. default'[Target(c)][w] = "default"
      BY <1>2, <2>9, <2>10, Zenon
    <2>13. \A n \in Namespaces, v \in Defaults : default'[n][v] = default[n][v] \/ default'[n][v] = "default"
      BY <1>2, <2>9, <2>10, Zenon
    <2> HIDE DEF w
    <2>14. Grows /\ BootTyped'
      BY <1>2, <2>8, <2>11, <2>13, Zenon DEF BootInv, BootTyped, Grows
    <2>15. step[c].i = 2 => default'[Target(c)]["rss"] # "none" /\ default'[Target(c)]["docloader"] # "none"
      BY <1>2, <2>2, <2>9, <2>12, <2>13 DEF BootInv, PlaceInv, Defaults
    <2>16. step[c].i = 1 => default'[Target(c)]["rss"] # "none"
      BY <2>2, <2>12, Zenon
    <2>17. does[c].serve => Target(c) = "default"
      BY <1>2, Zenon DEF BootInv, GoalInv, Target
    <2>18. CASE step[c].i = 1
      <3>1. Target(c)' = Target(c)
        BY <1>2, <2>3, <2>8, <2>18, Zenon DEF Target
      <3> QED
        BY <1>2, <2>3, <2>7, <2>8, <2>9, <2>14, <2>16, <2>18, <3>1, CommandMoves, Zenon
           DEF BootInv, RootInv, GoalInv, PlaceInv
    <2>19. CASE step[c].i = 2 /\ does[c].serve
      <3>1. HasDefaults("default")'
        BY <2>15, <2>17, <2>19, Zenon DEF HasDefaults, Defaults
      <3>2. GoalInv(c)' /\ PlaceInv(c)'
        BY <1>2, <2>4, <2>8, <2>19, <3>1, Zenon DEF GoalInv, PlaceInv
      <3> QED
        BY <1>2, <2>6, <2>7, <2>14, <3>2, CommandMoves, Zenon DEF BootInv, RootInv
    <2>20. CASE step[c].i = 2 /\ ~does[c].serve
      <3>1. Target(c)' = Target(c)
        BY <1>2, <2>5, <2>8, <2>20, Zenon DEF BootInv, GoalInv, Target
      <3>2. HasDefaults(Target(c))'
        BY <2>15, <2>20, <3>1, Zenon DEF HasDefaults, Defaults
      <3>3. GoalInv(c)' /\ PlaceInv(c)'
        BY <1>2, <2>5, <2>8, <2>9, <2>20, <3>1, <3>2, Zenon DEF GoalInv, PlaceInv
      <3> QED
        BY <1>2, <2>6, <2>7, <2>14, <3>3, CommandMoves, Zenon DEF BootInv, RootInv
    <2> QED
      BY <2>1, <2>18, <2>19, <2>20, Zenon
  <1> QED
    BY <1>1, <1>2, Zenon DEF CreateDefaultWorkflow, KeepRows, In

\* A user changes a workflow, which is there before and after.
LEMMA ChangeWorkflowInv ==
    ASSUME BootInv, ChangeWorkflow
    PROVE  BootInv'
  <1> PICK n \in Namespaces, w \in Defaults :
        default[n][w] = "default" /\ default' = [default EXCEPT ![n][w] = "changed"]
    BY Zenon DEF ChangeWorkflow, Defaults
  <1>1. UNCHANGED <<does, step, nsRoot, groups, half>>
    BY Zenon DEF ChangeWorkflow
  <1>2. default \in [Namespaces -> [Defaults -> {"none", "default", "changed"}]]
    BY Zenon DEF BootInv, BootTyped
  <1>3. default' \in [Namespaces -> [Defaults -> {"none", "default", "changed"}]]
    BY <1>2, Zenon
  <1>4. \A m \in Namespaces, v \in Defaults : default'[m][v] = default[m][v] \/ default'[m][v] = "changed"
    BY <1>2, Zenon
  <1>5. Grows /\ BootTyped'
    BY <1>1, <1>3, <1>4, Zenon DEF BootInv, BootTyped, Grows
  <1>6. \A c \in Cmds : GoalInv(c)' /\ PlaceInv(c)' /\ Target(c)' = Target(c)
    BY <1>1, <1>5, RestKeeps, Zenon DEF BootInv
  <1> QED
    BY <1>1, <1>5, <1>6, Zenon DEF BootInv, RootInv, Grouping

\* An empty metastore.
LEMMA BootInitInv ==
    ASSUME NEW cases \in SUBSET [Cmds -> [serve : BOOLEAN, auto : BOOLEAN, ns : Namespaces]], NEW longs,
           BootInit(cases, longs)
    PROVE  BootInv
  <1>1. Stage("none", "idle", 1) \in StageRec /\ Stage("none", "idle", 1).pc = "idle"
    BY StageTyped DEF Goal, BootPc
  <1>2. step \in [Cmds -> StageRec] /\ \A c \in Cmds : step[c].pc = "idle"
    BY <1>1, Zenon DEF BootInit
  <1>3. BootTyped
    BY <1>2, Zenon DEF BootInit, BootTyped, Defaults
  <1>4. \A c \in Cmds : GoalInv(c) /\ PlaceInv(c)
    BY <1>2, Zenon DEF GoalInv, PlaceInv
  <1>5. RootInv
    BY Zenon DEF BootInit, RootInv
  <1> QED
    BY <1>3, <1>4, <1>5, Zenon DEF BootInv

\* Every step of a start keeps the invariant.
LEMMA BootNextInv == BootInv /\ [BootNext]_bootVars => BootInv'
  <1> SUFFICES ASSUME BootInv, [BootNext]_bootVars PROVE BootInv'
    BY Zenon
  <1>1. ASSUME NEW c \in Cmds, StartServer(c) \/ StartCommand(c)
        PROVE  BootInv'
    BY <1>1, BeginsInv, Zenon DEF StartServer, StartCommand
  <1>2. ASSUME NEW c \in Cmds, Kill(c)
        PROVE  BootInv'
    BY <1>2, QuitInv, Zenon DEF Kill
  <1>3. ASSUME NEW c \in Cmds, BootStep(c)
        PROVE  BootInv'
    BY Zenon, <1>1, <1>3, FSRootInv, NamespaceRootInv, CreateNamespaceRootInv, CreateBuildInGroupInv,
       CreateDefaultWorkflowInv DEF BootStep
  <1>4. CASE UNCHANGED bootVars
    <2>1. UNCHANGED <<does, step, nsRoot, groups, default, half>>
      BY <1>4, Zenon DEF bootVars
    <2>2. Grows /\ BootTyped'
      BY <2>1, Zenon DEF BootInv, BootTyped, Grows
    <2>3. \A c \in Cmds : GoalInv(c)' /\ PlaceInv(c)' /\ Target(c)' = Target(c)
      BY <2>1, <2>2, RestKeeps, Zenon DEF BootInv
    <2> QED
      BY <2>1, <2>2, <2>3, Zenon DEF BootInv, RootInv, Grouping
  <1> QED
    BY <1>1, <1>2, <1>3, <1>4, ChangeWorkflowInv, Zenon DEF BootNext, BootEnv

\* What a start or the command "namespace" reported as ready is complete, and nothing
\* is made in a namespace without a root entry, for any number of commands, failing
\* calls and kills (CreateNamespace, createNamespace, ensureAutoInitNamespace).
THEOREM ReadyCorrect ==
    ASSUME NEW cases \in SUBSET [Cmds -> [serve : BOOLEAN, auto : BOOLEAN, ns : Namespaces]], NEW longs
    PROVE  BootSpec(cases, longs) => []ReadyIsComplete
  <1>1. BootInit(cases, longs) => BootInv
    BY BootInitInv, Zenon
  <1>2. BootInv => ReadyIsComplete
    <2> SUFFICES ASSUME BootInv PROVE ReadyIsComplete
      BY Zenon
    <2>1. \A c \in Cmds : In(c, "exit") => ~does[c].serve /\ Target(c) = does[c].ns
      BY Zenon DEF BootInv, GoalInv, In, Target
    <2>2. \A c \in Cmds : In(c, "serving") => does[c].serve /\ Target(c) = "default" /\ step[c].goal = "fs"
      BY Zenon DEF BootInv, GoalInv, In, Target
    <2>3. \A c \in Cmds : In(c, "exit") \/ In(c, "serving") => Target(c) \in nsRoot
      BY Zenon DEF BootInv, PlaceInv, In
    <2>4. NamespaceIsWhole
      BY <2>1, <2>2, <2>3 DEF NamespaceIsWhole, BootInv, RootInv, Grouping, In, Groups
    <2>5. WorkflowsAreThere
      BY <2>1, <2>2, Zenon DEF WorkflowsAreThere, BootInv, PlaceInv, HasDefaults, In, Defaults
    <2> QED
      BY <2>4, <2>5, Zenon DEF ReadyIsComplete, BootInv, RootInv
  <1> QED
    BY <1>1, <1>2, BootNextInv, PTL DEF BootSpec

----------------------------------------------------------------------------
(* Settings, messages and accounts. *)

\* The steps of the handlers.
AccountPc == {"enter", "sync", "write", "read", "cache", "mark", "login", "exists", "user", "ns", "done"}

Keys == Text \X Text
Token0 == [ns : Text, uid : Nat]
AccountRec == [val : Text, tok : Token0, uid : Nat, ids : Seq(Nat), list : SUBSET Nat]
UserRec == [sub : Text, email : Text, ns : Text]

\* What the variables hold.
AccountTyped ==
  /\ pc \in [Procs -> AccountPc] /\ at \in [Procs -> AccountRec] /\ faults \in Nat
  /\ DOMAIN cfg \subseteq Keys /\ \A k \in DOMAIN cfg : cfg[k] \in Text
  /\ msg \in Seq({"unread", "read"}) /\ user \in Seq(UserRec)
  /\ \A p \in Procs : Proper(req[p], DOMAIN msg)

\* The places in a handler where something is still to be done on a setting.
SettingPc == {"sync", "write", "read", "cache"}

\* What the copy is to become.
CopyOf(p) == IF Op(p) = "setcfg" THEN req[p].val ELSE None
Syncs(p, n) == pc[p] = "sync" /\ K(p) = Friday(n)

\* A request on a setting: the copy is still to follow the setting, the cache has
\* forgotten the setting that is to be written, the value that is to be cached is right.
SettingAt(p) ==
  /\ pc[p] \in SettingPc => Op(p) \in SettingOps
  /\ pc[p] = "sync" => K(p)[1] = "friday" /\ (K(p)[2] \in unsynced \/ Value(K(p)) = CopyOf(p))
  /\ pc[p] = "write" => K(p) \notin DOMAIN cached \/ K(p) \in bypassed
  /\ pc[p] = "cache" => at[p].val = Value(K(p)) \/ K(p) \in bypassed

SettingInv ==
  /\ \A p \in Procs : SettingAt(p)
  /\ \A n \in Text : n \in unsynced \/ Value(Friday(n)) = Value(Copy(n)) \/ \E p \in Procs : Syncs(p, n)
  /\ \A k \in DOMAIN cached : k \in bypassed \/ cached[k] = Value(k)

\* Messages a request has marked, or has still to mark.
MessageAt(p) ==
  (Op(p) = "readmsgs" /\ Authorized(p) /\ faults = 0) =>
    /\ pc[p] = "mark" => \A i \in Asked(req[p].ids) \cap DOMAIN msg : msg[i] = "read" \/ i \in Asked(at[p].ids)
    /\ pc[p] = "done" => \A i \in Asked(req[p].ids) \cap DOMAIN msg : msg[i] = "read"
    /\ pc[p] \in {"enter", "mark", "done"}

MessageInv == \A p \in Procs : MessageAt(p)

\* A user who was just created gets the namespace of the request.
UserAt(p) == pc[p] = "ns" => at[p].uid \in DOMAIN user /\ user[at[p].uid].ns = req[p].ns

UserInv == UserOwnsNamespace /\ \A p \in Procs : UserAt(p)

----------------------------------------------------------------------------
(* Keys and tables. *)

\* A setting of friday and its copy are different settings, one pair per name.
LEMMA KeyFacts ==
    /\ \A n \in Text : Friday(n) \in Keys /\ Copy(n) \in Keys /\ Friday(n)[1] = "friday" /\ Friday(n)[2] = n
                         /\ Copy(n)[1] = "workflow" /\ Copy(n)[2] = n
    /\ \A n \in Text, m \in Text : Friday(n) # Copy(m)
    /\ \A k \in Keys : k[2] \in Text /\ (k[1] = "friday" => k = Friday(k[2])) /\ (k[1] = "workflow" => k = Copy(k[2]))
  <1>1. \A n \in Text : /\ Friday(n) \in Keys /\ Friday(n)[1] = "friday" /\ Friday(n)[2] = n
                        /\ Copy(n) \in Keys /\ Copy(n)[1] = "workflow" /\ Copy(n)[2] = n
    BY TextAssumption, Zenon DEF Friday, Copy, Keys
  <1>2. \A n \in Text, m \in Text : Friday(n) # Copy(m)
    <2> TAKE n \in Text, m \in Text
    <2>1. Friday(n)[1] = "friday" /\ Copy(m)[1] = "workflow"
      BY <1>1, Zenon
    <2> QED
      BY <2>1, Zenon
  <1>3. \A k \in Keys : k[2] \in Text /\ (k[1] = "friday" => k = Friday(k[2])) /\ (k[1] = "workflow" => k = Copy(k[2]))
    <2> TAKE k \in Keys
    <2>1. k = <<k[1], k[2]>> /\ k[2] \in Text
      BY DEF Keys
    <2> QED
      BY <2>1, Zenon DEF Friday, Copy
  <1> QED
    BY <1>1, <1>2, <1>3, Zenon

\* A value that is written, and one that is deleted (Put and Drop of the table).
LEMMA PutValue ==
    ASSUME NEW k, NEW v, SetConfigValue(k, v)
    PROVE  \A x : Value(x)' = IF x = k THEN v ELSE Value(x)
  BY Zenon DEF SetConfigValue, Put, Value

LEMMA DropValue ==
    ASSUME NEW k, DeleteConfigValue(k)
    PROVE  \A x : Value(x)' = IF x = k THEN None ELSE Value(x)
  BY Zenon DEF DeleteConfigValue, Drop, Value

\* The next number (RecordNotification, CreateUser).
LEMMA NextNumber ==
    ASSUME NEW S, NEW t \in Seq(S), NEW v \in S
    PROVE  /\ Append(t, v) \in Seq(S) /\ Len(t) + 1 \in Nat /\ Len(t) + 1 \notin DOMAIN t
           /\ DOMAIN Append(t, v) = DOMAIN t \cup {Len(t) + 1} /\ Append(t, v)[Len(t) + 1] = v
           /\ \A i \in DOMAIN t : Append(t, v)[i] = t[i]
  OBVIOUS

----------------------------------------------------------------------------
(* Steps of a request. *)

\* A step of one request leaves the places of the others alone.
Frame(p) ==
  /\ req' = req /\ pc' \in [Procs -> AccountPc] /\ at' \in [Procs -> AccountRec] /\ faults' \in {faults, faults + 1}
  /\ \A q \in Procs : q # p => pc'[q] = pc[q] /\ at'[q] = at[q]

\* The step goes on at one place, or ends the request.
LEMMA GoesTo ==
    ASSUME AccountTyped, NEW p \in Procs, NEW l \in AccountPc, Goto(p, l), UNCHANGED req, Fine \/ Fail,
           at' \in [Procs -> AccountRec], \A q \in Procs : q # p => at'[q] = at[q]
    PROVE  Frame(p) /\ pc'[p] = l
  BY Zenon DEF AccountTyped, Goto, Frame, Fine, Fail

LEMMA GoesOn ==
    ASSUME AccountTyped, NEW p \in Procs, NEW l \in AccountPc, Step(p, l), Fine \/ Fail
    PROVE  Frame(p) /\ pc'[p] = l /\ at' = at
  <1>1. Goto(p, l) /\ UNCHANGED req /\ at' = at
    BY Zenon DEF Step
  <1> QED
    BY <1>1, GoesTo, Zenon DEF AccountTyped, AccountPc

LEMMA Ends ==
    ASSUME AccountTyped, NEW p \in Procs, NEW code, End(p, code), Fine \/ Fail
    PROVE  Frame(p) /\ pc'[p] = "done" /\ at' = at
  <1>1. Goto(p, "done") /\ UNCHANGED req /\ at' = at
    BY Zenon DEF End, Reply
  <1> QED
    BY <1>1, GoesTo, Zenon DEF AccountTyped, AccountPc

\* The local variables of one request.
LEMMA LocalTyped ==
    ASSUME AccountTyped, NEW p \in Procs
    PROVE  /\ \A v \in Text : at' = [at EXCEPT ![p].val = v] =>
                at' \in [Procs -> AccountRec] /\ at'[p].val = v /\ \A q \in Procs : q # p => at'[q] = at[q]
           /\ \A t \in Token0 : at' = [at EXCEPT ![p].tok = t] =>
                at' \in [Procs -> AccountRec] /\ \A q \in Procs : q # p => at'[q] = at[q]
           /\ \A u \in Nat : at' = [at EXCEPT ![p].uid = u] =>
                at' \in [Procs -> AccountRec] /\ at'[p].uid = u /\ \A q \in Procs : q # p => at'[q] = at[q]
           /\ \A s \in Seq(Nat) : at' = [at EXCEPT ![p].ids = s] =>
                at' \in [Procs -> AccountRec] /\ at'[p].ids = s /\ \A q \in Procs : q # p => at'[q] = at[q]
           /\ \A l \in SUBSET Nat : at' = [at EXCEPT ![p].list = l] =>
                at' \in [Procs -> AccountRec] /\ \A q \in Procs : q # p => at'[q] = at[q]
  <1>1. at \in [Procs -> AccountRec]
    BY Zenon DEF AccountTyped
  <1>2. \A v \in Text : [at[p] EXCEPT !.val = v] \in AccountRec /\ [at[p] EXCEPT !.val = v].val = v
    BY <1>1, Zenon DEF AccountRec
  <1>3. \A t \in Token0 : [at[p] EXCEPT !.tok = t] \in AccountRec
    BY <1>1, Zenon DEF AccountRec
  <1>4. \A u \in Nat : [at[p] EXCEPT !.uid = u] \in AccountRec /\ [at[p] EXCEPT !.uid = u].uid = u
    BY <1>1, Zenon DEF AccountRec
  <1>5. \A s \in Seq(Nat) : [at[p] EXCEPT !.ids = s] \in AccountRec /\ [at[p] EXCEPT !.ids = s].ids = s
    BY <1>1, Zenon DEF AccountRec
  <1>6. \A l \in SUBSET Nat : [at[p] EXCEPT !.list = l] \in AccountRec
    BY <1>1, Zenon DEF AccountRec
  <1>7. \A r \in AccountRec : at' = [at EXCEPT ![p] = r] =>
          at' \in [Procs -> AccountRec] /\ at'[p] = r /\ \A q \in Procs : q # p => at'[q] = at[q]
    BY <1>1, Zenon
  <1> QED
    BY <1>2, <1>3, <1>4, <1>5, <1>6, <1>7, Zenon

\* A step of one request leaves the settings alone.
LEMMA SettingsRest ==
    ASSUME SettingInv, NEW p \in Procs, Frame(p), UNCHANGED settings, pc[p] # "sync", SettingAt(p)'
    PROVE  SettingInv'
  <1>1. req' = req /\ \A q \in Procs : q # p => pc'[q] = pc[q] /\ at'[q] = at[q]
    BY Zenon DEF Frame
  <1>2. cfg' = cfg /\ cached' = cached /\ bypassed' = bypassed /\ unsynced' = unsynced
    BY Zenon DEF settings
  <1>3. \A k : Value(k)' = Value(k)
    BY <1>2, Zenon DEF Value
  <1>4. \A q \in Procs : q # p => SettingAt(q)'
    BY <1>1, <1>2, <1>3 DEF SettingInv, SettingAt, K, Op, CopyOf
  <1>5. \A n \in Text, q \in Procs : Syncs(q, n) => Syncs(q, n)'
    BY <1>1, Zenon DEF Syncs, K
  <1> QED
    BY <1>2, <1>3, <1>4, <1>5, Zenon DEF SettingInv

\* A step of one request leaves the messages alone.
LEMMA MessagesRest ==
    ASSUME AccountTyped, MessageInv, NEW p \in Procs, Frame(p), UNCHANGED msg, MessageAt(p)'
    PROVE  MessageInv'
  <1>1. req' = req /\ \A q \in Procs : q # p => pc'[q] = pc[q] /\ at'[q] = at[q]
    BY Zenon DEF Frame
  <1>2. faults' = 0 => faults = 0
    BY DEF Frame, AccountTyped
  <1> QED
    BY <1>1, <1>2, ZenonT(60) DEF MessageInv, MessageAt, Op, Authorized

\* A step of one request leaves users and namespaces alone.
LEMMA UsersRest ==
    ASSUME UserInv, NEW p \in Procs, Frame(p), UNCHANGED <<user, owner, orphaned>>, pc[p] # "ns", pc'[p] # "ns"
    PROVE  UserInv'
  <1>1. req' = req /\ \A q \in Procs : q # p => pc'[q] = pc[q] /\ at'[q] = at[q]
    BY Zenon DEF Frame
  <1>2. \A q \in Procs : UserAt(q)'
    BY <1>1, Zenon DEF UserInv, UserAt
  <1>3. UserOwnsNamespace'
    BY <1>1 DEF UserInv, UserOwnsNamespace
  <1> QED
    BY <1>2, <1>3, Zenon DEF UserInv

\* The tables keep their types when they do not change.
LEMMA TypesRest ==
    ASSUME AccountTyped, NEW p \in Procs, Frame(p), UNCHANGED <<cfg, msg, user>>
    PROVE  AccountTyped'
  <1>1. faults' \in Nat /\ req' = req
    BY DEF AccountTyped, Frame
  <1> QED
    BY <1>1, Zenon DEF AccountTyped, Frame

\* The inductive invariant.
AccountInv == AccountTyped /\ SettingInv /\ MessageInv /\ UserInv

----------------------------------------------------------------------------
(* Steps that change nothing but the place of the request. *)

Places == SettingPc \cup {"mark", "ns"}

\* Nothing is left to be done, before and after.
Plain(p) ==
  /\ Frame(p) /\ UNCHANGED accountVars /\ pc[p] \notin Places /\ pc'[p] \notin Places
  /\ (Op(p) = "readmsgs" /\ Authorized(p)) => pc'[p] = "done" /\ req[p].ids = <<>>

LEMMA PlainInv ==
    ASSUME AccountInv, NEW p \in Procs, Plain(p)
    PROVE  AccountInv'
  <1>1. /\ Frame(p) /\ UNCHANGED settings /\ UNCHANGED msg /\ UNCHANGED <<user, owner, orphaned>>
        /\ UNCHANGED <<cfg, msg, user>> /\ req' = req
    BY Zenon DEF Plain, accountVars, settings, Frame
  <1>2. /\ pc[p] # "sync" /\ pc[p] # "ns" /\ pc'[p] # "ns" /\ pc'[p] \notin SettingPc
        /\ (Op(p) = "readmsgs" /\ Authorized(p)) => pc'[p] = "done" /\ req[p].ids = <<>>
    BY Zenon DEF Plain, Places, SettingPc
  <1>3. SettingAt(p)'
    BY <1>2, Zenon DEF SettingAt, SettingPc
  <1>4. Asked(<<>>) = {}
    BY DEF Asked
  <1>5. MessageAt(p)'
    BY <1>1, <1>2, <1>4, Zenon DEF MessageAt, Op, Authorized
  <1> QED
    BY <1>1, <1>2, <1>3, <1>5, SettingsRest, MessagesRest, UsersRest, TypesRest, Zenon DEF AccountInv

\* A handler ends at once, or the login goes on.
LEMMA PlainEnd ==
    ASSUME AccountTyped, NEW p \in Procs, NEW code, End(p, code), Fine \/ Fail, UNCHANGED accountVars,
           pc[p] \notin Places, (Op(p) = "readmsgs" /\ Authorized(p)) => req[p].ids = <<>>
    PROVE  Plain(p)
  BY Ends, Zenon DEF Plain, Places, SettingPc

LEMMA PlainStep ==
    ASSUME AccountTyped, NEW p \in Procs, NEW l \in AccountPc, Step(p, l), Fine \/ Fail, UNCHANGED accountVars,
           pc[p] \notin Places, l \notin Places, Op(p) # "readmsgs"
    PROVE  Plain(p)
  BY GoesOn, Zenon DEF Plain, AccountPc

\* Handlers that only look.
LEMMA ReadersPlain ==
    ASSUME AccountTyped, NEW p \in Procs,
           \/ Unauthorized(p) \/ GetConfig(p) \/ ListConfig(p) \/ GetGoogleAuthURL(p)
           \/ ListMyNamespace(p) \/ GetCurrentUser(p) \/ GetNamespace(p) \/ CreateNamespace(p)
    PROVE  Plain(p)
  <1>1. /\ pc[p] = "enter" /\ UNCHANGED accountVars /\ (Op(p) = "readmsgs" => ~Authorized(p))
        /\ \E code \in Nat : End(p, code) /\ (Fine \/ Fail)
    <2>1. CASE Unauthorized(p)
      BY <2>1 DEF Unauthorized, End
    <2>2. CASE GetConfig(p) \/ ListConfig(p)
      BY <2>2 DEF GetConfig, ListConfig, Enters
    <2>3. CASE GetGoogleAuthURL(p) \/ CreateNamespace(p)
      BY <2>3 DEF GetGoogleAuthURL, CreateNamespace, Enters
    <2>4. CASE ListMyNamespace(p) \/ GetCurrentUser(p) \/ GetNamespace(p)
      BY <2>4 DEF ListMyNamespace, GetCurrentUser, GetNamespace, Enters, Ask
    <2> QED
      BY <2>1, <2>2, <2>3, <2>4, Zenon
  <1>2. pc[p] \notin Places
    BY <1>1, Zenon DEF Places, SettingPc
  <1> QED
    BY <1>1, <1>2, PlainEnd, Zenon

\* ListMessages makes a list and changes nothing.
LEMMA ListMessagesPlain ==
    ASSUME AccountTyped, NEW p \in Procs, ListMessages(p)
    PROVE  Plain(p)
  <1>1. /\ Op(p) = "listmsgs" /\ pc[p] = "enter" /\ UNCHANGED accountVars /\ UNCHANGED req
        /\ Goto(p, "done") /\ (Fine \/ Fail)
    BY Zenon DEF ListMessages, Enters, Reply
  <1>2. DOMAIN msg \subseteq Nat
    BY DEF AccountTyped
  <1>3. at[p].list \in SUBSET Nat /\ at = [at EXCEPT ![p].list = at[p].list]
    BY Zenon DEF AccountTyped, AccountRec
  <1>4. PICK l \in SUBSET Nat : at' = [at EXCEPT ![p].list = l]
    BY <1>2, <1>3, Zenon DEF ListMessages
  <1>5. at' \in [Procs -> AccountRec] /\ \A q \in Procs : q # p => at'[q] = at[q]
    BY <1>4, LocalTyped, Zenon
  <1>6. Frame(p) /\ pc'[p] = "done"
    BY <1>1, <1>5, GoesTo, Zenon DEF AccountPc
  <1> QED
    BY <1>1, <1>6, Zenon DEF Plain, Places, SettingPc

\* A login finds a user or does not, and changes nothing.
LEMMA LoginPlain ==
    ASSUME AccountTyped, NEW p \in Procs, GoogleLogin(p) \/ Login(p, "loginns", "exists")
    PROVE  Plain(p)
  <1>1. ASSUME NEW o \in {"login", "loginns"}, NEW l \in {"login", "exists"}, Login(p, o, l)
        PROVE  Plain(p)
    <2>1. Op(p) # "readmsgs" /\ pc[p] \notin Places /\ l \notin Places /\ UNCHANGED accountVars
      BY <1>1, Zenon DEF Login, Enters, Places, SettingPc
    <2>2. (\E code \in Nat : End(p, code) /\ (Fine \/ Fail)) \/ (Step(p, l) /\ Fine)
      <3>1. \/ Fine /\ (End(p, 503) \/ End(p, 400) \/ Step(p, l))
            \/ Fail /\ End(p, 400)
        BY <1>1, Zenon DEF Login
      <3> QED
        BY <3>1
    <2> QED
      BY <2>1, <2>2, PlainEnd, PlainStep, Zenon DEF AccountPc
  <1>2. CASE Op(p) = "login" /\ LoginOrRegister(p)
    <2>1. pc[p] = "login" /\ UNCHANGED accountVars /\ UNCHANGED req /\ Goto(p, "done") /\ (Fine \/ Fail)
      BY <1>2, Zenon DEF LoginOrRegister, Reply
    <2>2. UNCHANGED at \/ \E u \in DOMAIN user : at' = [at EXCEPT ![p].tok = Token(u)]
      BY <1>2, Zenon DEF LoginOrRegister, UserOf
    <2>3. \A u \in DOMAIN user : Token(u) \in Token0
      <3>1. \A u \in DOMAIN user : u \in Nat /\ user[u] \in UserRec
        BY DEF AccountTyped
      <3> QED
        BY <3>1, Zenon DEF Token, Token0, UserRec
    <2>4. at' \in [Procs -> AccountRec] /\ \A q \in Procs : q # p => at'[q] = at[q]
      BY <2>2, <2>3, LocalTyped, Zenon DEF AccountTyped
    <2>5. Frame(p) /\ pc'[p] = "done"
      BY <2>1, <2>4, GoesTo, Zenon DEF AccountPc
    <2> QED
      BY <1>2, <2>1, <2>5, Zenon DEF Plain, Places, SettingPc
  <1> QED
    BY <1>1, <1>2, Zenon DEF GoogleLogin

----------------------------------------------------------------------------
(* Settings. *)

\* A step on a setting does not touch the other tables.
LEMMA SettingStep ==
    ASSUME AccountInv, NEW p \in Procs, Frame(p), UNCHANGED tables, Op(p) \in SettingOps,
           pc[p] # "ns", pc'[p] # "ns", DOMAIN cfg' \subseteq Keys, \A k \in DOMAIN cfg' : cfg'[k] \in Text, SettingInv'
    PROVE  AccountInv'
  <1>1. UNCHANGED <<msg, user, owner, orphaned>> /\ req' = req /\ faults' \in Nat
    BY DEF tables, Frame, AccountInv, AccountTyped
  <1>2. AccountTyped'
    BY <1>1, Zenon DEF AccountInv, AccountTyped, Frame
  <1>3. MessageAt(p)'
    BY <1>1, Zenon DEF MessageAt, Op, SettingOps
  <1> QED
    BY <1>1, <1>2, <1>3, MessagesRest, UsersRest, Zenon DEF AccountInv

\* The types of the table of settings.
LEMMA SettingTyped ==
    ASSUME AccountTyped, NEW k \in Keys, NEW v \in Text, SetConfigValue(k, v) \/ DeleteConfigValue(k) \/ UNCHANGED cfg
    PROVE  DOMAIN cfg' \subseteq Keys /\ \A x \in DOMAIN cfg' : cfg'[x] \in Text
  BY Zenon DEF AccountTyped, SetConfigValue, DeleteConfigValue, Put, Drop

\* What a request on a setting names.
LEMMA SettingNamed ==
    ASSUME AccountTyped, NEW p \in Procs, Op(p) \in SettingOps
    PROVE  "key" \in DOMAIN req[p] /\ K(p) \in Keys /\ req[p].val \in Text /\ K(p)[2] \in Text
  <1>1. "key" \in DOMAIN req[p] /\ K(p) \in Keys /\ req[p].val \in Text
    BY Zenon DEF AccountTyped, Proper, Op, K, Keys
  <1> QED
    BY <1>1, Zenon DEF Keys

\* Another request at work on the setting.
LEMMA Others ==
    ASSUME AccountTyped, SettingInv, NEW p \in Procs, NEW q \in Procs, q # p, pc[q] \in SettingPc, NEW keys, K(q) \in keys
    PROVE  Together(p, keys)
  <1>1. Op(q) \in SettingOps
    BY Zenon DEF SettingInv, SettingAt
  <1>2. "key" \in DOMAIN req[q]
    BY <1>1, SettingNamed, Zenon
  <1> QED
    BY <1>2, Zenon DEF Together, SettingPc

\* One setting is written: who else is at work on it is in the exceptions, and so is the
\* cache if it has the setting.
LEMMA WriteSetting ==
    ASSUME AccountTyped, SettingInv, NEW p \in Procs, Frame(p), SettingAt(p)',
           NEW k \in Keys, NEW v, \A x : Value(x)' = IF x = k THEN v ELSE Value(x),
           UNCHANGED cached, bypassed \subseteq bypassed', unsynced \subseteq unsynced',
           k \in DOMAIN cached => k \in bypassed',
           \A q \in Procs : q # p /\ pc[q] = "cache" /\ K(q) = k => k \in bypassed',
           \A q \in Procs : q # p /\ pc[q] = "sync" /\ K(q) = k => k[2] \in unsynced',
           \A n \in Text : (k = Friday(n) \/ k = Copy(n)) =>
             n \in unsynced' \/ Value(Friday(n))' = Value(Copy(n))' \/ Syncs(p, n)',
           pc[p] = "sync" => k = Copy(K(p)[2]) /\ K(p) \in Keys
    PROVE  SettingInv'
  <1>1. req' = req /\ \A q \in Procs : q # p => pc'[q] = pc[q] /\ at'[q] = at[q]
    BY Zenon DEF Frame
  <1>2. ASSUME NEW q \in Procs, q # p
        PROVE  SettingAt(q)'
    <2>1. SettingAt(q) /\ K(q)' = K(q) /\ Op(q)' = Op(q) /\ CopyOf(q)' = CopyOf(q)
      BY <1>1, Zenon DEF SettingInv, K, Op, CopyOf
    <2> QED
      BY <1>1, <1>2, <2>1, Zenon DEF SettingAt
  <1>3. ASSUME NEW n \in Text
        PROVE  n \in unsynced' \/ Value(Friday(n))' = Value(Copy(n))' \/ \E q \in Procs : Syncs(q, n)'
    <2>1. CASE k = Friday(n) \/ k = Copy(n)
      BY <2>1, Zenon
    <2>2. CASE k # Friday(n) /\ k # Copy(n)
      <3>1. Value(Friday(n))' = Value(Friday(n)) /\ Value(Copy(n))' = Value(Copy(n))
        BY <2>2, Zenon
      <3>2. ASSUME NEW q \in Procs, Syncs(q, n)
            PROVE  Syncs(q, n)'
        <4>1. q # p
          BY <2>2, <3>2, KeyFacts DEF Syncs
        <4> QED
          BY <1>1, <3>2, <4>1, Zenon DEF Syncs, K
      <3> QED
        BY <3>1, <3>2, Zenon DEF SettingInv
    <2> QED
      BY <2>1, <2>2, Zenon
  <1>4. \A x \in DOMAIN cached' : x \in bypassed' \/ cached'[x] = Value(x)'
    BY Zenon DEF SettingInv
  <1> QED
    BY <1>2, <1>3, <1>4, Zenon DEF SettingInv

\* What Wrote records of one setting.
LEMMA WroteFacts ==
    ASSUME NEW p, NEW k, Wrote(p, {k})
    PROVE  /\ bypassed' = bypassed \cup {k} /\ unsynced \subseteq unsynced' /\ UNCHANGED cached /\ UNCHANGED tables
           /\ k[1] = "workflow" \/ Together(p, {Friday(k[2]), Copy(k[2])}) => k[2] \in unsynced'
  BY Zenon DEF Wrote

\* The first write of SetConfig and DeleteConfig.
LEMMA FirstWrite ==
    ASSUME AccountInv, NEW p \in Procs, Op(p) \in {"setcfg", "delcfg"}, pc[p] = "enter", Fine, Wrote(p, {K(p)}),
           \A x : Value(x)' = IF x = K(p) THEN CopyOf(p) ELSE Value(x),
           IF K(p)[1] = "friday" THEN Step(p, "sync") ELSE End(p, 200)
    PROVE  SettingInv' /\ Frame(p) /\ pc'[p] # "ns" /\ UNCHANGED tables
  <1>1. K(p) \in Keys /\ K(p)[2] \in Text /\ Op(p) \in SettingOps
    BY SettingNamed, Zenon DEF AccountInv, SettingOps
  <1>2. Frame(p) /\ at' = at /\ pc'[p] = IF K(p)[1] = "friday" THEN "sync" ELSE "done"
    BY GoesOn, Ends, Zenon DEF AccountInv, AccountPc
  <1>3. req' = req /\ K(p)' = K(p) /\ CopyOf(p)' = CopyOf(p) /\ Op(p)' = Op(p)
    BY <1>2, Zenon DEF Frame, K, CopyOf, Op
  <1> DEFINE k == K(p)
  <1>4. /\ bypassed' = bypassed \cup {k} /\ unsynced \subseteq unsynced' /\ UNCHANGED cached /\ UNCHANGED tables
        /\ k[1] = "workflow" \/ Together(p, {Friday(k[2]), Copy(k[2])}) => k[2] \in unsynced'
    BY WroteFacts, Zenon
  <1>5. SettingAt(p)'
    BY <1>1, <1>2, <1>3, Zenon DEF SettingAt, SettingPc
  <1>6. ASSUME NEW q \in Procs, q # p, pc[q] = "sync", K(q) = k
        PROVE  k[2] \in unsynced'
    <2>1. K(q)[1] = "friday"
      BY <1>6, Zenon DEF AccountInv, SettingInv, SettingAt
    <2>2. K(q) \in {Friday(k[2]), Copy(k[2])}
      BY <1>1, <1>6, <2>1, KeyFacts, Zenon
    <2>3. Together(p, {Friday(k[2]), Copy(k[2])})
      BY <1>6, <2>2, Others, Zenon DEF AccountInv, SettingPc
    <2> QED
      BY <1>4, <2>3, Zenon
  <1>7. ASSUME NEW n \in Text, k = Friday(n) \/ k = Copy(n)
        PROVE  n \in unsynced' \/ Syncs(p, n)'
    <2>1. CASE k = Friday(n)
      BY <1>2, <1>3, <1>7, <2>1, KeyFacts, Zenon DEF Syncs
    <2>2. CASE k = Copy(n)
      BY <1>4, <2>2, KeyFacts
    <2> QED
      BY <1>7, <2>1, <2>2, Zenon
  <1> HIDE DEF k
  <1>8. \A x : Value(x)' = IF x = k THEN CopyOf(p) ELSE Value(x)
    BY Zenon DEF k
  <1>9. k \in Keys /\ pc[p] # "sync"
    BY <1>1, Zenon DEF k
  <1>10. SettingInv'
    BY <1>2, <1>4, <1>5, <1>6, <1>7, <1>8, <1>9, WriteSetting, Zenon DEF AccountInv
  <1> QED
    BY <1>2, <1>4, <1>10, Zenon

\* The second one, of the copy.
LEMMA SecondWrite ==
    ASSUME AccountInv, NEW p \in Procs, Op(p) \in {"setcfg", "delcfg"}, pc[p] = "sync", Fine, End(p, 200),
           \A x : Value(x)' = IF x = Copy(K(p)[2]) THEN CopyOf(p) ELSE Value(x),
           UNCHANGED <<cached, tables>>, bypassed' = bypassed \cup {Copy(K(p)[2])},
           unsynced' = IF Together(p, {K(p), Copy(K(p)[2])}) THEN unsynced \cup {K(p)[2]} ELSE unsynced
    PROVE  SettingInv' /\ Frame(p) /\ pc'[p] # "ns"
  <1> DEFINE m == K(p)[2]
             k == Copy(m)
  <1>1. K(p) \in Keys /\ m \in Text /\ K(p)[1] = "friday" /\ (m \in unsynced \/ Value(K(p)) = CopyOf(p))
    BY SettingNamed, Zenon DEF AccountInv, SettingOps, SettingInv, SettingAt
  <1>2. K(p) = Friday(m) /\ k \in Keys /\ k[2] = m /\ k[1] = "workflow" /\ Friday(m) # k
    BY <1>1, KeyFacts, Zenon
  <1>3. Frame(p) /\ at' = at /\ pc'[p] = "done"
    BY Ends, Zenon DEF AccountInv
  <1>4. SettingAt(p)'
    BY <1>3, Zenon DEF SettingAt, SettingPc
  <1>5. bypassed \subseteq bypassed' /\ k \in bypassed' /\ unsynced \subseteq unsynced'
    BY Zenon
  <1>6. \A q \in Procs : ~(pc[q] = "sync" /\ K(q) = k)
    BY <1>2, Zenon DEF AccountInv, SettingInv, SettingAt
  <1>7. ASSUME NEW n \in Text, k = Friday(n) \/ k = Copy(n)
        PROVE  n \in unsynced' \/ Value(Friday(n))' = Value(Copy(n))'
    <2>1. n = m
      BY <1>2, <1>7, KeyFacts
    <2>2. Value(Copy(n))' = CopyOf(p) /\ Value(Friday(n))' = Value(Friday(n))
      BY <1>2, <2>1, Zenon
    <2> QED
      BY <1>1, <1>2, <1>5, <2>1, <2>2, Zenon
  <1>8. \A x : Value(x)' = IF x = k THEN CopyOf(p) ELSE Value(x)
    BY Zenon
  <1>9. k = Copy(K(p)[2]) /\ K(p) \in Keys
    BY <1>1, Zenon
  <1> HIDE DEF k
  <1>10. SettingInv'
    BY <1>2, <1>3, <1>4, <1>5, <1>6, <1>7, <1>8, <1>9, WriteSetting, ZenonT(60) DEF AccountInv
  <1> QED
    BY <1>3, <1>10, Zenon

\* The second call failed.
LEMMA LostInv ==
    ASSUME AccountInv, NEW p \in Procs, Op(p) \in {"setcfg", "delcfg"}, pc[p] = "sync", Fail, Lost(p),
           NEW code, End(p, code)
    PROVE  AccountInv'
  <1>1. K(p) \in Keys /\ K(p)[2] \in Text /\ Op(p) \in SettingOps
    BY SettingNamed, Zenon DEF AccountInv, SettingOps
  <1>2. Frame(p) /\ at' = at /\ pc'[p] = "done"
    BY Ends, Zenon DEF AccountInv
  <1>3. UNCHANGED <<cfg, cached, bypassed>> /\ UNCHANGED tables /\ unsynced' = unsynced \cup {K(p)[2]}
    BY Zenon DEF Lost
  <1>4. \A x : Value(x)' = Value(x)
    BY <1>3, Zenon DEF Value
  <1>5. req' = req /\ \A q \in Procs : q # p => pc'[q] = pc[q] /\ at'[q] = at[q]
    BY <1>2, Zenon DEF Frame
  <1>6. SettingAt(p)'
    BY <1>2, Zenon DEF SettingAt, SettingPc
  <1>7. \A q \in Procs : q # p => SettingAt(q)'
    BY <1>3, <1>4, <1>5, ZenonT(60) DEF AccountInv, SettingInv, SettingAt, K, Op, CopyOf
  <1>8. ASSUME NEW n \in Text
        PROVE  n \in unsynced' \/ Value(Friday(n))' = Value(Copy(n))' \/ \E q \in Procs : Syncs(q, n)'
    <2>1. ASSUME NEW q \in Procs, Syncs(q, n), n \notin unsynced'
          PROVE  Syncs(q, n)'
      <3>1. q # p
        BY <1>3, <2>1, KeyFacts DEF Syncs
      <3> QED
        BY <1>5, <2>1, <3>1, Zenon DEF Syncs, K
    <2> QED
      BY <1>3, <1>4, <2>1, Zenon DEF AccountInv, SettingInv
  <1>9. SettingInv'
    BY <1>3, <1>4, <1>6, <1>7, <1>8, Zenon DEF AccountInv, SettingInv
  <1>10. DOMAIN cfg' \subseteq Keys /\ \A k \in DOMAIN cfg' : cfg'[k] \in Text
    BY <1>3, Zenon DEF AccountInv, AccountTyped
  <1> QED
    BY <1>1, <1>2, <1>3, <1>9, <1>10, SettingStep, Zenon

\* SetConfig.
LEMMA SetConfigInv ==
    ASSUME AccountInv, NEW p \in Procs, SetConfig(p)
    PROVE  AccountInv'
  <1>1. Op(p) = "setcfg" /\ Op(p) \in SettingOps /\ CopyOf(p) = req[p].val
    BY Zenon DEF SetConfig, Enters, SettingOps, CopyOf
  <1>2. K(p) \in Keys /\ K(p)[2] \in Text /\ req[p].val \in Text /\ Copy(K(p)[2]) \in Keys
    BY <1>1, SettingNamed, KeyFacts, Zenon DEF AccountInv
  <1>3. ASSUME pc[p] = "enter", NEW code \in Nat, End(p, code), Fine \/ Fail, UNCHANGED accountVars
        PROVE  AccountInv'
    BY <1>1, <1>3, PlainEnd, PlainInv, Zenon DEF AccountInv, Places, SettingPc
  <1>4. CASE /\ pc[p] = "enter" /\ Fine /\ SetConfigValue(K(p), req[p].val) /\ Wrote(p, {K(p)})
             /\ IF K(p)[1] = "friday" THEN Step(p, "sync") ELSE End(p, 200)
    <2>1. \A x : Value(x)' = IF x = K(p) THEN CopyOf(p) ELSE Value(x)
      BY <1>1, <1>4, PutValue, Zenon
    <2>2. SettingInv' /\ Frame(p) /\ pc'[p] # "ns" /\ UNCHANGED tables
      BY <1>1, <1>4, <2>1, FirstWrite, Zenon
    <2>3. DOMAIN cfg' \subseteq Keys /\ \A k \in DOMAIN cfg' : cfg'[k] \in Text
      BY <1>2, <1>4, SettingTyped, Zenon DEF AccountInv
    <2> QED
      BY <1>1, <1>4, <2>2, <2>3, SettingStep, Zenon
  <1>5. CASE /\ pc[p] = "sync" /\ Fine /\ SetConfigValue(Copy(K(p)[2]), req[p].val) /\ End(p, 200)
             /\ UNCHANGED <<cached, tables>> /\ bypassed' = bypassed \cup {Copy(K(p)[2])}
             /\ unsynced' = IF Together(p, {K(p), Copy(K(p)[2])}) THEN unsynced \cup {K(p)[2]} ELSE unsynced
    <2>1. \A x : Value(x)' = IF x = Copy(K(p)[2]) THEN CopyOf(p) ELSE Value(x)
      BY <1>1, <1>5, PutValue, Zenon
    <2>2. SettingInv' /\ Frame(p) /\ pc'[p] # "ns"
      BY <1>1, <1>5, <2>1, SecondWrite, Zenon
    <2>3. DOMAIN cfg' \subseteq Keys /\ \A k \in DOMAIN cfg' : cfg'[k] \in Text
      BY <1>2, <1>5, SettingTyped, Zenon DEF AccountInv
    <2> QED
      BY <1>1, <1>5, <2>2, <2>3, SettingStep, Zenon
  <1>6. CASE pc[p] = "sync" /\ Fail /\ Lost(p) /\ End(p, 500)
    BY <1>1, <1>6, LostInv
  <1>7. CASE pc[p] = "enter" /\ (End(p, 400) \/ End(p, 500)) /\ (Fine \/ Fail) /\ UNCHANGED accountVars
    BY <1>3, <1>7
  <1> QED
    BY <1>4, <1>5, <1>6, <1>7, ZenonT(60) DEF SetConfig, Enters

\* DeleteConfig.
LEMMA DeleteConfigInv ==
    ASSUME AccountInv, NEW p \in Procs, DeleteConfig(p)
    PROVE  AccountInv'
  <1>1. Op(p) = "delcfg" /\ Op(p) \in SettingOps /\ CopyOf(p) = None
    BY Zenon DEF DeleteConfig, Enters, SettingOps, CopyOf
  <1>2. K(p) \in Keys /\ K(p)[2] \in Text /\ req[p].val \in Text /\ Copy(K(p)[2]) \in Keys
    BY <1>1, SettingNamed, KeyFacts, Zenon DEF AccountInv
  <1>3. ASSUME pc[p] = "enter", NEW code \in Nat, End(p, code), Fine \/ Fail, UNCHANGED accountVars
        PROVE  AccountInv'
    BY <1>1, <1>3, PlainEnd, PlainInv, Zenon DEF AccountInv, Places, SettingPc
  <1>4. CASE /\ pc[p] = "enter" /\ Fine /\ DeleteConfigValue(K(p)) /\ Wrote(p, {K(p)})
             /\ IF K(p)[1] = "friday" THEN Step(p, "sync") ELSE End(p, 200)
    <2>1. \A x : Value(x)' = IF x = K(p) THEN CopyOf(p) ELSE Value(x)
      BY <1>1, <1>4, DropValue, Zenon
    <2>2. SettingInv' /\ Frame(p) /\ pc'[p] # "ns" /\ UNCHANGED tables
      BY <1>1, <1>4, <2>1, FirstWrite, Zenon
    <2>3. DOMAIN cfg' \subseteq Keys /\ \A k \in DOMAIN cfg' : cfg'[k] \in Text
      BY <1>2, <1>4, SettingTyped, Zenon DEF AccountInv
    <2> QED
      BY <1>1, <1>4, <2>2, <2>3, SettingStep, Zenon
  <1>5. CASE /\ pc[p] = "sync" /\ Fine /\ DeleteConfigValue(Copy(K(p)[2])) /\ End(p, 200)
             /\ UNCHANGED <<cached, tables>> /\ bypassed' = bypassed \cup {Copy(K(p)[2])}
             /\ unsynced' = IF Together(p, {K(p), Copy(K(p)[2])}) THEN unsynced \cup {K(p)[2]} ELSE unsynced
    <2>1. \A x : Value(x)' = IF x = Copy(K(p)[2]) THEN CopyOf(p) ELSE Value(x)
      BY <1>1, <1>5, DropValue, Zenon
    <2>2. SettingInv' /\ Frame(p) /\ pc'[p] # "ns"
      BY <1>1, <1>5, <2>1, SecondWrite, Zenon
    <2>3. DOMAIN cfg' \subseteq Keys /\ \A k \in DOMAIN cfg' : cfg'[k] \in Text
      BY <1>2, <1>5, SettingTyped, Zenon DEF AccountInv
    <2> QED
      BY <1>1, <1>5, <2>2, <2>3, SettingStep, Zenon
  <1>6. CASE pc[p] = "sync" /\ Fail /\ Lost(p) /\ End(p, 200)
    BY <1>1, <1>6, LostInv, Zenon
  <1> QED
    BY <1>3, <1>4, <1>5, <1>6 DEF DeleteConfig, Enters

\* SetNamespacedConfig: between the two steps the cache has no value, unless a request
\* that read the old one puts it back.
LEMMA SetNamespacedConfigInv ==
    ASSUME AccountInv, NEW p \in Procs, SetNamespacedConfig(p)
    PROVE  AccountInv'
  <1>1. Op(p) = "cacheset" /\ Op(p) \in SettingOps
    BY Zenon DEF SetNamespacedConfig, SettingOps
  <1>2. K(p) \in Keys /\ K(p)[2] \in Text /\ req[p].val \in Text
    BY <1>1, SettingNamed, Zenon DEF AccountInv
  <1>3. CASE /\ pc[p] = "enter" /\ Fine /\ Invalidate(K(p)) /\ Step(p, "write")
             /\ bypassed' = IF Together(p, {K(p)}) THEN bypassed \cup {K(p)} ELSE bypassed
             /\ UNCHANGED <<cfg, unsynced, tables>>
    <2>1. Frame(p) /\ at' = at /\ pc'[p] = "write"
      BY <1>3, GoesOn, Zenon DEF AccountInv, AccountPc
    <2>2. req' = req /\ \A q \in Procs : q # p => pc'[q] = pc[q] /\ at'[q] = at[q]
      BY <2>1, Zenon DEF Frame
    <2>3. \A x : Value(x)' = Value(x)
      BY <1>3, Zenon DEF Value
    <2>4. bypassed \subseteq bypassed' /\ unsynced' = unsynced
      BY <1>3, Zenon
    <2>5. DOMAIN cached' = DOMAIN cached \ {K(p)} /\ \A k \in DOMAIN cached' : cached'[k] = cached[k]
      BY <1>3, Zenon DEF Invalidate, Drop
    <2>6. \A q \in Procs : q # p => SettingAt(q)'
      BY <2>2, <2>3, <2>4, <2>5, ZenonT(60) DEF AccountInv, SettingInv, SettingAt, K, Op, CopyOf
    <2>7. SettingAt(p)'
      BY <1>1, <2>1, <2>2, <2>5, Zenon DEF SettingAt, SettingPc, K, Op
    <2>8. \A n \in Text, q \in Procs : Syncs(q, n) => Syncs(q, n)'
      BY <1>3, <2>2, Zenon DEF Syncs, K
    <2>9. SettingInv'
      BY <2>3, <2>4, <2>5, <2>6, <2>7, <2>8, Zenon DEF AccountInv, SettingInv
    <2>10. DOMAIN cfg' \subseteq Keys /\ \A k \in DOMAIN cfg' : cfg'[k] \in Text
      BY <1>3, Zenon DEF AccountInv, AccountTyped
    <2> QED
      BY <1>1, <1>3, <2>1, <2>9, <2>10, SettingStep, Zenon
  <1>4. CASE /\ pc[p] = "write" /\ Fine /\ SetConfigValue(K(p), req[p].val) /\ End(p, 200)
             /\ bypassed' = IF Together(p, {K(p)}) THEN bypassed \cup {K(p)} ELSE bypassed
             /\ UNCHANGED <<cached, tables>> /\ unsynced' = unsynced \cup {K(p)[2]}
    <2> DEFINE k == K(p)
    <2>1. Frame(p) /\ at' = at /\ pc'[p] = "done"
      BY <1>4, Ends DEF AccountInv
    <2>2. SettingAt(p)'
      BY <2>1, Zenon DEF SettingAt, SettingPc
    <2>3. \A x : Value(x)' = IF x = k THEN req[p].val ELSE Value(x)
      BY <1>4, PutValue, Zenon
    <2>4. bypassed \subseteq bypassed' /\ unsynced \subseteq unsynced' /\ k[2] \in unsynced' /\ UNCHANGED cached
      BY <1>4, Zenon
    <2>5. k \in DOMAIN cached => k \in bypassed'
      BY <1>4, <2>4, Zenon DEF AccountInv, SettingInv, SettingAt
    <2>6. ASSUME NEW q \in Procs, q # p, pc[q] = "cache", K(q) = k
          PROVE  k \in bypassed'
      <3>1. Together(p, {K(p)})
        BY <2>6, Others, Zenon DEF AccountInv, SettingPc
      <3> QED
        BY <1>4, <3>1, Zenon
    <2>7. \A n \in Text : (k = Friday(n) \/ k = Copy(n)) => n \in unsynced'
      BY <2>4, KeyFacts
    <2>8. k \in Keys /\ pc[p] # "sync"
      BY <1>2, <1>4, Zenon
    <2> HIDE DEF k
    <2>9. SettingInv'
      BY <2>1, <2>2, <2>3, <2>4, <2>5, <2>6, <2>7, <2>8, WriteSetting, Zenon DEF AccountInv
    <2>10. DOMAIN cfg' \subseteq Keys /\ \A x \in DOMAIN cfg' : cfg'[x] \in Text
      BY <1>2, <1>4, SettingTyped, Zenon DEF AccountInv
    <2> QED
      BY <1>1, <1>4, <2>1, <2>9, <2>10, SettingStep, Zenon
  <1>5. CASE /\ pc[p] = "write" /\ Fail /\ UNCHANGED <<cfg, unsynced>> /\ End(p, 500)
             /\ bypassed' = IF Together(p, {K(p)}) THEN bypassed \cup {K(p)} ELSE bypassed
             /\ UNCHANGED <<cached, tables>>
    <2>1. Frame(p) /\ at' = at /\ pc'[p] = "done"
      BY <1>5, Ends DEF AccountInv
    <2>2. req' = req /\ \A q \in Procs : q # p => pc'[q] = pc[q] /\ at'[q] = at[q]
      BY <2>1, Zenon DEF Frame
    <2>3. \A x : Value(x)' = Value(x)
      BY <1>5, Zenon DEF Value
    <2>4. bypassed \subseteq bypassed' /\ unsynced' = unsynced /\ cached' = cached
      BY <1>5, Zenon
    <2>5. \A q \in Procs : q # p => SettingAt(q)'
      BY <2>2, <2>3, <2>4 DEF AccountInv, SettingInv, SettingAt, K, Op, CopyOf
    <2>6. SettingAt(p)'
      BY <2>1, Zenon DEF SettingAt, SettingPc
    <2>7. \A n \in Text, q \in Procs : Syncs(q, n) => Syncs(q, n)'
      BY <1>5, <2>2, Zenon DEF Syncs, K
    <2>8. SettingInv'
      BY <2>3, <2>4, <2>5, <2>6, <2>7, Zenon DEF AccountInv, SettingInv
    <2>9. DOMAIN cfg' \subseteq Keys /\ \A k \in DOMAIN cfg' : cfg'[k] \in Text
      BY <1>5, Zenon DEF AccountInv, AccountTyped
    <2> QED
      BY <1>1, <1>5, <2>1, <2>8, <2>9, SettingStep, Zenon
  <1> QED
    BY <1>3, <1>4, <1>5, Zenon DEF SetNamespacedConfig

\* GetNamespacedConfig: what was read is cached as long as nobody wrote in between.
LEMMA GetNamespacedConfigInv ==
    ASSUME AccountInv, NEW p \in Procs, GetNamespacedConfig(p)
    PROVE  AccountInv'
  <1>1. Op(p) = "cacheget" /\ Op(p) \in SettingOps
    BY Zenon DEF GetNamespacedConfig, SettingOps
  <1>2. K(p) \in Keys /\ K(p)[2] \in Text
    BY <1>1, SettingNamed, Zenon DEF AccountInv
  <1>3. ASSUME UNCHANGED accountVars, Frame(p), pc[p] \in {"enter", "read"}, SettingAt(p)', pc'[p] # "ns"
        PROVE  AccountInv'
    <2>1. UNCHANGED settings /\ UNCHANGED tables /\ UNCHANGED cfg
      BY <1>3, Zenon DEF accountVars, settings, tables
    <2>2. SettingInv'
      BY <1>3, <2>1, SettingsRest, Zenon DEF AccountInv
    <2>3. DOMAIN cfg' \subseteq Keys /\ \A k \in DOMAIN cfg' : cfg'[k] \in Text
      BY <2>1, Zenon DEF AccountInv, AccountTyped
    <2> QED
      BY <1>1, <1>3, <2>1, <2>2, <2>3, SettingStep, Zenon
  <1>4. ASSUME UNCHANGED accountVars, pc[p] \in {"enter", "read"}, NEW code \in Nat, End(p, code), Fine \/ Fail
        PROVE  AccountInv'
    <2>1. Frame(p) /\ pc'[p] = "done"
      BY <1>4, Ends, Zenon DEF AccountInv
    <2>2. SettingAt(p)'
      BY <2>1, Zenon DEF SettingAt, SettingPc
    <2> QED
      BY <1>3, <1>4, <2>1, <2>2, Zenon
  <1>5. CASE pc[p] = "enter" /\ Fine /\ UNCHANGED accountVars /\ Step(p, "read")
    <2>1. Frame(p) /\ pc'[p] = "read"
      BY <1>5, GoesOn, Zenon DEF AccountInv, AccountPc
    <2>2. SettingAt(p)'
      BY <1>1, <2>1, Zenon DEF SettingAt, Frame, Op
    <2> QED
      BY <1>3, <1>5, <2>1, <2>2, Zenon
  <1>6. CASE /\ pc[p] = "read" /\ UNCHANGED accountVars /\ Fine /\ K(p) \in DOMAIN cfg
             /\ at' = [at EXCEPT ![p].val = cfg[K(p)]] /\ Goto(p, "cache") /\ UNCHANGED <<req, resp>>
    <2>1. cfg[K(p)] \in Text
      BY <1>6, Zenon DEF AccountInv, AccountTyped
    <2>2. at' \in [Procs -> AccountRec] /\ at'[p].val = cfg[K(p)] /\ \A q \in Procs : q # p => at'[q] = at[q]
      BY <1>6, <2>1, LocalTyped, Zenon DEF AccountInv
    <2>3. Frame(p) /\ pc'[p] = "cache"
      BY <1>6, <2>2, GoesTo, Zenon DEF AccountInv, AccountPc
    <2>4. req' = req /\ Value(K(p))' = cfg[K(p)]
      BY <1>6, Zenon DEF Value, accountVars, K
    <2>5. SettingAt(p)'
      BY <1>1, <2>2, <2>3, <2>4, Zenon DEF SettingAt, SettingPc, K, Op
    <2> QED
      BY <1>3, <1>6, <2>3, <2>5, Zenon
  <1>7. CASE /\ pc[p] = "cache" /\ Fine /\ cached' = Put(cached, K(p), at[p].val) /\ End(p, 200)
             /\ bypassed' = IF Together(p, {K(p)}) THEN bypassed \cup {K(p)} ELSE bypassed
             /\ UNCHANGED <<cfg, unsynced, tables>>
    <2>1. Frame(p) /\ at' = at /\ pc'[p] = "done"
      BY <1>7, Ends DEF AccountInv
    <2>2. req' = req /\ \A q \in Procs : q # p => pc'[q] = pc[q] /\ at'[q] = at[q]
      BY <2>1, Zenon DEF Frame
    <2>3. \A x : Value(x)' = Value(x)
      BY <1>7, Zenon DEF Value
    <2>4. bypassed \subseteq bypassed' /\ unsynced' = unsynced
      BY <1>7, Zenon
    <2>5. /\ DOMAIN cached' = DOMAIN cached \cup {K(p)} /\ cached'[K(p)] = at[p].val
          /\ \A k \in DOMAIN cached : k # K(p) => cached'[k] = cached[k]
      BY <1>7, Zenon DEF Put
    <2>6. at[p].val = Value(K(p)) \/ K(p) \in bypassed
      BY <1>7, Zenon DEF AccountInv, SettingInv, SettingAt
    <2>7. ASSUME NEW q \in Procs, q # p
          PROVE  SettingAt(q)'
      <3>1. SettingAt(q) /\ K(q)' = K(q) /\ Op(q)' = Op(q) /\ CopyOf(q)' = CopyOf(q)
        BY <2>2, Zenon DEF AccountInv, SettingInv, K, Op, CopyOf
      <3>2. pc[q] = "write" /\ K(q) = K(p) => K(p) \in bypassed'
        <4> SUFFICES ASSUME pc[q] = "write", K(q) = K(p) PROVE K(p) \in bypassed'
          BY Zenon
        <4>1. Together(p, {K(p)})
          BY <2>7, Others, Zenon DEF AccountInv, SettingPc
        <4> QED
          BY <1>7, <4>1, Zenon
      <3> QED
        BY <2>2, <2>3, <2>4, <2>5, <2>7, <3>1, <3>2, Zenon DEF SettingAt
    <2>8. SettingAt(p)'
      BY <2>1, Zenon DEF SettingAt, SettingPc
    <2>9. \A n \in Text, q \in Procs : Syncs(q, n) => Syncs(q, n)'
      BY <1>7, <2>2, Zenon DEF Syncs, K
    <2>10. \A k \in DOMAIN cached' : k \in bypassed' \/ cached'[k] = Value(k)'
      BY <2>3, <2>4, <2>5, <2>6, Zenon DEF AccountInv, SettingInv
    <2>11. SettingInv'
      BY <2>3, <2>4, <2>7, <2>8, <2>9, <2>10, Zenon DEF AccountInv, SettingInv
    <2>12. DOMAIN cfg' \subseteq Keys /\ \A k \in DOMAIN cfg' : cfg'[k] \in Text
      BY <1>7, Zenon DEF AccountInv, AccountTyped
    <2> QED
      BY <1>1, <1>7, <2>1, <2>11, <2>12, SettingStep, Zenon
  <1> QED
    BY <1>4, <1>5, <1>6, <1>7 DEF GetNamespacedConfig

----------------------------------------------------------------------------
(* Messages. *)

\* The rest of a list has all but its head.
LEMMA RestOfList ==
    ASSUME NEW s \in Seq(Nat), s # <<>>, NEW i \in Asked(s), i # Head(s)
    PROVE  i \in Asked(Tail(s))
  <1>1. PICK j \in 1 .. Len(s) : s[j] = i
    BY DEF Asked
  <1>2. j # 1 /\ j - 1 \in 1 .. Len(Tail(s)) /\ Tail(s)[j - 1] = i
    BY <1>1
  <1>3. j - 1 \in DOMAIN Tail(s)
    BY <1>2
  <1> QED
    BY <1>2, <1>3, Zenon DEF Asked

\* A step on messages does not touch the other tables.
LEMMA MessageStep ==
    ASSUME AccountInv, NEW p \in Procs, Frame(p), UNCHANGED <<user, owner, google, orphaned, settings>>,
           Op(p) = "readmsgs", pc[p] \in {"enter", "mark"}, pc'[p] \in {"mark", "done"},
           DOMAIN msg' = DOMAIN msg, msg' \in Seq({"unread", "read"}),
           \A i \in DOMAIN msg : msg[i] = "read" => msg'[i] = "read", MessageAt(p)'
    PROVE  AccountInv'
  <1>1. req' = req /\ \A q \in Procs : q # p => pc'[q] = pc[q] /\ at'[q] = at[q]
    BY Zenon DEF Frame
  <1>2. faults' \in Nat /\ (faults' = 0 => faults = 0)
    BY DEF Frame, AccountInv, AccountTyped
  <1>3. AccountTyped'
    BY <1>1, <1>2, Zenon DEF AccountInv, AccountTyped, Frame, settings
  <1>4. \A q \in Procs : q # p => MessageAt(q)'
    BY <1>1, <1>2, ZenonT(60) DEF AccountInv, MessageInv, MessageAt, Op, Authorized
  <1>5. SettingAt(p)'
    BY Zenon DEF SettingAt, SettingPc
  <1> QED
    BY <1>3, <1>4, <1>5, SettingsRest, UsersRest, Zenon DEF AccountInv, MessageInv

\* ReadMessages: what is not read yet is still on the list.
LEMMA ReadMessagesInv ==
    ASSUME AccountInv, NEW p \in Procs, ReadMessages(p)
    PROVE  AccountInv'
  <1>1. Op(p) = "readmsgs" /\ req[p].ids \in Seq(Nat) /\ at[p].ids \in Seq(Nat)
    BY Zenon DEF ReadMessages, Enters, AccountInv, AccountTyped, Proper, AccountRec, Op
  <1>2. CASE pc[p] = "enter" /\ Fine /\ req[p].ids = <<>> /\ End(p, 400) /\ UNCHANGED accountVars
    BY <1>2, PlainEnd, PlainInv DEF AccountInv, Places, SettingPc
  <1>3. CASE /\ pc[p] = "enter" /\ Fine /\ UNCHANGED accountVars /\ UNCHANGED <<req, resp>>
             /\ Goto(p, "mark") /\ at' = [at EXCEPT ![p].ids = req[p].ids]
    <2>1. at' \in [Procs -> AccountRec] /\ at'[p].ids = req[p].ids /\ \A q \in Procs : q # p => at'[q] = at[q]
      BY <1>1, <1>3, LocalTyped, Zenon DEF AccountInv
    <2>2. Frame(p) /\ pc'[p] = "mark" /\ req' = req
      BY <1>3, <2>1, GoesTo, Zenon DEF AccountInv, AccountPc
    <2>3. UNCHANGED <<user, owner, google, orphaned, settings>> /\ msg' = msg /\ msg \in Seq({"unread", "read"})
      BY <1>3, Zenon DEF accountVars, settings, AccountInv, AccountTyped
    <2>4. MessageAt(p)'
      BY <2>1, <2>2, <2>3, Zenon DEF MessageAt
    <2> QED
      BY <1>1, <1>3, <2>2, <2>3, <2>4, MessageStep, Zenon
  <1>4. ASSUME pc[p] = "mark", UNCHANGED <<user, owner, google, orphaned, settings, req>>
        PROVE  AccountInv'
    <2>0. msg \in Seq({"unread", "read"})
      BY Zenon DEF AccountInv, AccountTyped
    <2>1. CASE at[p].ids = <<>> /\ Fine /\ UNCHANGED <<msg, at>> /\ Reply(p, 200)
      <3>1. Frame(p) /\ pc'[p] = "done" /\ at' = at /\ req' = req /\ faults' = faults
        BY <1>4, <2>1, Ends DEF End, AccountInv, Fine
      <3>2. Asked(at[p].ids) = {}
        BY <2>1 DEF Asked
      <3>3. MessageAt(p)'
        BY <1>4, <2>1, <3>1, <3>2, Zenon DEF MessageAt, AccountInv, MessageInv, Op, Authorized
      <3> QED
        BY <1>1, <1>4, <2>0, <2>1, <3>1, <3>3, MessageStep, Zenon
    <2>2. CASE at[p].ids # <<>> /\ UNCHANGED <<pc, resp>> /\ at' = [at EXCEPT ![p].ids = Tail(@)]
      <3>1. Tail(at[p].ids) \in Seq(Nat) /\ at' = [at EXCEPT ![p].ids = Tail(at[p].ids)]
        BY <1>1, <2>2
      <3>2. /\ at' \in [Procs -> AccountRec] /\ at'[p].ids = Tail(at[p].ids)
            /\ \A q \in Procs : q # p => at'[q] = at[q]
        BY <3>1, LocalTyped, Zenon DEF AccountInv
      <3>3. pc' = pc /\ pc \in [Procs -> AccountPc] /\ req' = req /\ faults \in Nat
        BY <1>4, <2>2, Zenon DEF AccountInv, AccountTyped
      <3>4. CASE Fine /\ MarkRead(Head(at[p].ids))
        <4>1. Frame(p) /\ pc'[p] = "mark" /\ faults' = faults
          BY <1>4, <3>2, <3>3, <3>4, Zenon DEF Frame, Fine
        <4>2. /\ DOMAIN msg' = DOMAIN msg /\ msg' \in Seq({"unread", "read"})
              /\ \A i \in DOMAIN msg : msg[i] = "read" => msg'[i] = "read"
              /\ \A i \in DOMAIN msg : i = Head(at[p].ids) => msg'[i] = "read"
          BY <2>0, <3>4 DEF MarkRead
        <4>3. \A i \in Asked(at[p].ids) : i = Head(at[p].ids) \/ i \in Asked(Tail(at[p].ids))
          BY <1>1, <2>2, RestOfList, Zenon
        <4>4. MessageAt(p)'
          BY <1>4, <3>2, <3>3, <4>1, <4>2, <4>3, Zenon DEF MessageAt, AccountInv, MessageInv, Op, Authorized
        <4> QED
          BY <1>1, <1>4, <4>1, <4>2, <4>4, MessageStep, Zenon
      <3>5. CASE Fail /\ UNCHANGED msg
        <4>1. Frame(p) /\ pc'[p] = "mark" /\ faults' # 0
          BY <1>4, <3>2, <3>3, <3>5 DEF Frame, Fail
        <4>2. MessageAt(p)'
          BY <4>1, Zenon DEF MessageAt
        <4> QED
          BY <1>1, <1>4, <2>0, <3>5, <4>1, <4>2, MessageStep, Zenon
      <3> QED
        BY <2>2, <3>4, <3>5, <1>4, Zenon DEF ReadMessages, Enters
    <2> QED
      BY <1>4, <2>1, <2>2, Zenon DEF ReadMessages, Enters
  <1> QED
    BY <1>2, <1>3, <1>4, Zenon DEF ReadMessages, Enters

\* A new message is unread, and nobody has asked for it.
LEMMA RecordNotificationInv ==
    ASSUME AccountInv, RecordNotification
    PROVE  AccountInv'
  <1> DEFINE new == Len(msg) + 1
  <1>1. msg \in Seq({"unread", "read"}) /\ msg' = Append(msg, "unread") /\ new \in 1 .. 3
    BY DEF RecordNotification, AccountInv, AccountTyped
  <1>2. /\ msg' \in Seq({"unread", "read"}) /\ new \notin DOMAIN msg
        /\ DOMAIN msg' = DOMAIN msg \cup {new} /\ \A i \in DOMAIN msg : msg'[i] = msg[i]
    BY <1>1, NextNumber
  <1> HIDE DEF new
  <1>3. UNCHANGED <<req, pc, at, faults, user, owner, orphaned, settings>>
    BY Zenon DEF RecordNotification, handlerVars
  <1>4. DOMAIN msg' = DOMAIN msg \cup {new} /\ \A i \in DOMAIN msg : msg'[i] = msg[i]
    BY <1>2, Zenon
  <1>5. \A p \in Procs : Proper(req[p], DOMAIN msg)' /\ (Op(p) = "readmsgs" => new \notin Asked(req[p].ids))
    <2> TAKE p \in Procs
    <2>1. Proper(req[p], DOMAIN msg)
      BY Zenon DEF AccountInv, AccountTyped
    <2> QED
      BY <1>1, <1>2, <1>3, <1>4, <2>1, Zenon DEF Proper, Op
  <1>6. AccountTyped'
    BY <1>1, <1>2, <1>3, <1>5, Zenon DEF AccountInv, AccountTyped, settings
  <1>7. MessageInv'
    <2> SUFFICES ASSUME NEW p \in Procs
                 PROVE  MessageAt(p)'
      BY Zenon DEF MessageInv
    <2>1. MessageAt(p)
      BY Zenon DEF AccountInv, MessageInv
    <2>2. Op(p) = "readmsgs" =>
            \A i \in Asked(req[p].ids) \cap DOMAIN msg' : i \in DOMAIN msg /\ msg'[i] = msg[i]
      BY <1>4, <1>5, Zenon
    <2> QED
      BY <1>3, <2>1, <2>2, Zenon DEF MessageAt, Op, Authorized
  <1>8. SettingInv'
    BY <1>3, Zenon DEF AccountInv, SettingInv, SettingAt, Value, K, Op, CopyOf, Syncs, settings
  <1>9. UserInv'
    BY <1>3, Zenon DEF AccountInv, UserInv, UserAt, UserOwnsNamespace
  <1> QED
    BY <1>6, <1>7, <1>8, <1>9, Zenon DEF AccountInv

\* The cache forgets a value.
LEMMA ExpireInv ==
    ASSUME AccountInv, Expire
    PROVE  AccountInv'
  <1>1. UNCHANGED <<req, pc, at, faults, cfg, bypassed, unsynced, msg, user, owner, orphaned>>
    BY Zenon DEF Expire, handlerVars, tables
  <1>2. PICK x \in DOMAIN cached : cached' = Drop(cached, {x})
    BY Zenon DEF Expire
  <1>3. DOMAIN cached' \subseteq DOMAIN cached /\ \A k \in DOMAIN cached' : cached'[k] = cached[k]
    BY <1>2, Zenon DEF Drop
  <1>4. AccountTyped'
    BY <1>1, Zenon DEF AccountInv, AccountTyped
  <1>5. MessageInv'
    BY <1>1, Zenon DEF AccountInv, MessageInv, MessageAt, Op, Authorized
  <1>6. \A k : Value(k)' = Value(k)
    BY <1>1, Zenon DEF Value
  <1>7. SettingInv'
    BY <1>1, <1>3, <1>6, Zenon DEF AccountInv, SettingInv, SettingAt, K, Op, CopyOf, Syncs
  <1>8. UserInv'
    BY <1>1, Zenon DEF AccountInv, UserInv, UserAt, UserOwnsNamespace
  <1> QED
    BY <1>4, <1>5, <1>7, <1>8, Zenon DEF AccountInv

----------------------------------------------------------------------------
(* Accounts. *)

\* A step on users and namespaces does not touch the other tables.
LEMMA UserStep ==
    ASSUME AccountInv, NEW p \in Procs, Frame(p), KeepAccounts, Op(p) \in {"loginns", "delns"},
           pc[p] \in {"enter", "user", "ns"}, pc'[p] \in {"ns", "done"},
           user' \in Seq(UserRec), UserInv'
    PROVE  AccountInv'
  <1>1. req' = req /\ msg' = msg /\ UNCHANGED settings /\ faults' \in Nat
    BY DEF Frame, KeepAccounts, AccountInv, AccountTyped
  <1>2. AccountTyped'
    BY <1>1, Zenon DEF AccountInv, AccountTyped, Frame, settings
  <1>3. MessageAt(p)'
    BY <1>1, Zenon DEF MessageAt, Op
  <1>4. SettingAt(p)'
    BY Zenon DEF SettingAt, SettingPc
  <1> QED
    BY <1>1, <1>2, <1>3, <1>4, SettingsRest, MessagesRest, Zenon DEF AccountInv

\* CreateUserWithNamespace: the user is there before the namespace.
LEMMA CreateUserInv ==
    ASSUME AccountInv, NEW p \in Procs, Op(p) = "loginns", CreateUserWithNamespace(p)
    PROVE  AccountInv'
  <1>1. /\ req[p].sub \in Text /\ req[p].email \in Text /\ req[p].ns \in Text /\ at[p].uid \in Nat
        /\ user \in Seq(UserRec)
    BY Zenon DEF AccountInv, AccountTyped, Proper, AccountRec, Op
  <1>2. CASE pc[p] = "exists" /\ UNCHANGED accountVars
    <2>1. (\E code \in Nat : End(p, code) /\ (Fine \/ Fail)) \/ (Step(p, "user") /\ Fine)
      BY <1>2 DEF CreateUserWithNamespace
    <2>2. pc[p] \notin Places /\ "user" \notin Places
      BY <1>2, Zenon DEF Places, SettingPc
    <2> QED
      BY <1>2, <2>1, <2>2, PlainEnd, PlainStep, PlainInv, Zenon DEF AccountInv, AccountPc
  <1>3. CASE /\ pc[p] = "user" /\ KeepAccounts /\ UNCHANGED <<owner, orphaned, req, user, at>>
             /\ Reply(p, 500) /\ (Fail \/ Fine)
    <2>1. End(p, 500) /\ UNCHANGED accountVars
      BY <1>3, Zenon DEF End, KeepAccounts, accountVars, settings
    <2>2. pc[p] \notin Places
      BY <1>3, Zenon DEF Places, SettingPc
    <2> QED
      BY <1>3, <2>1, <2>2, PlainEnd, PlainInv DEF AccountInv
  <1>4. CASE /\ pc[p] = "user" /\ KeepAccounts /\ UNCHANGED <<owner, orphaned, req>> /\ Fine
             /\ user' = Append(user, [sub |-> Sub(p), email |-> req[p].email, ns |-> req[p].ns])
             /\ at' = [at EXCEPT ![p].uid = Len(user) + 1] /\ Goto(p, "ns") /\ UNCHANGED resp
    <2> DEFINE new == Len(user) + 1
               rec == [sub |-> Sub(p), email |-> req[p].email, ns |-> req[p].ns]
    <2>2. rec \in UserRec /\ rec.ns = req[p].ns
      BY <1>1, Zenon DEF UserRec, Sub
    <2>3. user' = Append(user, rec) /\ at' = [at EXCEPT ![p].uid = new]
      BY <1>4, Zenon
    <2> HIDE DEF rec
    <2>4. /\ new \in Nat /\ user' \in Seq(UserRec) /\ user'[new] = rec
          /\ DOMAIN user' = DOMAIN user \cup {new} /\ \A u \in DOMAIN user : user'[u] = user[u]
      BY <1>1, <2>2, <2>3, NextNumber
    <2> HIDE DEF new
    <2>5. at' \in [Procs -> AccountRec] /\ at'[p].uid = new /\ \A q \in Procs : q # p => at'[q] = at[q]
      BY <2>3, <2>4, LocalTyped, Zenon DEF AccountInv
    <2>6. Frame(p) /\ pc'[p] = "ns"
      BY <1>4, <2>5, GoesTo, Zenon DEF AccountInv, AccountPc
    <2>7. req' = req /\ \A q \in Procs : q # p => pc'[q] = pc[q]
      BY <2>6, Zenon DEF Frame
    <2>8. \A q \in Procs : UserAt(q)'
      BY <2>2, <2>4, <2>5, <2>6, <2>7 DEF AccountInv, UserInv, UserAt
    <2>9. ASSUME NEW u \in DOMAIN user'
          PROVE  \/ user'[u].ns \in DOMAIN owner' /\ owner'[user'[u].ns] = u
                 \/ u \in orphaned'
                 \/ \E q \in Procs : at'[q].uid = u /\ pc'[q] = "ns"
      <3>1. CASE u = new
        BY <2>5, <2>6, <3>1, Zenon
      <3>2. CASE u \in DOMAIN user
        <4>1. user'[u] = user[u] /\ owner' = owner /\ orphaned' = orphaned
          BY <1>4, <2>4, <3>2, Zenon
        <4>2. \A q \in Procs : pc[q] = "ns" => q # p
          BY <1>4, Zenon
        <4> QED
          BY <2>5, <2>7, <3>2, <4>1, <4>2, SMTT(30) DEF AccountInv, UserInv, UserOwnsNamespace
      <3> QED
        BY <2>4, <3>1, <3>2, Zenon
    <2>10. UserInv'
      BY <2>8, <2>9, Zenon DEF UserInv, UserOwnsNamespace
    <2> QED
      BY <1>4, <2>4, <2>6, <2>10, UserStep, Zenon
  <1>5. ASSUME pc[p] = "ns", KeepAccounts, UNCHANGED <<user, req>>, Frame(p), pc'[p] = "done",
               orphaned \subseteq orphaned',
               \A n \in DOMAIN owner : n \in DOMAIN owner' /\ owner'[n] = owner[n],
               \/ at[p].uid \in orphaned'
               \/ req[p].ns \in DOMAIN owner' /\ owner'[req[p].ns] = at[p].uid
        PROVE  AccountInv'
    <2>1. \A q \in Procs : q # p => pc'[q] = pc[q] /\ at'[q] = at[q]
      BY <1>5, Zenon DEF Frame
    <2>2. UserAt(p) /\ \A q \in Procs : UserAt(q)'
      BY <1>5, <2>1, Zenon DEF AccountInv, UserInv, UserAt
    <2>3. user[at[p].uid].ns = req[p].ns
      BY <1>5, <2>2, Zenon DEF UserAt
    <2>4. UserOwnsNamespace'
      BY <1>5, <2>1, <2>3 DEF AccountInv, UserInv, UserOwnsNamespace
    <2>5. UserInv'
      BY <2>2, <2>4, Zenon DEF UserInv
    <2> QED
      BY <1>1, <1>5, <2>5, UserStep, Zenon
  <1>6. CASE /\ pc[p] = "ns" /\ KeepAccounts /\ UNCHANGED <<user, req>> /\ (Fail \/ Fine)
             /\ orphaned' = orphaned \cup {at[p].uid} /\ UNCHANGED <<owner, at>> /\ Reply(p, 500)
    <2>1. Frame(p) /\ pc'[p] = "done"
      BY <1>6, Ends DEF End, AccountInv
    <2> QED
      BY <1>5, <1>6, <2>1, Zenon
  <1>7. CASE /\ pc[p] = "ns" /\ KeepAccounts /\ UNCHANGED <<user, req>> /\ Fine
             /\ CanCreate(req[p].ns) /\ owner' = Put(owner, req[p].ns, at[p].uid)
             /\ at' = [at EXCEPT ![p].tok = Token(at[p].uid)] /\ Reply(p, 200) /\ UNCHANGED orphaned
    <2>1. at[p].uid \in DOMAIN user
      BY <1>7, Zenon DEF AccountInv, UserInv, UserAt
    <2>2. Token(at[p].uid) \in Token0
      <3>1. user[at[p].uid] \in UserRec
        BY <1>1, <2>1
      <3> QED
        BY <1>1, <3>1, Zenon DEF Token, Token0, UserRec
    <2>3. at' \in [Procs -> AccountRec] /\ \A q \in Procs : q # p => at'[q] = at[q]
      BY <1>7, <2>2, LocalTyped, Zenon DEF AccountInv
    <2>4. Frame(p) /\ pc'[p] = "done"
      BY <1>7, <2>3, GoesTo, Zenon DEF AccountInv, Reply, AccountPc
    <2>5. \A n \in DOMAIN owner : n \in DOMAIN owner' /\ owner'[n] = owner[n]
      BY <1>7, Zenon DEF CanCreate, Put
    <2>6. req[p].ns \in DOMAIN owner' /\ owner'[req[p].ns] = at[p].uid
      BY <1>7, Zenon DEF Put
    <2> QED
      BY <1>5, <1>7, <2>4, <2>5, <2>6, Zenon
  <1> QED
    BY <1>2, <1>3, <1>4, <1>6, <1>7, Zenon DEF CreateUserWithNamespace

\* DeleteNamespace: its users are the exceptions.
LEMMA DeleteNamespaceInv ==
    ASSUME AccountInv, NEW p \in Procs, DeleteNamespace(p)
    PROVE  AccountInv'
  <1>1. Op(p) = "delns" /\ pc[p] = "enter" /\ KeepAccounts /\ UNCHANGED user
    BY Zenon DEF DeleteNamespace, Enters
  <1>2. PICK code \in Nat : End(p, code) /\ (Fine \/ Fail)
    BY DEF DeleteNamespace
  <1>3. Frame(p) /\ pc'[p] = "done" /\ at' = at
    BY <1>2, Ends, Zenon DEF AccountInv
  <1>4. req' = req /\ \A q \in Procs : q # p => pc'[q] = pc[q]
    BY <1>3, Zenon DEF Frame
  <1>5. \A u \in DOMAIN user :
          \/ u \in orphaned'
          \/ u \notin orphaned /\ (user[u].ns \in DOMAIN owner => user[u].ns \in DOMAIN owner' /\ owner'[user[u].ns] = owner[user[u].ns])
    BY DEF DeleteNamespace, Drop
  <1>6. \A q \in Procs : UserAt(q)'
    BY <1>1, <1>3, <1>4, Zenon DEF AccountInv, UserInv, UserAt
  <1>7. UserOwnsNamespace'
    BY <1>1, <1>3, <1>4, <1>5 DEF AccountInv, UserInv, UserOwnsNamespace
  <1>8. UserInv' /\ user' \in Seq(UserRec)
    BY <1>1, <1>6, <1>7, Zenon DEF UserInv, AccountInv, AccountTyped
  <1> QED
    BY <1>1, <1>3, <1>8, UserStep, Zenon

----------------------------------------------------------------------------
(* The theorems. *)

\* Tables that agree, and requests that have not begun.
LEMMA AccountInitInv ==
    ASSUME NEW table, ProperRows(table), NEW loads, ProperLoads(table, loads),
           InitHandlers(loads), at = [p \in Procs |-> AccountLocal], AccountInit(table)
    PROVE  AccountInv
  <1>1. /\ cfg = table.cfg /\ cached = table.cached /\ msg = table.msg /\ user = table.user /\ owner = table.owner
        /\ bypassed = {} /\ unsynced = {} /\ orphaned = {}
    BY Zenon DEF AccountInit
  <1>2. req \in loads /\ pc = [p \in Procs |-> "enter"] /\ faults = 0
    BY Zenon DEF InitHandlers
  <1>3. <<>> \in Seq(Nat) /\ "none" \in Text /\ "" \in Text
    <2>1. "none" \in Text /\ "" \in Text
      BY TextAssumption, Zenon
    <2>2. <<>> \in Seq(Nat)
      OBVIOUS
    <2> QED
      BY <2>1, <2>2, Zenon
  <1>4. AccountLocal \in AccountRec
    BY <1>3, Zenon DEF AccountLocal, AccountRec, Token0, None
  <1>5. \A p \in Procs : Proper(req[p], DOMAIN msg)
    BY <1>1, <1>2, Zenon DEF ProperLoads
  <1>6. DOMAIN cfg \subseteq Keys /\ \A k \in DOMAIN cfg : cfg[k] \in Text
    BY <1>1, Zenon DEF ProperRows, Keys
  <1>7. msg \in Seq({"unread", "read"}) /\ user \in Seq(UserRec)
    BY <1>1, Zenon DEF ProperRows, UserRec
  <1>8. AccountTyped
    <2>1. pc \in [Procs -> AccountPc] /\ at \in [Procs -> AccountRec] /\ faults \in Nat
      BY <1>2, <1>4, Zenon DEF AccountPc
    <2> QED
      BY <1>5, <1>6, <1>7, <2>1, Zenon DEF AccountTyped
  <1>9. \A p \in Procs : SettingAt(p) /\ MessageAt(p) /\ UserAt(p)
    BY <1>2, Zenon DEF SettingAt, SettingPc, MessageAt, UserAt
  <1>10. ASSUME NEW n \in Text
         PROVE  Value(Friday(n)) = Value(Copy(n))
    <2>1. CASE n \in {k[2] : k \in DOMAIN cfg}
      BY <1>1, <2>1, Zenon DEF ProperRows, Value
    <2>2. CASE n \notin {k[2] : k \in DOMAIN cfg}
      <3>1. Friday(n) \notin DOMAIN cfg /\ Copy(n) \notin DOMAIN cfg
        BY <2>2, KeyFacts
      <3> QED
        BY <3>1, Zenon DEF Value
    <2> QED
      BY <2>1, <2>2, Zenon
  <1>11. \A k \in DOMAIN cached : cached[k] = Value(k)
    BY <1>1, Zenon DEF ProperRows, Value
  <1>12. UserOwnsNamespace
    BY <1>1, Zenon DEF ProperRows, UserOwnsNamespace
  <1> QED
    BY <1>8, <1>9, <1>10, <1>11, <1>12, Zenon DEF AccountInv, SettingInv, MessageInv, UserInv

\* Every step of every handler keeps the invariant.
LEMMA AccountStepInv ==
    ASSUME AccountInv, NEW p \in Procs, AccountStep(p)
    PROVE  AccountInv'
  <1>1. CASE \/ Unauthorized(p) \/ GetConfig(p) \/ ListConfig(p) \/ GetGoogleAuthURL(p)
             \/ ListMyNamespace(p) \/ GetCurrentUser(p) \/ GetNamespace(p) \/ CreateNamespace(p)
    BY <1>1, ReadersPlain, PlainInv, Zenon DEF AccountInv
  <1>2. CASE ListMessages(p)
    BY <1>2, ListMessagesPlain, PlainInv, Zenon DEF AccountInv
  <1>3. CASE GoogleLogin(p)
    BY <1>3, LoginPlain, PlainInv, Zenon DEF AccountInv
  <1>4. CASE GoogleLoginWithNamespace(p)
    BY <1>4, LoginPlain, PlainInv, CreateUserInv, Zenon DEF AccountInv, GoogleLoginWithNamespace
  <1> QED
    BY Zenon, <1>1, <1>2, <1>3, <1>4, SetConfigInv, DeleteConfigInv, SetNamespacedConfigInv, GetNamespacedConfigInv,
       ReadMessagesInv, DeleteNamespaceInv DEF AccountStep

LEMMA AccountNextInv == AccountInv /\ [AccountNext]_<<handlerVars, accountVars>> => AccountInv'
  <1> SUFFICES ASSUME AccountInv, [AccountNext]_<<handlerVars, accountVars>> PROVE AccountInv'
    BY Zenon
  <1>1. CASE UNCHANGED <<handlerVars, accountVars>>
    <2>1. UNCHANGED <<req, pc, at, faults, cfg, cached, msg, user, owner, bypassed, unsynced, orphaned>>
      BY <1>1, Zenon DEF handlerVars, accountVars
    <2>2. AccountTyped'
      BY <2>1, Zenon DEF AccountInv, AccountTyped
    <2>3. SettingInv'
      BY <2>1, Zenon DEF AccountInv, SettingInv, SettingAt, Value, K, Op, CopyOf, Syncs
    <2>4. MessageInv'
      BY <2>1, Zenon DEF AccountInv, MessageInv, MessageAt, Op, Authorized
    <2>5. UserInv'
      BY <2>1, Zenon DEF AccountInv, UserInv, UserAt, UserOwnsNamespace
    <2> QED
      BY <2>2, <2>3, <2>4, <2>5, Zenon DEF AccountInv
  <1> QED
    BY <1>1, AccountStepInv, ExpireInv, RecordNotificationInv, Zenon DEF AccountNext, AccountEnv

\* The invariant is what the property says of a server at rest, and more.
LEMMA CopiesFollow == AccountInv => CopiesAgree
  <1> SUFFICES ASSUME AccountInv PROVE CopiesAgree
    BY Zenon
  <1>1. FridayIsSynced
    <2> SUFFICES ASSUME NEW k \in DOMAIN cfg, k[2] \notin unsynced, Done
                 PROVE  Value(Friday(k[2])) = Value(Copy(k[2]))
      BY Zenon DEF FridayIsSynced
    <2>1. k[2] \in Text
      BY Zenon DEF AccountInv, AccountTyped, Keys
    <2>2. \A p \in Procs : ~Syncs(p, k[2])
      BY Zenon DEF Done, Syncs
    <2> QED
      BY <2>1, <2>2, Zenon DEF AccountInv, SettingInv
  <1>2. CacheIsFresh
    BY Zenon DEF CacheIsFresh, AccountInv, SettingInv
  <1>3. AnsweredIsRead
    BY Zenon DEF AnsweredIsRead, AccountInv, MessageInv, MessageAt
  <1> QED
    BY <1>1, <1>2, <1>3, Zenon DEF CopiesAgree, AccountInv, UserInv

\* Settings and their copies, the cache and the table, users and their namespaces,
\* messages and what was answered agree, for any requests at the same time and any
\* failing calls (SetConfig, DeleteConfig, SetNamespacedConfig, GetNamespacedConfig,
\* ReadMessages, CreateUserWithNamespace, DeleteNamespace).
THEOREM CopiesCorrect ==
    ASSUME NEW table, ProperRows(table), NEW loads, ProperLoads(table, loads)
    PROVE  AccountSpec(table, loads) => []CopiesAgree
  <1>1. InitHandlers(loads) /\ at = [p \in Procs |-> AccountLocal] /\ AccountInit(table) => AccountInv
    BY AccountInitInv, Zenon
  <1> QED
    BY <1>1, AccountNextInv, CopiesFollow, PTL DEF AccountSpec
=============================================================================
