------------------------------ MODULE Bootstrap ------------------------------
(***************************************************************************)
(* First steps of a server and of the command "namespace" (root.go of      *)
(* cmd/apps): the root entry, the root entries of namespaces, their groups *)
(* .inbox and .friday (core.go of pkg/core) and their workflows            *)
(* (defaults.go of workflow).  Two commands may run at the same time on    *)
(* one metastore; each may be stopped anywhere and started again.          *)
(***************************************************************************)
EXTENDS Naturals, Sequences

CONSTANTS
  Cmds,         \* the commands
  MaxStops,     \* calls that fail and kills, together
  MaxActs       \* what users do: start a command, change a workflow

VARIABLES
  does,         \* command -> [serve, auto, ns]
  step,         \* command -> what it does next
  root,         \* the entry with id 1 is in the metastore
  knows,        \* command -> core.root is set
  nsRoot,       \* namespaces with a root entry
  groups,       \* namespace -> groups below its root
  default,      \* namespace -> workflow -> "none", "default" or "changed"
  stops, acts,
  long,         \* namespaces whose workflow docloader has an id of more than 37 characters
  half          \* ghost: namespaces whose creation stopped after the root entry

bootVars == <<does, step, root, knows, nsRoot, groups, default, stops, acts, long, half>>

Namespaces == {"default", "personal"}
BuildInGroups == <<".inbox", ".friday">>
DefaultWorkflows == <<"rss", "docloader">>

\* step: what the command is after (goal), where it is (pc) and in which loop pass (i).
Stage(g, l, n) == [goal |-> g, pc |-> l, i |-> n]
Target(c) == IF step[c].goal = "namespace" THEN does[c].ns ELSE IF step[c].goal = "check" THEN "personal" ELSE "default"
In(c, l) == step[c].pc = l
ToStep(c, s) == step' = [step EXCEPT ![c] = s]
ToPc(c, l) == ToStep(c, Stage(step[c].goal, l, 1))
Works(c) == step[c].pc \notin {"idle", "exit"}

Succeeds == UNCHANGED stops
Breaks == stops < MaxStops /\ stops' = stops + 1

\* The command ends, and nobody takes up what it has begun.
HalfWay(c) == IF In(c, "group") THEN half \cup {Target(c)} ELSE half
Quit(c) ==
  /\ ToStep(c, Stage("none", "idle", 1)) /\ knows' = [knows EXCEPT ![c] = FALSE]
  /\ half' = HalfWay(c)
  /\ UNCHANGED <<does, root, nsRoot, groups, default, acts, long>>

FirstStep(c) ==
  IF ~does[c].serve THEN Stage("namespace", "root", 1)
  ELSE IF does[c].auto THEN Stage("check", "root", 1) ELSE Stage("fs", "root", 1)

KeepRows == UNCHANGED <<does, acts, long>>

Begins(c) ==
  /\ In(c, "idle") /\ ToStep(c, FirstStep(c))
  /\ UNCHANGED <<does, root, knows, nsRoot, groups, default, stops, long, half>>

Acts == acts < MaxActs /\ acts' = acts + 1

\* A server is started again, a command is when the user repeats it.
StartServer(c) == does[c].serve /\ Begins(c) /\ UNCHANGED acts
StartCommand(c) == ~does[c].serve /\ Acts /\ Begins(c)

Kill(c) == Works(c) /\ Breaks /\ Quit(c)

----------------------------------------------------------------------------
\* CreateNamespace returned without an error: createNamespace goes on with the
\* workflows, NewFileSystem is done.
Created(c) == IF step[c].goal = "fs" THEN Stage("fs", "serving", 1) ELSE Stage(step[c].goal, "workflow", 1)

\* NamespaceRoot found the root entry: ensureAutoInitNamespace has nothing to do.
Found(c) == IF step[c].goal = "check" THEN Stage("fs", "root", 1) ELSE Created(c)

\* NamespaceRoot returned an error: ensureAutoInitNamespace goes on after ErrNotFound
\* only, CreateNamespace always.
NotFound(c) == IF step[c].goal = "check" THEN Stage("create", "root", 1) ELSE Stage(step[c].goal, "nsroot", 1)
RootFails(c) ==
  IF step[c].goal = "check" THEN Quit(c)
  ELSE ToPc(c, "nsroot") /\ KeepRows /\ UNCHANGED <<root, knows, nsRoot, groups, default, half>>

\* FSRoot: the entry in memory, the one in the metastore, or a new one; of two commands
\* that create it one fails.
FSRoot(c) ==
  \/ /\ In(c, "root") /\ Succeeds /\ KeepRows /\ UNCHANGED <<root, nsRoot, groups, default, half>>
     /\ IF knows[c] \/ root THEN ToPc(c, "find") /\ knows' = [knows EXCEPT ![c] = TRUE]
        ELSE ToPc(c, "mkroot") /\ UNCHANGED knows
  \/ In(c, "root") /\ Breaks /\ ~knows[c] /\ RootFails(c)
  \/ /\ In(c, "mkroot") /\ ~root /\ Succeeds /\ root' = TRUE /\ knows' = [knows EXCEPT ![c] = TRUE]
     /\ ToPc(c, "find") /\ KeepRows /\ UNCHANGED <<nsRoot, groups, default, half>>
  \/ In(c, "mkroot") /\ ((Succeeds /\ root) \/ Breaks) /\ RootFails(c)

NamespaceRoot(c) ==
  \/ /\ In(c, "find") /\ Succeeds /\ KeepRows /\ UNCHANGED <<root, knows, nsRoot, groups, default, half>>
     /\ ToStep(c, IF Target(c) \in nsRoot THEN Found(c) ELSE NotFound(c))
  \/ In(c, "find") /\ Breaks /\ RootFails(c)

CanInsert(c) == root /\ Target(c) \notin nsRoot

\* The rest of CreateNamespace: the root entry of the namespace, then the groups; the
\* name below a parent is unique.
CreateNamespaceRoot(c) ==
  \/ /\ In(c, "nsroot") /\ CanInsert(c) /\ Succeeds
     /\ nsRoot' = nsRoot \cup {Target(c)} /\ ToPc(c, "group")
     /\ KeepRows /\ UNCHANGED <<root, knows, groups, default, half>>
  \/ /\ In(c, "nsroot")
     /\ Breaks \/ (Succeeds /\ ~CanInsert(c))
     /\ Quit(c)

\* Mutant: one group only.
AfterFirst(c, list) == TRUE

\* The loop has come to its last pass.
LastPass(c, list) == step[c].i = Len(list)
NextPass(c) == Stage(step[c].goal, step[c].pc, step[c].i + 1)

CreateBuildInGroup(c) ==
  \/ /\ In(c, "group") /\ Succeeds
     /\ groups' = [groups EXCEPT ![Target(c)] = @ \cup {BuildInGroups[step[c].i]}]
     /\ ToStep(c, IF LastPass(c, BuildInGroups) THEN Created(c) ELSE NextPass(c))
     /\ KeepRows /\ UNCHANGED <<root, knows, nsRoot, default, half>>
  \/ In(c, "group") /\ Breaks /\ Quit(c)

\* NamespaceDefaultsWorkflow and CreateWorkflow: the id of a default workflow is kept,
\* so a row there is is written anew; an id that is too long is refused.  The id of
\* docloader is the longer one.
CreateDefaultWorkflow(c) ==
  LET w == DefaultWorkflows[step[c].i]
  IN  \/ /\ In(c, "workflow") /\ Succeeds /\ ~(w = "docloader" /\ Target(c) \in long)
         /\ default' = [default EXCEPT ![Target(c)][w] = "default"]
         /\ ToStep(c, IF ~LastPass(c, DefaultWorkflows) THEN NextPass(c)
                      ELSE IF does[c].serve THEN Stage("fs", "root", 1) ELSE Stage("namespace", "exit", 1))
         /\ KeepRows /\ UNCHANGED <<root, knows, nsRoot, groups, half>>
      \/ /\ In(c, "workflow")
         /\ Breaks \/ (Succeeds /\ w = "docloader" /\ Target(c) \in long)
         /\ Quit(c)

\* A user changes a workflow through the server.
ChangeWorkflow ==
  /\ Acts /\ \E c \in Cmds : In(c, "serving")
  /\ \E n \in Namespaces, w \in {"rss", "docloader"} :
       default[n][w] = "default" /\ default' = [default EXCEPT ![n][w] = "changed"]
  /\ UNCHANGED <<does, step, root, knows, nsRoot, groups, stops, long, half>>

----------------------------------------------------------------------------
BootStep(c) ==
  \/ StartServer(c) \/ FSRoot(c) \/ NamespaceRoot(c)
  \/ CreateNamespaceRoot(c) \/ CreateBuildInGroup(c) \/ CreateDefaultWorkflow(c)

BootEnv == ChangeWorkflow \/ \E c \in Cmds : StartCommand(c) \/ Kill(c)

Idle == [serve |-> FALSE, auto |-> FALSE, ns |-> "default"]
BootInit(cases, longs) ==
  /\ does \in cases /\ long \in longs
  /\ step = [c \in Cmds |-> Stage("none", "idle", 1)]
  /\ root = FALSE /\ knows = [c \in Cmds |-> FALSE]
  /\ nsRoot = {} /\ groups = [n \in Namespaces |-> {}]
  /\ default = [n \in Namespaces |-> [w \in {"rss", "docloader"} |-> "none"]]
  /\ stops = 0 /\ acts = 0 /\ half = {}

BootNext == BootEnv \/ \E c \in Cmds : BootStep(c)
BootSpec(cases, longs) == BootInit(cases, longs) /\ [][BootNext]_bootVars

----------------------------------------------------------------------------
(* Properties. *)

\* A namespace has its groups once the command that creates it reports success or the
\* server runs, unless an earlier attempt stopped between root entry and groups, or
\* another one is still at it; a repetition finds the root entry and does not look for
\* the groups (CreateNamespace).
NamespaceIsWhole ==
  \A c \in Cmds :
    LET n == IF does[c].serve THEN "default" ELSE does[c].ns
    IN  In(c, "exit") \/ In(c, "serving") =>
          \/ groups[n] = {".inbox", ".friday"}
          \/ n \in half
          \/ \E d \in Cmds : In(d, "group") /\ Target(d) = n

\* A namespace has both workflows once the command reports success, or the server runs
\* that was to create them and did not find the namespace personal
\* (createNamespace, ensureAutoInitNamespace).
WorkflowsAreThere ==
  \A c \in Cmds :
    /\ In(c, "exit") => \A w \in {"rss", "docloader"} : default[does[c].ns][w] # "none"
    /\ (In(c, "serving") /\ does[c].auto /\ "personal" \notin nsRoot) =>
         \A w \in {"rss", "docloader"} : default["default"][w] # "none"

\* What a start or a command reported as ready is complete, and nothing is made in a
\* namespace without a root entry (CreateNamespace, createNamespace).
ReadyIsComplete ==
  /\ NamespaceIsWhole /\ WorkflowsAreThere
  /\ \A n \in Namespaces : groups[n] # {} => n \in nsRoot
=============================================================================
