----------------------------- MODULE AdminServer -----------------------------
(***************************************************************************)
(* The REST server (cmd/apps/apis/rest/v1), the services other than files  *)
(* and chats, with the goroutines that share their state.  Requests of one *)
(* service do not touch the state of another.                              *)
(***************************************************************************)
EXTENDS Workflows, Accounts, Bootstrap

CONSTANTS
  WorkflowCases,    \* set of [env, loads]: what there is and the requests that come
  AccountCases,     \* the same for settings, messages and accounts
  BootCases,        \* commands -> what they are to do
  NoWorkflows       \* env of a server without workflows

\* The tables agree and the requests are bound, and the commands are such commands.
ASSUME CasesAssumption ==
  /\ \A c \in WorkflowCases : ProperStart(c.env) /\ Bound(c.loads)
  /\ \A c \in AccountCases : ProperRows(c.env) /\ ProperLoads(c.env, c.loads)
  /\ BootCases \subseteq [Cmds -> [serve : BOOLEAN, auto : BOOLEAN, ns : Namespaces]]

VARIABLE service    \* the service the requests of this behaviour are for

vars == <<service, handlerVars, workflowVars, accountVars, bootVars>>

NoBoot == BootInit({[c \in Cmds |-> Idle]}, {{}})
NoRequest == [p \in Procs |-> [op |-> "none"]]

InitWorkflows ==
  /\ service = "workflows" /\ AccountInit(NoAccounts) /\ NoBoot
  /\ \E c \in WorkflowCases :
       /\ InitHandlers(c.loads) /\ at = [p \in Procs |-> WorkflowLocal]
       /\ WorkflowInit(c.env)

InitAccounts ==
  /\ service = "accounts" /\ WorkflowInit(NoWorkflows) /\ NoBoot
  /\ \E c \in AccountCases :
       /\ InitHandlers(c.loads) /\ at = [p \in Procs |-> AccountLocal]
       /\ AccountInit(c.env)

InitBoot ==
  /\ service = "boot" /\ WorkflowInit(NoWorkflows) /\ AccountInit(NoAccounts)
  /\ InitHandlers({NoRequest}) /\ at = [p \in Procs |-> AccountLocal]
  /\ BootInit(BootCases, {{}, {"personal"}})

Init == InitWorkflows \/ InitAccounts \/ InitBoot

Goes ==
  /\ UNCHANGED service
  /\ \/ /\ service = "workflows" /\ UNCHANGED <<accountVars, bootVars>>
        /\ (\E p \in Procs : WorkflowStep(p)) \/ WorkflowActor
     \/ /\ service = "accounts" /\ UNCHANGED <<workflowVars, bootVars>>
        /\ \E p \in Procs : AccountStep(p)
     \/ /\ service = "boot" /\ UNCHANGED <<handlerVars, workflowVars, accountVars>>
        /\ \E c \in Cmds : BootStep(c)

Happens ==
  /\ UNCHANGED service
  /\ \/ service = "workflows" /\ UNCHANGED <<accountVars, bootVars>> /\ WorkflowEnv
     \/ service = "accounts" /\ UNCHANGED <<workflowVars, bootVars>> /\ AccountEnv
     \/ service = "boot" /\ UNCHANGED <<handlerVars, workflowVars, accountVars>> /\ BootEnv

Next == Goes \/ Happens

\* Every goroutine that can go on does; a request takes a bounded number of steps, and
\* so do the others.
Starts == service = "workflows" /\ Start /\ UNCHANGED <<service, accountVars, bootVars>>
Fairness == WF_vars(Goes) /\ WF_vars(Starts)

Spec == Init /\ [][Next]_vars /\ Fairness

----------------------------------------------------------------------------
(* Properties. *)

\* Every request is answered, unless the runtime stops the server or a handler waits
\* for room in the channel of a timer that waits for the mutex the handler holds
\* (handleWorkflowUpdate, runWorkflowTimer); and a server that is started again after
\* every failure comes up, whatever it and another command left behind
\* (ensureAutoInitNamespace, NewFileSystem).
ServerAnswers ==
  <>[](IF service = "boot" THEN \A c \in Cmds : does[c].serve => In(c, "serving")
       ELSE fatal \/ Stuck \/ \A p \in Procs : pc[p] = "done")
=============================================================================
