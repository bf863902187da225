----------------------------- MODULE RestServer -----------------------------
(***************************************************************************)
(* The REST server (cmd/apps/apis/rest/v1): the handlers of all services   *)
(* over the state of each.  Requests of one service do not touch the state *)
(* of another.                                                             *)
(***************************************************************************)
EXTENDS EntryService, Sessions

CONSTANTS
  EntryLoads, SessionLoads      \* sets of functions: process -> request

vars == <<handlerVars, entryVars, sessionVars>>

InitFor(loads, local(_)) == InitHandlers(loads) /\ at = [p \in Procs |-> local(req[p])]

Init ==
  /\ EntryInit
  /\ \/ InitFor(EntryLoads, EntryLocal) /\ SessionInit({}, 0)
     \/ /\ InitFor(SessionLoads, LAMBDA r : SessionLocal)
        /\ \E ids \in {{}, Sids \ Range(NewSid)}, f \in {0, Disabled} : SessionInit(ids, f)

Serves(p) == Op(p) \in {"chat", "newsession", "listsessions", "getsession", "rmsession", "rename"}

Step(p) ==
  \/ EntryStep(p) /\ UNCHANGED sessionVars
  \/ (SessionStep(p) \/ AgentStep(p)) /\ UNCHANGED entryVars

Next ==
  \/ \E p \in Procs : Step(p)
  \/ EntryCleaned /\ UNCHANGED sessionVars
  \/ Delivery /\ UNCHANGED entryVars

\* The goroutines of the sessions and their agents go on while one of them can: a
\* request takes a bounded number of steps, so no more fairness is needed.
SessionNext == (\E p \in Procs : SessionStep(p) \/ AgentStep(p)) /\ UNCHANGED entryVars

Fairness == WF_vars(SessionNext)

Spec == Init /\ [][Next]_vars /\ Fairness

----------------------------------------------------------------------------
(* Properties. *)

\* Every request to the sessions is answered, unless the server crashes: no handler
\* waits for the mutex of the store, for an event or for its agent for ever.
EveryChatIsAnswered == \A p \in Procs : <>(pc[p] = "done" \/ crashed \/ ~Serves(p))
=============================================================================
