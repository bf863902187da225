------------------------------ MODULE Handlers ------------------------------
(***************************************************************************)
(* Request handlers of the REST server: what the handlers of the services  *)
(* have in common (cmd/apps/apis/rest, gin as the router).  A request runs *)
(* in a goroutine of its own; a handler is a sequence of steps between     *)
(* which other goroutines run, and it ends by writing a status code.       *)
(***************************************************************************)
EXTENDS Naturals, Sequences

CONSTANTS
  Procs,        \* request goroutines, each serves one request
  MaxFaults(_)  \* requests -> number of calls to metastore or storage that may fail

VARIABLES
  req,          \* process -> the request it serves
  pc,           \* process -> next step of its handler
  at,           \* process -> local variables of its handler
  resp,         \* process -> status codes written so far
  faults        \* failed calls so far

handlerVars == <<req, pc, at, resp, faults>>

Op(p) == req[p].op
Caller(p) == req[p].caller

Goto(p, l) == pc' = [pc EXCEPT ![p] = l]
Answer(p, code) == resp' = [resp EXCEPT ![p] = Append(@, code)]
Reply(p, code) == Answer(p, code) /\ Goto(p, "done")

\* A call fails, or it does not.
Fail == faults < MaxFaults(req) /\ faults' = faults + 1
Fine == UNCHANGED faults

Put(table, key, val) == [k \in DOMAIN table \cup {key} |-> IF k = key THEN val ELSE table[k]]
Drop(table, keys) == [k \in DOMAIN table \ keys |-> table[k]]

InitHandlers(loads) ==
  /\ req \in loads
  /\ pc = [p \in Procs |-> "enter"]
  /\ resp = [p \in Procs |-> <<>>]
  /\ faults = 0
=============================================================================
