------------------------------ MODULE Sessions ------------------------------
(***************************************************************************)
(* Chat sessions of the Friday assistant: the REST handlers                *)
(* (cmd/apps/apis/rest/v1/friday.go), the manager with one Friday per      *)
(* namespace, the store that keeps a session in a directory below          *)
(* /.friday/sessions (pkg/friday/session.go) and the events of the agent   *)
(* (pkg/events/friday.go).                                                 *)
(*                                                                         *)
(* A session is a directory with the files meta.json and history.jsonl.    *)
(* The store's mutex covers what writes them; GetSession, ListSessions and *)
(* GetMessages read without it.  History is counted in messages, and a     *)
(* write at an offset replaces what is there.  The language model is       *)
(* external: an agent publishes events, says something or not, and ends.   *)
(***************************************************************************)
EXTENDS Handlers, FiniteSets, SequencesExt

CONSTANTS
  Sids,         \* session ids
  NewSid,       \* process -> the id CreateSession draws
  MaxEvents,    \* events an agent publishes
  EventCap      \* capacity of the channel between event bus and handler

VARIABLES
  base,         \* /.friday/sessions exists
  session,      \* session id -> [meta, file, log], for the directories there are
  size,         \* session id -> size of its history in the entry cache, NotCached
  friday,       \* number of Friday instances made; the last one is in the map
  lock,         \* instance -> process that holds the mutex of its store
  agent,        \* process -> state of the agent that answers its chat
  sub,          \* process -> [open, buf]: its subscription and the events in the channel
  flight,       \* events on their way: set of <<event, subscriber>>
  crashed,      \* a goroutine panicked
  deleted,      \* ghost: sessions whose deletion was acknowledged
  missized,     \* ghost: sessions for which an outdated size was cached
  together,     \* ghost: sessions with two chats at the same time
  before        \* ghost: process -> chats that were over when its chat began

sessionVars == <<base, session, size, friday, lock, agent, sub, flight, crashed,
                 deleted, missized, together, before>>

Nobody == "nobody"
NotCached == 99
NoMeta == "none"
Disabled == 9                     \* no manager: the language model is not configured
Broken == {NoMeta, "empty"}       \* what json.Unmarshal refuses

Message(p, t) == [by |-> p, type |-> t, n |-> 0]
Event(p, k) == [by |-> p, type |-> "event", n |-> k]

KeepStore == UNCHANGED <<base, session, size>>
KeepChat == UNCHANGED <<agent, sub, flight, together, before>>
KeepRest == UNCHANGED <<req, crashed>>
Mine(p) == at[p].inst
Sid(p) == req[p].sid
Has(s) == s \in DOMAIN session

\* The parameters the handlers insist on.
Complete(r) ==
  /\ r.op \in {"chat", "getsession", "rmsession", "rename"} => r.sid # ""
  /\ r.op \in {"newsession", "rename"} => r.name # ""

----------------------------------------------------------------------------
(* The manager: look without the lock, look again with it. *)

\* The second half of GetFriday, under the mutex of the manager.
GetFridayLocked(p) ==
  /\ friday' = IF friday = 0 THEN 1 ELSE friday
  /\ at' = [at EXCEPT ![p].inst = friday']

\* What the handlers check before they ask for the assistant.
Refused(p) ==
  \/ friday = Disabled /\ Reply(p, 503)
  \/ friday # Disabled /\ ~Complete(req[p]) /\ Reply(p, 400)

GetFriday(p) ==
  /\ KeepStore /\ KeepChat /\ KeepRest /\ UNCHANGED <<lock, deleted, missized>>
  /\ \/ /\ pc[p] = "enter"
        /\ Fine /\ UNCHANGED friday
        /\ \/ Refused(p) /\ UNCHANGED at
           \/ /\ friday # Disabled /\ Complete(req[p]) /\ UNCHANGED resp
              /\ IF friday = 0 THEN Goto(p, "make") /\ UNCHANGED at
                 ELSE Goto(p, "start") /\ at' = [at EXCEPT ![p].inst = friday]
     \/ /\ pc[p] = "make"
        /\ \/ Fine /\ GetFridayLocked(p) /\ Goto(p, "start") /\ UNCHANGED resp
           \/ friday = 0 /\ Fail /\ UNCHANGED <<friday, at>> /\ Reply(p, 500)

----------------------------------------------------------------------------
(* The store. *)

Acquire(p) == lock[Mine(p)] = Nobody /\ lock' = [lock EXCEPT ![Mine(p)] = p]

\* Mutant: an error path keeps the mutex.
ReleaseNot(p) == UNCHANGED lock
Release(p) == lock' = [lock EXCEPT ![Mine(p)] = Nobody]

\* An error in a method that holds the mutex, which the defer gives back.
Abort(p) == Release(p) /\ Reply(p, 500) /\ UNCHANGED at

\* ensureSessionsDir.
ensureSessionsDir == base' = TRUE

\* CreateSession: the directory, an empty meta.json, its content, the history.
CreateSession(p) ==
  LET s == NewSid[p]
      set(x) == session' = Put(session, s, x)
      step(l) == /\ Goto(p, l) /\ UNCHANGED <<resp, at, lock>>
  IN  /\ KeepChat /\ KeepRest /\ UNCHANGED <<size, friday, deleted, missized>>
      /\ \/ /\ pc[p] = "start"
            /\ Acquire(p) /\ Fine /\ UNCHANGED <<resp, at, base, session>> /\ Goto(p, "mkdir")
         \/ /\ pc[p] \in {"mkdir", "meta", "write", "history"}
            /\ Fail /\ Abort(p) /\ UNCHANGED session
            /\ IF pc[p] = "mkdir" THEN base' \in {base, TRUE} ELSE UNCHANGED base
         \/ /\ pc[p] = "mkdir" /\ Fine /\ ensureSessionsDir
            /\ set([meta |-> NoMeta, file |-> FALSE, log |-> <<>>]) /\ step("meta")
         \/ /\ pc[p] = "meta" /\ Fine /\ UNCHANGED base
            /\ set([session[s] EXCEPT !.meta = "empty"]) /\ step("write")
         \/ /\ pc[p] = "write" /\ Fine /\ UNCHANGED base
            /\ set([session[s] EXCEPT !.meta = "name"]) /\ step("history")
         \/ /\ pc[p] = "history" /\ Fine /\ UNCHANGED <<base, at>>
            /\ set([session[s] EXCEPT !.file = TRUE]) /\ Release(p) /\ Reply(p, 200)

\* GetSession of the store: the meta data is there and can be parsed.
Readable(s) == Has(s) /\ session[s].meta \notin Broken

ListSessions(p) ==
  /\ pc[p] = "start"
  /\ KeepStore /\ KeepChat /\ KeepRest /\ UNCHANGED <<friday, lock, deleted, missized>>
  /\ \/ Fine /\ at' = [at EXCEPT ![p].out = {s \in Sids : Readable(s)}] /\ Reply(p, 200)
     \/ Fail /\ UNCHANGED at /\ Reply(p, 500)

\* DeleteSession: a session that is not found counts as deleted.
DeleteSession(p) ==
  LET s == Sid(p)
  IN  /\ KeepChat /\ KeepRest /\ UNCHANGED <<friday, missized, size, at>>
      /\ \/ /\ pc[p] = "start"
            /\ Acquire(p) /\ Fine /\ Goto(p, "remove") /\ UNCHANGED <<base, session, resp, deleted>>
         \/ /\ pc[p] = "remove" /\ Fine /\ ensureSessionsDir
            /\ session' = Drop(session, {s})
            /\ deleted' = deleted \cup {s}
            /\ Release(p) /\ Reply(p, 200)
         \/ /\ pc[p] = "remove" /\ Fail
            /\ UNCHANGED <<base, session, deleted>> /\ Release(p) /\ Reply(p, 500)

Renamed(p) == session' = [session EXCEPT ![Sid(p)].meta = req[p].name]

\* RenameSession: open with truncation, then write.
RenameSession(p) ==
  LET s == Sid(p)
  IN  /\ KeepChat /\ KeepRest /\ UNCHANGED <<friday, missized, size, at, deleted>>
      /\ \/ /\ pc[p] = "start"
            /\ Acquire(p) /\ Fine /\ Goto(p, "trunc") /\ UNCHANGED <<base, session, resp>>
         \/ /\ pc[p] = "trunc" /\ ensureSessionsDir
            /\ IF Readable(s)
               THEN \/ /\ Fine /\ session' = [session EXCEPT ![s].meta = "empty"]
                       /\ Goto(p, "write") /\ UNCHANGED <<lock, resp>>
                    \/ Fail /\ UNCHANGED session /\ Release(p) /\ Reply(p, 500)
               ELSE Fine /\ UNCHANGED session /\ Release(p) /\ Reply(p, 500)
         \/ /\ pc[p] = "write" /\ UNCHANGED base
            /\ \/ Fine /\ Renamed(p) /\ Release(p) /\ Reply(p, 200)
               \/ Fail /\ UNCHANGED session /\ Release(p) /\ Reply(p, 500)

\* The lookup that precedes a read fills the entry cache in two steps, without
\* the mutex: the size read first may be outdated when it is cached.
Lookup(p, s) == at' = [at EXCEPT ![p].n = Len(session[s].log)]

Cache(p, s) ==
  IF size[s] # NotCached THEN UNCHANGED <<size, missized>>
  ELSE /\ size' = [size EXCEPT ![s] = at[p].n]
       /\ missized' = IF Has(s) /\ at[p].n # Len(session[s].log) THEN missized \cup {s} ELSE missized

\* GetMessages: no file, no messages.
GetMessages(s) == IF Has(s) /\ session[s].file THEN session[s].log ELSE <<>>

\* GetSession of the handler: the meta data, then the messages.
GetSession(p) ==
  LET s == Sid(p)
  IN  /\ UNCHANGED <<base, session>> /\ KeepChat /\ KeepRest /\ UNCHANGED <<friday, lock, deleted>>
      /\ \/ /\ pc[p] = "start" /\ UNCHANGED <<size, missized>>
            /\ \/ Fine /\ ~Readable(s) /\ Reply(p, 404) /\ UNCHANGED at
               \/ Fine /\ Readable(s) /\ Lookup(p, s) /\ Goto(p, "messages") /\ UNCHANGED resp
               \/ Fail /\ Reply(p, 404) /\ UNCHANGED at
         \/ /\ pc[p] = "messages"
            /\ \/ Fine /\ Cache(p, s) /\ at' = [at EXCEPT ![p].seen = GetMessages(s)] /\ Reply(p, 200)
               \/ Fail /\ UNCHANGED <<at, size, missized>> /\ Reply(p, 500)

\* createOrGetEntry: a missing history is created in the directory above, as a
\* group, which cannot be opened: the message is lost.
createOrGetEntry(s) == Has(s) /\ session[s].file

\* Mutant: a missing history is created where it belongs.
OpenHistoryAnew(p, s) ==
  /\ session' = IF createOrGetEntry(s) THEN session ELSE Put(session, s, [meta |-> "name", file |-> TRUE, log |-> <<>>])
  /\ at' = [at EXCEPT ![p].off = IF Has(s) THEN Len(session[s].log) ELSE 0]
  /\ size' = [size EXCEPT ![s] = NotCached]

\* Open for writing takes the size from the cache for Seek(0, SeekEnd), and then
\* drops the cached entry.
OpenHistory(p, s) ==
  /\ createOrGetEntry(s)
  /\ at' = [at EXCEPT ![p].off = IF size[s] # NotCached THEN size[s] ELSE Len(session[s].log)]
  /\ size' = [size EXCEPT ![s] = NotCached]
  /\ UNCHANGED session

\* Write at the offset; what follows further on stays.
Written(log, off, msgs) == SubSeq(log, 1, off) \o msgs \o SubSeq(log, off + Len(msgs) + 1, Len(log))

\* AppendMessage: mutex, open, write and close, which commits the size.  The
\* continuation is chosen by the caller.
AppendMessage(p, s, msgs, from, failed, then) ==
  \/ /\ pc[p] = from /\ Acquire(p) /\ Fine
     /\ Goto(p, from \o "Open") /\ KeepStore /\ UNCHANGED <<at, resp>>
  \/ /\ pc[p] = from \o "Open" /\ ensureSessionsDir
     /\ \/ /\ Fine /\ OpenHistory(p, s)
           /\ Goto(p, from \o "Write") /\ UNCHANGED <<lock, resp>>
        \/ /\ IF createOrGetEntry(s) THEN Fail ELSE Fine
           /\ UNCHANGED <<at, size, session>> /\ Release(p) /\ failed
  \/ /\ pc[p] = from \o "Write" /\ UNCHANGED base
     /\ \/ /\ Fine
           /\ IF Has(s)
              THEN /\ session' = [session EXCEPT ![s].log = Written(@, at[p].off, msgs)]
                   /\ size' = [size EXCEPT ![s] = Len(session'[s].log)]
              ELSE UNCHANGED <<session, size>>
           /\ Release(p) /\ then /\ UNCHANGED at
        \/ Fail /\ UNCHANGED <<session, size, at>> /\ Release(p) /\ failed

----------------------------------------------------------------------------
(* Chat. *)

Talks(p) == Op(p) = "chat" /\ pc[p] \notin {"enter", "make", "start", "done"}

\* SessionMessageToMessage: an event becomes a message without content.
SessionMessageToMessage(m) == IF m.type \in {"user", "assistant", "tool"} THEN m ELSE [m EXCEPT !.type = ""]

\* OpenSession: the session must be readable; its messages are the agent's history.
OpenSession(p) ==
  LET s == Sid(p)
  IN  /\ UNCHANGED <<base, session, friday, lock, deleted, agent, sub, flight>> /\ KeepRest
      /\ \/ /\ pc[p] = "start" /\ UNCHANGED <<size, missized>>
            /\ \/ /\ Fine /\ Readable(s) /\ Lookup(p, s) /\ Goto(p, "open") /\ UNCHANGED resp
                  /\ together' = IF \E q \in Procs \ {p} : Talks(q) /\ Sid(q) = s
                                 THEN together \cup {s} ELSE together
                  /\ before' = [before EXCEPT ![p] = {q \in Procs : Op(q) = "chat" /\ Sid(q) = s /\ pc[q] = "done"}]
               \/ /\ IF Readable(s) THEN Fail ELSE Fine
                  /\ Reply(p, 500) /\ UNCHANGED <<at, together, before>>
         \/ /\ pc[p] = "open" /\ UNCHANGED <<together, before>>
            /\ \/ /\ Fine /\ Cache(p, s)
                  /\ at' = [at EXCEPT ![p].seen = [i \in DOMAIN GetMessages(s) |->
                                                    SessionMessageToMessage(GetMessages(s)[i])]]
                  /\ Goto(p, "subscribe") /\ UNCHANGED resp
               \/ Fail /\ Reply(p, 500) /\ UNCHANGED <<at, size, missized>>

\* The topic of an event names the session.
Subscribers(p) == {q \in Procs : sub[q].open /\ Sid(q) = Sid(p)}

\* PublishFridayEvent: one goroutine for every subscriber.
PublishFridayEvent(p) ==
  /\ agent[p].on /\ agent[p].events < MaxEvents
  /\ agent' = [agent EXCEPT ![p].events = @ + 1]
  /\ flight' = flight \cup ({Event(p, agent[p].events + 1)} \X Subscribers(p))
  /\ UNCHANGED <<handlerVars, base, session, size, friday, lock, sub, crashed, deleted, missized, together, before>>

\* The goroutine sends to the channel; once the handler has closed it, this panics.
Deliver(e, q) ==
  /\ <<e, q>> \in flight
  /\ \/ /\ sub[q].open /\ Len(sub[q].buf) < EventCap
        /\ sub' = [sub EXCEPT ![q].buf = Append(@, e)] /\ UNCHANGED crashed
     \/ ~sub[q].open /\ crashed' = TRUE /\ UNCHANGED sub
  /\ flight' = flight \ {<<e, q>>}
  /\ UNCHANGED <<handlerVars, base, session, size, friday, lock, agent, deleted, missized, together, before>>

\* The agent ends its answer, with or without content.
AgentEnds(p) ==
  /\ agent[p].on
  /\ \E said \in BOOLEAN : agent' = [agent EXCEPT ![p].on = FALSE, ![p].said = said]
  /\ UNCHANGED <<handlerVars, base, session, size, friday, lock, sub, flight, crashed, deleted, missized, together, before>>

Unsubscribe(p) == sub' = [sub EXCEPT ![p] = [open |-> FALSE, buf |-> <<>>]]

\* handleSSEStream: subscribe and start the agent, store the user's message, relay
\* events until the agent ends, answer, and store the reply in the background.
handleSSEStream(p) ==
  LET s == Sid(p)
      reply == at[p].got \o (IF agent[p].said THEN <<Message(p, "assistant")>> ELSE <<>>)
  IN  /\ KeepRest /\ UNCHANGED <<friday, deleted, missized, flight, together, before>>
      /\ \/ /\ pc[p] = "subscribe" /\ Fine
            /\ sub' = [sub EXCEPT ![p].open = TRUE]
            /\ agent' = [agent EXCEPT ![p].on = TRUE]
            /\ Goto(p, "user") /\ KeepStore /\ UNCHANGED <<lock, at, resp>>
         \/ /\ UNCHANGED agent
            /\ AppendMessage(p, s, <<Message(p, "user")>>, "user",
                             Unsubscribe(p) /\ Reply(p, 500),
                             UNCHANGED <<sub, resp>> /\ Goto(p, "stream"))
            /\ IF pc'[p] \in {"userOpen", "userWrite"} THEN UNCHANGED sub ELSE TRUE
         \/ /\ pc[p] = "stream" /\ sub[p].buf # <<>> /\ Fine
            /\ at' = [at EXCEPT ![p].got = Append(@, Head(sub[p].buf))]
            /\ sub' = [sub EXCEPT ![p].buf = Tail(@)]
            /\ KeepStore /\ UNCHANGED <<lock, agent, resp, pc>>
         \/ /\ pc[p] = "stream" /\ ~agent[p].on /\ Fine
            /\ Unsubscribe(p) /\ Answer(p, 200)
            /\ Goto(p, IF reply = <<>> THEN "done" ELSE "reply")
            /\ KeepStore /\ UNCHANGED <<lock, agent, at>>
         \/ /\ UNCHANGED <<agent, sub, resp>>
            /\ AppendMessage(p, s, reply, "reply", Goto(p, "done"), Goto(p, "done"))

----------------------------------------------------------------------------

SessionLocal == [inst |-> 0, n |-> 0, off |-> 0, out |-> {}, seen |-> <<>>, got |-> <<>>]

SessionInit(ids, fridays) ==
  /\ base = (ids # {})
  /\ session = [s \in ids |-> [meta |-> "name", file |-> TRUE, log |-> <<>>]]
  /\ size = [s \in Sids |-> NotCached]
  /\ friday = fridays
  /\ lock = [i \in 1 .. 2 |-> Nobody]
  /\ agent = [p \in Procs |-> [on |-> FALSE, events |-> 0, said |-> FALSE]]
  /\ sub = [p \in Procs |-> [open |-> FALSE, buf |-> <<>>]]
  /\ flight = {}
  /\ crashed = FALSE
  /\ deleted = {} /\ missized = {} /\ together = {}
  /\ before = [p \in Procs |-> {}]

\* The handlers of the REST interface: checks, the assistant of the namespace, the
\* method of its store.
HandleChat(p) == Op(p) = "chat" /\ (GetFriday(p) \/ OpenSession(p) \/ handleSSEStream(p))
HandleCreateSession(p) == Op(p) = "newsession" /\ (GetFriday(p) \/ CreateSession(p))
HandleListSessions(p) == Op(p) = "listsessions" /\ (GetFriday(p) \/ ListSessions(p))
HandleGetSession(p) == Op(p) = "getsession" /\ (GetFriday(p) \/ GetSession(p))
HandleDeleteSession(p) == Op(p) = "rmsession" /\ (GetFriday(p) \/ DeleteSession(p))
HandleRenameSession(p) == Op(p) = "rename" /\ (GetFriday(p) \/ RenameSession(p))

SessionStep(p) ==
  /\ ~crashed
  /\ \/ HandleChat(p) \/ HandleCreateSession(p) \/ HandleListSessions(p)
     \/ HandleGetSession(p) \/ HandleDeleteSession(p) \/ HandleRenameSession(p)

AgentStep(p) == ~crashed /\ (PublishFridayEvent(p) \/ AgentEnds(p))

Delivery == ~crashed /\ \E x \in flight : Deliver(x[1], x[2])

----------------------------------------------------------------------------
(* Properties. *)

\* A chat that ended, with both messages stored without an error, is in the history
\* once, the question before the answer; unless the session was deleted or an
\* outdated size of the history was in the cache when a message was appended.
TurnIsStored ==
  \A p \in Procs :
    (/\ Op(p) = "chat" /\ pc[p] = "done" /\ resp[p] = <<200>> /\ agent[p].said
     /\ Has(Sid(p)) /\ Sid(p) \notin missized /\ faults = 0) =>
    LET log == session[Sid(p)].log
        where(t) == {i \in DOMAIN log : log[i] = Message(p, t)}
    IN  \E i, j \in DOMAIN log : where("user") = {i} /\ where("assistant") = {j} /\ i < j

\* The agent is given the questions and the answers of the chats of its session
\* that were over when this one began.
AgentSeesEarlierTurns ==
  \A p \in Procs : pc[p] = "subscribe" =>
    \A q \in before[p] :
      (resp[q] = <<200>> /\ agent[q].said /\ faults = 0 /\ Has(Sid(p)) /\ Sid(p) \notin missized) =>
        {Message(q, "user"), Message(q, "assistant")} \subseteq Range(at[p].seen)

\* A session directory whose meta data cannot be read, and which ListSessions
\* therefore leaves out, is being created or renamed, or a call failed.
UnreadableIsTransient ==
  \A s \in DOMAIN session :
    ~Readable(s) => faults > 0 \/ \E p \in Procs : pc[p] \in {"meta", "write"}

\* A deleted session does not come back: a chat still going on when DeleteSession
\* returned does not create it again.
DeletedStaysDeleted == deleted \cap DOMAIN session = {}

\* An event in a history was published by an agent of this session, and it is there
\* once, as long as there were no two chats in the session at the same time.
EventIsStoredOnce ==
  \A s \in DOMAIN session :
    LET log == session[s].log
    IN  \A i \in DOMAIN log : log[i].type = "event" =>
          /\ Sid(log[i].by) = s
          /\ s \in together \cup missized \/ \A j \in DOMAIN log : log[j] = log[i] => i = j

\* The store keeps what a session is made of: every turn and every event, for the
\* agent of the next chat to see, until the session is deleted for good
\* (AppendMessage, RenameSession, DeleteSession, chat).
SessionIsKept ==
  /\ TurnIsStored /\ AgentSeesEarlierTurns /\ EventIsStoredOnce
  /\ UnreadableIsTransient /\ DeletedStaysDeleted
=============================================================================
