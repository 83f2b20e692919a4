------------------------------ MODULE Requests ------------------------------
(***************************************************************************)
(* Requests and their responses: Engine.Request, actor/response.go and     *)
(* Context.Respond.  A response is registered under a random id, which is  *)
(* the sender of the request; whoever replies looks it up by that id, and  *)
(* Result removes whatever the id stands for when it returns.              *)
(*                                                                         *)
(* One server answers the requests, each with none, one or more replies,   *)
(* and may be stopped.  What cannot be delivered becomes an event, which   *)
(* Events.tla models.                                                      *)
(***************************************************************************)
EXTENDS Naturals, Sequences

CONSTANTS Requests,    \* calls of Request
          Ids,         \* the ids NewResponse may draw
          None,
          MaxReplies   \* bound: replies to one request

ASSUME RequestsAssumption == None \notin Requests \cup Ids /\ MaxReplies \in Nat

VARIABLES lookup,   \* Registry.lookup: id -> the response, or None
          req,      \* the requests: where the call is, its Response
          alive,    \* the server is registered
          inbox,    \* the server's mailbox: requests
          server    \* the server: context.message and context.sender, the replies to send

vars == <<lookup, req, alive, inbox, server>>

Response == [pc |-> "ready", id |-> None, ch |-> <<>>, result |-> None, replies |-> 0]
Idle(sender) == [pc |-> "idle", cur |-> None, sender |-> sender, left |-> 0, to |-> None]

Init == /\ lookup = [id \in Ids |-> None] /\ req = [r \in Requests |-> Response]
        /\ alive = TRUE /\ inbox = <<>> /\ server = Idle(None)

\* Mutant of Request: the response is not registered yet when the request goes out.
RequestUnregistered(r, id) ==
    /\ req[r].pc = "ready"
    /\ req' = [req EXCEPT ![r].pc = "send", ![r].id = id]
    /\ UNCHANGED <<lookup, alive, inbox, server>>

\* NewResponse draws an id and Registry.add registers it, or reports a
\* duplicate; Request goes on either way.
Request(r, id) ==
    /\ req[r].pc = "ready"
    /\ req' = [req EXCEPT ![r].pc = "send", ![r].id = id]
    /\ lookup' = IF lookup[id] = None THEN [lookup EXCEPT ![id] = r] ELSE lookup
    /\ UNCHANGED <<alive, inbox, server>>

\* Engine.send with the response's PID as the sender: a message to a nil PID
\* is dropped, one for another address or a stopped server becomes an event.
Send(r, target) ==
    /\ req[r].pc = "send"
    /\ req' = [req EXCEPT ![r].pc = "wait"]
    /\ inbox' = IF target = "local" /\ alive THEN Append(inbox, r) ELSE inbox
    /\ UNCHANGED <<lookup, alive, server>>

\* Mutant of Receive: the sender of an earlier message is kept.
ReceiveStaleSender(n) ==
    /\ server.pc = "idle" /\ alive /\ inbox # <<>>
    /\ server' = [server EXCEPT !.pc = "respond", !.cur = Head(inbox), !.left = n,
                                !.sender = IF @ = None THEN req[Head(inbox)].id ELSE @]
    /\ inbox' = Tail(inbox)
    /\ req' = [req EXCEPT ![Head(inbox)].replies = n]
    /\ UNCHANGED <<lookup, alive>>

\* The server is given a request and its sender, and will reply to it n times.
Receive(n) ==
    /\ server.pc = "idle" /\ alive /\ inbox # <<>>
    /\ server' = [server EXCEPT !.pc = "respond", !.cur = Head(inbox), !.left = n,
                                !.sender = req[Head(inbox)].id]
    /\ inbox' = Tail(inbox)
    /\ req' = [req EXCEPT ![Head(inbox)].replies = n]
    /\ UNCHANGED <<lookup, alive>>

\* Context.Respond: without a sender nothing; SendLocal finds the response of
\* the id, or reports a dead letter.
Respond ==
    LET found == IF server.sender = None THEN None ELSE lookup[server.sender] IN
    /\ server.pc = "respond" /\ server.left > 0
    /\ server' = IF found = None THEN [server EXCEPT !.left = @ - 1]
                 ELSE [server EXCEPT !.pc = "push", !.to = found]
    /\ UNCHANGED <<lookup, req, alive, inbox>>

\* Response.Send: r.result <- msg, on a channel of capacity one.
ResponseSend ==
    /\ server.pc = "push" /\ Len(req[server.to].ch) < 1
    /\ req' = [req EXCEPT ![server.to].ch = Append(@, server.cur)]
    /\ server' = [server EXCEPT !.pc = "respond", !.left = @ - 1, !.to = None]
    /\ UNCHANGED <<lookup, alive, inbox>>

\* Mutant of ReceiveReturns: the last reply is sent once more.
ReceiveReturnsAgain ==
    /\ server.pc = "respond" /\ server.left = 0
    /\ server' = IF req[server.cur].ch # <<>> THEN [server EXCEPT !.left = 1] ELSE Idle(server.sender)
    /\ UNCHANGED <<lookup, req, alive, inbox>>

ReceiveReturns ==
    /\ server.pc = "respond" /\ server.left = 0
    /\ server' = Idle(server.sender)
    /\ UNCHANGED <<lookup, req, alive, inbox>>

\* The server is stopped between two messages; its mailbox goes with it.
Stop ==
    /\ alive /\ server.pc = "idle" /\ alive' = FALSE
    /\ UNCHANGED <<lookup, req, inbox, server>>

\* Result: a reply or the timeout.
ResultReply(r) ==
    /\ req[r].pc = "wait" /\ req[r].ch # <<>>
    /\ req' = [req EXCEPT ![r].pc = "remove", ![r].result = Head(req[r].ch), ![r].ch = Tail(@)]
    /\ UNCHANGED <<lookup, alive, inbox, server>>

ResultTimeout(r) ==
    /\ req[r].pc = "wait"
    /\ req' = [req EXCEPT ![r].pc = "remove"]
    /\ UNCHANGED <<lookup, alive, inbox, server>>

\* The deferred Remove, by id.
ResultRemove(r) ==
    /\ req[r].pc = "remove"
    /\ req' = [req EXCEPT ![r].pc = "done"]
    /\ lookup' = [lookup EXCEPT ![req[r].id] = None]
    /\ UNCHANGED <<alive, inbox, server>>

Result(r) == ResultReply(r) \/ ResultTimeout(r) \/ ResultRemove(r)
ServerStep == (\E n \in 0 .. MaxReplies : Receive(n)) \/ Respond \/ ResponseSend \/ ReceiveReturns

Next ==
    \/ \E r \in Requests : \/ \E id \in Ids : Request(r, id)
                           \/ \E target \in {"nil", "remote", "local"} : Send(r, target)
                           \/ Result(r)
    \/ ServerStep \/ Stop

Spec == Init /\ [][Next]_vars

---------------------------------------------------------------------------
(* Properties.                                                             *)

TypeOK ==
    /\ lookup \in [Ids -> Requests \cup {None}] /\ alive \in BOOLEAN
    /\ req \in [Requests -> [pc : {"ready", "send", "wait", "remove", "done"}, id : Ids \cup {None},
                             ch : Seq(Requests), result : Requests \cup {None}, replies : 0 .. MaxReplies]]
    /\ inbox \in Seq(Requests)
    /\ server \in [pc : {"idle", "respond", "push"}, cur : Requests \cup {None}, sender : Ids \cup {None},
                   left : 0 .. MaxReplies, to : Requests \cup {None}]
    /\ server.pc = "push" => server.to \in Requests

\* Another request has drawn the same id, at the same time or earlier.
Collided(r) == \E s \in Requests \ {r} : req[s].id = req[r].id /\ req[r].id # None

\* A request that waits is the one its id stands for, although everybody
\* removes by id: a reply that is sent in time reaches it.
PendingRegistered == \A r \in Requests :
    (req[r].pc \in {"send", "wait"} /\ ~Collided(r)) => lookup[req[r].id] = r

\* Result returns a reply to its own request (or the timeout), however late
\* the replies of earlier requests come.
Attribution == \A r \in Requests :
    (req[r].result # None /\ ~Collided(r)) => req[r].result = r

\* A server that replies at most once to a request is never held up by the
\* channel of a response: it has room for the reply, waited for or not.
ReplyNeverBlocks ==
    (server.pc = "push" /\ req[server.cur].replies <= 1 /\ ~Collided(server.cur))
        => req[server.to].ch = <<>>
=============================================================================
