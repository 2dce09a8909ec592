----------------------------- MODULE SSETransport -----------------------------
(***************************************************************************)
(* The HTTP transport.  Every GET /sse runs a handler that registers a     *)
(* client, writes the events of its channel to the connection until the    *)
(* request's context is done, and then unregisters it.  Send takes a       *)
(* snapshot of the clients a message is for, under the mutex, and puts the *)
(* message in the channel of one after the other without it, while those   *)
(* clients come and go.                                                    *)
(*                                                                         *)
(* A message is a call of Send, by a goroutine of a tool or by the handler *)
(* of a POST that has no id but names a session.  Left out are requests    *)
(* that are refused, POSTs that are answered in their own response, and    *)
(* keep-alive comments, none of which touch the state of the transport.    *)
(* The end of Start ends no handler: after it nobody connects or posts,    *)
(* which nobody has to do before it either.                                *)
(***************************************************************************)
EXTENDS Naturals, SequencesExt

CONSTANTS
    Sessions,   \* ids of the sessions, one for each GET /sse
    Messages,   \* calls of Send
    Buffer,     \* capacity of a client's channel
    Posted,     \* the calls of Send that handlers of POST requests make
    Everyone,   \* the client id of a message for all clients: none
    ClientId    \* the client id in the context of each call

ASSUME BufferAssumption == Buffer \in Nat \ {0}
ASSUME ClientIdAssumption ==
    /\ Everyone \notin Sessions
    /\ ClientId \in [Messages -> Sessions \cup {Everyone}]
    /\ Posted \subseteq {m \in Messages : ClientId[m] # Everyone}

VARIABLES
    handler,    \* the handler of each session
    clients,    \* the registered clients
    done,       \* the clients whose done channel is closed
    events,     \* the events channel of each client
    writing,    \* the event a handler is writing to its connection, none or one
    hungUp,     \* environment: the clients that have disconnected
    send,       \* each call of Send: not begun, running, or how it returned
    pending,    \* the clients a running call has still to serve, in its order
    post,       \* the POST that makes a call, if one does
    stream,     \* history: what each client has received
    due,        \* history: the clients a call has to reach, connected since it began
    before      \* history: the calls that had returned when a call began

session == <<handler, clients, done, hungUp>>
sending == <<send, pending, due, before>>
vars == <<handler, clients, done, events, writing, hungUp, send, pending, stream,
          due, before, post>>

TypeOK ==
    /\ handler \in [Sessions -> {"none", "serving", "leaving", "returned"}]
    /\ clients \subseteq Sessions
    /\ done \subseteq Sessions
    /\ events \in [Sessions -> Seq(Messages)]
    /\ writing \in [Sessions -> Seq(Messages)]
    /\ \A s \in Sessions : Len(events[s]) <= Buffer /\ Len(writing[s]) <= 1
    /\ hungUp \subseteq Sessions
    /\ send \in [Messages -> {"new", "running", "nil", "error"}]
    /\ pending \in [Messages -> Seq(Sessions)]
    /\ stream \in [Sessions -> Seq(Messages)]
    /\ due \in [Messages -> SUBSET Sessions]
    /\ before \in [Messages -> SUBSET Messages]
    /\ post \in [Posted -> {"none", "handled", "abandoned", "answered", "returned"}]

Init ==
    /\ handler = [s \in Sessions |-> "none"]
    /\ clients = {}
    /\ done = {}
    /\ events = [s \in Sessions |-> <<>>]
    /\ writing = [s \in Sessions |-> <<>>]
    /\ hungUp = {}
    /\ send = [m \in Messages |-> "new"]
    /\ pending = [m \in Messages |-> <<>>]
    /\ stream = [s \in Sessions |-> <<>>]
    /\ due = [m \in Messages |-> {}]
    /\ before = [m \in Messages |-> {}]
    /\ post = [m \in Posted |-> "none"]

-----------------------------------------------------------------------------
(* A session: handleSSE.                                                   *)

\* addClient.
Connect(s) ==
    /\ handler[s] = "none"
    /\ handler' = [handler EXCEPT ![s] = "serving"]
    /\ clients' = clients \cup {s}
    /\ UNCHANGED <<done, events, writing, hungUp, stream, sending, post>>

\* The client goes away; the request's context is done.
HangUp(s) ==
    /\ handler[s] = "serving"
    /\ s \notin hungUp
    /\ hungUp' = hungUp \cup {s}
    /\ due' = [m \in Messages |-> due[m] \ {s}]
    /\ UNCHANGED <<handler, clients, done, events, writing, stream, send, pending, before, post>>

\* select ... case data := <-client.events, perhaps with the context done as well.
Take(s) ==
    /\ handler[s] = "serving"
    /\ writing[s] = <<>>
    /\ events[s] # <<>>
    /\ writing' = [writing EXCEPT ![s] = <<Head(events[s])>>]
    /\ events' = [events EXCEPT ![s] = Tail(@)]
    /\ UNCHANGED <<session, stream, sending, post>>

\* The write returns: the client has read what fills the connection, or has gone.
Written(s) ==
    /\ writing[s] # <<>>
    /\ writing' = [writing EXCEPT ![s] = <<>>]
    /\ stream' = IF s \in hungUp THEN stream ELSE [stream EXCEPT ![s] = @ \o writing[s]]
    /\ UNCHANGED <<session, events, sending, post>>

\* A variant of Leave that leaves the done channel open.
Leave_KeepsDoneOpen(s) ==
    /\ handler[s] = "serving"
    /\ writing[s] = <<>>
    /\ s \in hungUp
    /\ handler' = [handler EXCEPT ![s] = "leaving"]
    /\ UNCHANGED <<done, clients, events, writing, hungUp, stream, sending, post>>

\* select ... case <-ctx.Done(): return; then removeClient closes done ...
Leave(s) ==
    /\ handler[s] = "serving"
    /\ writing[s] = <<>>
    /\ s \in hungUp
    /\ handler' = [handler EXCEPT ![s] = "leaving"]
    /\ done' = done \cup {s}
    /\ UNCHANGED <<clients, events, writing, hungUp, stream, sending, post>>

\* ... and deletes the client under the mutex.
Unregister(s) ==
    /\ handler[s] = "leaving"
    /\ handler' = [handler EXCEPT ![s] = "returned"]
    /\ clients' = clients \ {s}
    /\ UNCHANGED <<done, events, writing, hungUp, stream, sending, post>>

-----------------------------------------------------------------------------
(* A call of Send.                                                         *)

\* A variant that broadcasts what is for a session it does not know.
Targets_Fallback(id) == IF id \in clients THEN {id} ELSE clients

\* The clients that a message with this client id goes to.
Targets(id) == IF id = Everyone THEN clients ELSE clients \cap {id}

\* Whom Send has to reach: those of the clients it is for that are connected.
Audience(id) ==
    {s \in Sessions \ hungUp : handler[s] = "serving" /\ id \in {s, Everyone}}

\* Who makes the call is there to make it.
Ready(m) == send[m] = "new" /\ (m \in Posted => post[m] \in {"handled", "abandoned"})

\* A variant that leaves the deliveries to a goroutine.
Begin_Async(m) ==
    /\ Ready(m)
    /\ \E order \in SetToSeqs(Targets(ClientId[m])) :
          /\ pending' = [pending EXCEPT ![m] = order]
          /\ send' = [send EXCEPT ![m] = "nil"]
    /\ due' = [due EXCEPT ![m] = Audience(ClientId[m])]
    /\ before' = [before EXCEPT ![m] = {n \in Messages : send[n] \in {"nil", "error"}}]
    /\ UNCHANGED <<session, events, writing, stream, post>>

\* The critical section of Send; a map is ranged over in any order.
Begin(m) ==
    /\ Ready(m)
    /\ \E order \in SetToSeqs(Targets(ClientId[m])) :
          /\ pending' = [pending EXCEPT ![m] = order]
          /\ send' = [send EXCEPT ![m] = IF order = <<>> THEN "nil" ELSE "running"]
    /\ due' = [due EXCEPT ![m] = Audience(ClientId[m])]
    /\ before' = [before EXCEPT ![m] = {n \in Messages : send[n] \in {"nil", "error"}}]
    /\ UNCHANGED <<session, events, writing, stream, post>>

\* The call has dealt with the next client: go on, or return nil.
Advance(m) ==
    /\ pending' = [pending EXCEPT ![m] = Tail(@)]
    /\ send' = [send EXCEPT ![m] = IF Len(pending[m]) = 1 THEN "nil" ELSE @]
    /\ UNCHANGED <<session, writing, stream, due, before, post>>

\* case c.events <- data:
Enqueue(m) ==
    /\ pending[m] # <<>>
    /\ LET s == Head(pending[m])
       IN  /\ Len(events[s]) < Buffer
           /\ events' = [events EXCEPT ![s] = Append(@, m)]
    /\ Advance(m)

\* A variant that returns nil at the first client that is gone.
Skip_Returns(m) ==
    /\ pending[m] # <<>>
    /\ Head(pending[m]) \in done
    /\ pending' = [pending EXCEPT ![m] = <<>>]
    /\ send' = [send EXCEPT ![m] = "nil"]
    /\ UNCHANGED <<session, events, writing, stream, due, before, post>>

\* case <-c.done:
Skip(m) ==
    /\ pending[m] # <<>>
    /\ Head(pending[m]) \in done
    /\ UNCHANGED events
    /\ Advance(m)

\* case <-ctx.Done(): the caller's context is cancelled, the other clients are not
\* served.  The context of a POST is cancelled when its client goes away.
Abort(m) ==
    /\ pending[m] # <<>>
    /\ m \in Posted => post[m] = "abandoned"
    /\ pending' = [pending EXCEPT ![m] = <<>>]
    /\ send' = [send EXCEPT ![m] = "error"]
    /\ UNCHANGED <<session, events, writing, stream, due, before, post>>

-----------------------------------------------------------------------------
(* POST / without an id, for a session: handleStreamableHTTPPost.          *)

InProgress == {m \in Posted : post[m] \in {"handled", "abandoned"}}

\* The request is read, parsed and dispatched.
Post(m) ==
    /\ post[m] = "none"
    /\ post' = [post EXCEPT ![m] = "handled"]
    /\ UNCHANGED <<session, events, writing, stream, sending>>

\* Its client goes away before the answer.
Abandon(m) ==
    /\ post[m] = "handled"
    /\ post' = [post EXCEPT ![m] = "abandoned"]
    /\ UNCHANGED <<session, events, writing, stream, sending>>

\* A variant that answers while it is still sending.
Answer_AtOnce(m) ==
    /\ m \in InProgress
    /\ send[m] # "new"
    /\ post' = [post EXCEPT ![m] = IF post[m] = "handled" THEN "answered" ELSE "returned"]
    /\ UNCHANGED <<session, events, writing, stream, sending>>

\* Whatever Send returned, the request is accepted.
Answer(m) ==
    /\ m \in InProgress
    /\ send[m] \in {"nil", "error"}
    /\ post' = [post EXCEPT ![m] = IF post[m] = "handled" THEN "answered" ELSE "returned"]
    /\ UNCHANGED <<session, events, writing, stream, sending>>

-----------------------------------------------------------------------------

\* All calls have returned.
Quiet ==
    /\ \A m \in Messages : send[m] # "running"
    /\ UNCHANGED vars

Next ==
    \/ \E s \in Sessions :
          Connect(s) \/ HangUp(s) \/ Take(s) \/ Written(s) \/ Leave(s) \/ Unregister(s)
    \/ \E m \in Messages :
          Begin(m) \/ Enqueue(m) \/ Skip(m) \/ Abort(m)
    \/ \E m \in Posted : Post(m) \/ Abandon(m) \/ Answer(m)
    \/ Quiet

\* The goroutines run, and every client that stays
\* connected goes on reading.  Nobody has to connect, to hang up or to send, no
\* context has to be cancelled.  A handler of a POST makes its call of Send.
Fairness ==
    /\ \A s \in Sessions :
          WF_vars(Take(s)) /\ WF_vars(Written(s)) /\ WF_vars(Leave(s)) /\ WF_vars(Unregister(s))
    /\ \A m \in Messages : WF_vars(Enqueue(m) \/ Skip(m))
    /\ \A m \in Posted : WF_vars(Begin(m)) /\ WF_vars(Answer(m))

Spec == Init /\ [][Next]_vars /\ Fairness

-----------------------------------------------------------------------------
(* Properties.                                                             *)

\* What has reached a client or is on its way to it, in order.
Outbox(s) == stream[s] \o writing[s] \o events[s]

\* "the message is routed only to that session; if the session is gone, the message
\* is dropped": no session ever gets a message that carries another client's id,
\* whoever connects and disconnects during the Send.
Isolation ==
    \A s \in Sessions : \A m \in ToSet(Outbox(s)) : ClientId[m] \in {s, Everyone}

\* A client gets no message twice, and two messages whose Sends did not overlap in
\* the order in which they were sent, as notifications of one analysis rely on.
OrderKept ==
    \A s \in Sessions :
        /\ IsInjective(Outbox(s))
        /\ \A i, j \in DOMAIN Outbox(s) :
              i < j => Outbox(s)[j] \notin before[Outbox(s)[i]]

\* A Send that returned nil has reached every client it was for that was connected
\* when it began and still is, although others went away under it: "Client already
\* disconnected, skip".  A POST whose client got its 202 has done the same, although
\* the handler ignores the error of Send: the only error is that this client has gone.
ReachesLiveClients ==
    \A m \in Messages :
        send[m] = "nil" \/ (m \in Posted /\ post[m] = "answered") =>
            \A s \in due[m] : m \in ToSet(Outbox(s))

\* No call of Send is stuck, not even with a context that is never cancelled, and no
\* POST is left without its answer: a full channel of a client that has gone does not
\* hold them up.
SendsReturn ==
    /\ \A m \in Messages : send[m] = "running" ~> send[m] \in {"nil", "error"}
    /\ \A m \in Posted : post[m] = "handled" ~> post[m] \in {"answered", "returned"}

=============================================================================
