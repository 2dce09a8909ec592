-------------------------- MODULE SSETransportProofs --------------------------
(***************************************************************************)
(* The safety properties of SSETransport, for any sessions and messages    *)
(* and any capacity of the channels.                                       *)
(***************************************************************************)
EXTENDS SSETransport, SequenceLemmas

-----------------------------------------------------------------------------
(* The inductive invariant.                                                *)

\* A handler serves only while its client is registered, and closes the done
\* channel only when its client has gone.  Only finitely many have registered.
Registered ==
    /\ IsFiniteSet(clients)
    /\ \A s \in Sessions : handler[s] = "serving" => s \in clients
    /\ done \subseteq hungUp

\* A call runs exactly while it has clients to serve, each of them once and each of
\* them one that the message is for.
Serving ==
    \A m \in Messages :
        /\ send[m] = "running" <=> pending[m] # <<>>
        /\ IsInjective(pending[m])
        /\ \A s \in ToSet(pending[m]) : ClientId[m] \in {s, Everyone}

\* What a client has or will get was put in its channel by a call that had begun and
\* that does not come back to it.
Delivered ==
    \A s \in Sessions : \A m \in ToSet(Outbox(s)) :
        send[m] # "new" /\ s \notin ToSet(pending[m])

\* A call that had returned before another began has returned.
Returned ==
    \A m \in Messages : \A n \in before[m] : send[n] \in {"nil", "error"}

\* The clients a call has to reach are connected, and as long as it has not failed
\* it has served them or will.
Reaching ==
    \A m \in Messages :
        /\ due[m] \cap hungUp = {}
        /\ send[m] \in {"running", "nil"} =>
              \A s \in due[m] : s \in ToSet(pending[m]) \/ m \in ToSet(Outbox(s))

\* A call for a POST fails only when its client has gone, who then gets no answer; the
\* answer waits for the call.
Answering ==
    \A m \in Posted :
        /\ send[m] = "error" => post[m] \in {"abandoned", "returned"}
        /\ post[m] = "answered" => send[m] = "nil"

IInv ==
    /\ TypeOK
    /\ Registered
    /\ Serving
    /\ Delivered
    /\ Isolation
    /\ Returned
    /\ OrderKept
    /\ Reaching
    /\ Answering

-----------------------------------------------------------------------------
(* The types.                                                              *)

\* A step leaves every variable in its type: no channel is over its capacity, and a
\* call enumerates registered clients only.
LEMMA TypeStep ==
  ASSUME TypeOK, Registered, [Next]_vars
  PROVE  TypeOK'
<1> USE BufferAssumption DEF TypeOK, session, sending
<1>1. ASSUME NEW s \in Sessions, Connect(s)
      PROVE  TypeOK'
  BY <1>1 DEF Connect
<1>2. ASSUME NEW s \in Sessions, HangUp(s)
      PROVE  TypeOK'
  BY <1>2 DEF HangUp
<1>3. ASSUME NEW s \in Sessions, Take(s)
      PROVE  TypeOK'
  <2>1. /\ Head(events[s]) \in Messages
        /\ Tail(events[s]) \in Seq(Messages)
        /\ Len(Tail(events[s])) = Len(events[s]) - 1
        /\ Len(events[s]) \in Nat
    BY <1>3, HeadTailProperties, LenProperties DEF Take
  <2>2. <<Head(events[s])>> \in Seq(Messages) /\ Len(<<Head(events[s])>>) = 1
    BY <2>1, ToSetSingleton
  <2> QED
    BY <1>3, <2>1, <2>2 DEF Take
<1>4. ASSUME NEW s \in Sessions, Written(s)
      PROVE  TypeOK'
  <2>1. stream[s] \o writing[s] \in Seq(Messages)
    BY ConcatProperties
  <2>2. <<>> \in Seq(Messages) /\ Len(<<>>) = 0
    BY EmptySeq
  <2> QED
    BY <1>4, <2>1, <2>2 DEF Written
<1>5. ASSUME NEW s \in Sessions, Leave(s)
      PROVE  TypeOK'
  BY <1>5 DEF Leave
<1>6. ASSUME NEW s \in Sessions, Unregister(s)
      PROVE  TypeOK'
  BY <1>6 DEF Unregister
<1>7. ASSUME NEW m \in Messages, Begin(m)
      PROVE  TypeOK'
  <2> DEFINE T == Targets(ClientId[m])
  <2>1. T \subseteq Sessions /\ IsFiniteSet(T)
    BY FS_Subset DEF Targets, Registered
  <2>2. PICK order \in SetToSeqs(T) :
           /\ pending' = [pending EXCEPT ![m] = order]
           /\ send' = [send EXCEPT ![m] = IF order = <<>> THEN "nil" ELSE "running"]
    BY <1>7 DEF Begin
  <2>3. order \in Seq(Sessions)
    BY <2>1, Enumeration, SeqMonotonic
  <2>4. Audience(ClientId[m]) \subseteq Sessions
    BY DEF Audience
  <2>5. due' \in [Messages -> SUBSET Sessions] /\ before' \in [Messages -> SUBSET Messages]
    BY <1>7, <2>4 DEF Begin
  <2> QED
    BY <1>7, <2>2, <2>3, <2>5 DEF Begin
<1>8. ASSUME NEW m \in Messages, Enqueue(m) \/ Skip(m)
      PROVE  TypeOK'
  <2>1. Head(pending[m]) \in Sessions /\ Tail(pending[m]) \in Seq(Sessions)
    BY <1>8, HeadTailProperties DEF Enqueue, Skip
  <2>2. /\ pending' \in [Messages -> Seq(Sessions)]
        /\ send' \in [Messages -> {"new", "running", "nil", "error"}]
        /\ UNCHANGED <<session, writing, stream, due, before, post>>
    BY ZenonT(60), <1>8, <2>1 DEF Enqueue, Skip, Advance
  <2>3. /\ events' \in [Sessions -> Seq(Messages)]
        /\ \A s \in Sessions : Len(events'[s]) <= Buffer
    <3>1. CASE Skip(m)
      BY <3>1 DEF Skip
    <3>2. CASE Enqueue(m)
      <4> DEFINE s == Head(pending[m])
      <4>1. Append(events[s], m) \in Seq(Messages) /\ Len(Append(events[s], m)) = Len(events[s]) + 1
        BY <2>1, AppendProperties
      <4>2. Len(events[s]) < Buffer /\ events' = [events EXCEPT ![s] = Append(@, m)]
        BY <3>2 DEF Enqueue
      <4>3. Len(events[s]) \in Nat
        BY <2>1, LenProperties
      <4> QED
        BY <2>1, <4>1, <4>2, <4>3
    <3> QED
      BY <1>8, <3>1, <3>2
  <2> QED
    BY <2>2, <2>3
<1>9. ASSUME NEW m \in Messages, Abort(m)
      PROVE  TypeOK'
  BY <1>9, EmptySeq DEF Abort
<1>10. ASSUME NEW m \in Posted, Post(m) \/ Abandon(m) \/ Answer(m)
       PROVE  TypeOK'
  BY <1>10 DEF Post, Abandon, Answer
<1>11. CASE UNCHANGED vars
  BY <1>11 DEF vars
<1> QED
  BY <1>1, <1>2, <1>3, <1>4, <1>5, <1>6, <1>7, <1>8, <1>9, <1>10, <1>11 DEF Next, Quiet

-----------------------------------------------------------------------------
(* What a step does to the messages on their way to a client.              *)

\* They are messages.
LEMMA OutboxType ==
  ASSUME TypeOK, NEW s \in Sessions
  PROVE  Outbox(s) \in Seq(Messages)
BY ConcatProperties DEF TypeOK, Outbox

\* The handler has taken the next event from the channel: nothing moves.
LEMMA TakeKeeps ==
  ASSUME TypeOK, NEW s \in Sessions, Take(s), NEW r \in Sessions
  PROVE  Outbox(r)' = Outbox(r)
<1>1. /\ stream' = stream
      /\ writing' = [writing EXCEPT ![s] = <<Head(events[s])>>]
      /\ events' = [events EXCEPT ![s] = Tail(@)]
      /\ writing[s] = <<>>
      /\ events[s] # <<>>
  BY DEF Take
<1>2. events[s] \in Seq(Messages) /\ stream[s] \in Seq(Messages)
  BY DEF TypeOK
<1>3. (stream[s] \o <<Head(events[s])>>) \o Tail(events[s]) = stream[s] \o events[s]
  BY <1>1, <1>2, MoveHead
<1>4. stream[s] \o <<>> = stream[s]
  BY <1>2, ConcatEmptySeq
<1> QED
  BY <1>1, <1>3, <1>4 DEF TypeOK, Outbox

\* A write has returned: nothing moves, unless the client has gone, who loses the event
\* that was written.
LEMMA WrittenLosesIfGone ==
  ASSUME TypeOK, NEW s \in Sessions, Written(s), NEW r \in Sessions
  PROVE  Outbox(r)' = Outbox(r) \/ (r \in hungUp /\ Outbox(r)' = stream[r] \o events[r])
<1>1. /\ stream' = IF s \in hungUp THEN stream ELSE [stream EXCEPT ![s] = @ \o writing[s]]
      /\ writing' = [writing EXCEPT ![s] = <<>>]
      /\ events' = events
  BY DEF Written
<1>2. /\ stream[s] \in Seq(Messages)
      /\ stream[s] \o writing[s] \in Seq(Messages)
  BY ConcatProperties DEF TypeOK
<1>3. /\ stream[s] \o <<>> = stream[s]
      /\ (stream[s] \o writing[s]) \o <<>> = stream[s] \o writing[s]
  BY <1>2, ConcatEmptySeq
<1> QED
  BY <1>1, <1>3 DEF TypeOK, Outbox

\* A call puts its message last in the channel of the client it serves.
LEMMA EnqueueAppends ==
  ASSUME TypeOK, NEW m \in Messages, Enqueue(m), NEW r \in Sessions
  PROVE  Outbox(r)' = IF r = Head(pending[m]) THEN Append(Outbox(r), m) ELSE Outbox(r)
<1> DEFINE s == Head(pending[m])
<1>1. events' = [events EXCEPT ![s] = Append(@, m)] /\ UNCHANGED <<stream, writing>>
  BY DEF Enqueue, Advance
<1>2. CASE r = s
  <2>1. stream[r] \o writing[r] \in Seq(Messages) /\ events[r] \in Seq(Messages)
    BY <1>2, ConcatProperties DEF TypeOK
  <2>2. ASSUME NEW p \in Seq(Messages), NEW q \in Seq(Messages)
        PROVE  p \o Append(q, m) = Append(p \o q, m)
    BY AppendConcat
  <2>3. stream' = stream /\ writing' = writing /\ events'[r] = Append(events[r], m)
    BY <1>1, <1>2 DEF TypeOK
  <2>4. Outbox(r)' = (stream[r] \o writing[r]) \o Append(events[r], m)
    BY <2>3 DEF Outbox
  <2> QED
    BY <1>2, <2>1, <2>2, <2>4 DEF Outbox
<1>3. CASE r # s
  BY <1>1, <1>3 DEF TypeOK, Outbox
<1> QED
  BY <1>2, <1>3

\* The messages for r stay as they are; or r has gone and loses the one that is being
\* written; or a call adds its own.
Kept(r) == Outbox(r)' = Outbox(r)
Lost(r) == r \in hungUp /\ Outbox(r)' = stream[r] \o events[r]
Put(r, m) == Enqueue(m) /\ r = Head(pending[m]) /\ Outbox(r)' = Append(Outbox(r), m)

\* There is nothing else that a step can do to them.
LEMMA OutboxStep ==
  ASSUME TypeOK, [Next]_vars, NEW r \in Sessions
  PROVE  Kept(r) \/ Lost(r) \/ \E m \in Messages : Put(r, m)
<1>1. ASSUME NEW s \in Sessions, Take(s)
      PROVE  Kept(r)
  BY <1>1, TakeKeeps DEF Kept
<1>2. ASSUME NEW s \in Sessions, Written(s)
      PROVE  Kept(r) \/ Lost(r)
  BY <1>2, WrittenLosesIfGone DEF Kept, Lost
<1>3. ASSUME NEW m \in Messages, Enqueue(m)
      PROVE  Kept(r) \/ Put(r, m)
  BY <1>3, EnqueueAppends DEF Kept, Put
<1>4. CASE UNCHANGED <<stream, writing, events>>
  BY <1>4 DEF Kept, Outbox
<1>5. ASSUME NEW s \in Sessions, Connect(s) \/ HangUp(s) \/ Leave(s) \/ Unregister(s)
      PROVE  UNCHANGED <<stream, writing, events>>
  BY <1>5 DEF Connect, HangUp, Leave, Unregister
<1>6. ASSUME NEW m \in Messages, Begin(m) \/ Skip(m) \/ Abort(m)
      PROVE  UNCHANGED <<stream, writing, events>>
  BY <1>6 DEF Begin, Skip, Advance, Abort
<1>7. ASSUME NEW m \in Posted, Post(m) \/ Abandon(m) \/ Answer(m)
      PROVE  UNCHANGED <<stream, writing, events>>
  BY <1>7 DEF Post, Abandon, Answer
<1>8. CASE UNCHANGED vars
  BY <1>4, <1>8 DEF vars
<1> QED
  BY <1>1, <1>2, <1>3, <1>4, <1>5, <1>6, <1>7, <1>8 DEF Next, Quiet

\* A client gets no other new message than the one a call puts in its channel, and a
\* client that has not gone loses none.
LEMMA OutboxElements ==
  ASSUME TypeOK, [Next]_vars, NEW r \in Sessions
  PROVE  /\ \A m \in ToSet(Outbox(r)') : m \in Messages /\ (m \in ToSet(Outbox(r)) \/ Put(r, m))
         /\ r \notin hungUp => ToSet(Outbox(r)) \subseteq ToSet(Outbox(r)')
         /\ \A m \in Messages : Put(r, m) => m \in ToSet(Outbox(r)')
<1>1. Outbox(r) \in Seq(Messages) /\ ToSet(Outbox(r)) \subseteq Messages
  BY OutboxType, ToSetType
<1>2. ASSUME NEW m \in Messages, Put(r, m)
      PROVE  ToSet(Outbox(r)') = ToSet(Outbox(r)) \cup {m}
  <2>1. ToSet(Append(Outbox(r), m)) = ToSet(Outbox(r)) \cup {m}
    BY <1>1, ToSetAppend
  <2> QED
    BY <1>2, <2>1 DEF Put
<1>3. CASE Kept(r)
  BY <1>1, <1>2, <1>3 DEF Kept
<1>4. CASE Lost(r)
  <2>1. ToSet(stream[r] \o events[r]) = ToSet(stream[r]) \cup ToSet(events[r])
    BY ToSetConcat DEF TypeOK
  <2>2. ToSet(Outbox(r)) = ToSet(stream[r] \o writing[r]) \cup ToSet(events[r])
    <3>1. stream[r] \o writing[r] \in Seq(Messages) /\ events[r] \in Seq(Messages)
      BY ConcatProperties DEF TypeOK
    <3> QED
      BY ZenonT(60), <3>1, ToSetConcat DEF Outbox
  <2>3. ToSet(stream[r] \o writing[r]) = ToSet(stream[r]) \cup ToSet(writing[r])
    BY ToSetConcat DEF TypeOK
  <2> QED
    BY <1>1, <1>2, <1>4, <2>1, <2>2, <2>3 DEF Lost
<1>5. CASE \E m \in Messages : Put(r, m)
  BY <1>1, <1>2, <1>5
<1> QED
  BY <1>3, <1>4, <1>5, OutboxStep

-----------------------------------------------------------------------------
(* What a step does to the calls.                                          *)

\* The client being served is one of those to serve; those that are left are others.
LEMMA NextClient ==
  ASSUME TypeOK, Serving, NEW m \in Messages, pending[m] # <<>>
  PROVE  /\ Head(pending[m]) \in Sessions
         /\ Tail(pending[m]) \in Seq(Sessions)
         /\ IsInjective(Tail(pending[m]))
         /\ ToSet(pending[m]) = {Head(pending[m])} \cup ToSet(Tail(pending[m]))
         /\ Head(pending[m]) \notin ToSet(Tail(pending[m]))
         /\ Len(pending[m]) = 1 <=> Tail(pending[m]) = <<>>
<1>1. pending[m] \in Seq(Sessions) /\ IsInjective(pending[m])
  BY DEF TypeOK, Serving
<1>2. /\ Head(pending[m]) \in Sessions
      /\ Tail(pending[m]) \in Seq(Sessions)
      /\ Len(Tail(pending[m])) = Len(pending[m]) - 1
      /\ Len(pending[m]) \in Nat
  BY <1>1, HeadTailProperties, LenProperties
<1>3. Tail(pending[m]) = <<>> <=> Len(Tail(pending[m])) = 0
  BY <1>2, EmptySeq
<1> QED
  BY <1>1, <1>2, <1>3, InjectiveTail, ToSetTail

\* A call has begun with an enumeration of the clients the message is for.
LEMMA BeginStep ==
  ASSUME TypeOK, Registered, NEW m \in Messages, Begin(m)
  PROVE  /\ ToSet(pending'[m]) = Targets(ClientId[m])
         /\ IsInjective(pending'[m])
         /\ send'[m] = IF pending'[m] = <<>> THEN "nil" ELSE "running"
         /\ \A n \in Messages \ {m} : pending'[n] = pending[n] /\ send'[n] = send[n]
<1> DEFINE T == Targets(ClientId[m])
<1>1. IsFiniteSet(T)
  BY FS_Subset DEF Targets, Registered
<1>2. PICK order \in SetToSeqs(T) :
         /\ pending' = [pending EXCEPT ![m] = order]
         /\ send' = [send EXCEPT ![m] = IF order = <<>> THEN "nil" ELSE "running"]
  BY DEF Begin
<1>3. pending'[m] = order
  BY <1>2 DEF TypeOK
<1>4. IsInjective(order) /\ ToSet(order) = T
  BY <1>1, Enumeration
<1> QED
  BY <1>2, <1>3, <1>4 DEF TypeOK

\* The steps of a call that has begun.
CallStep(m) == Enqueue(m) \/ Skip(m) \/ Abort(m)

\* Such a step leaves the other calls alone and serves or forgets clients of its own.
LEMMA CallEffect ==
  ASSUME TypeOK, Serving, NEW m \in Messages, CallStep(m)
  PROVE  /\ send[m] = "running"
         /\ pending[m] # <<>>
         /\ Abort(m) => pending'[m] = <<>> /\ send'[m] = "error"
         /\ Enqueue(m) \/ Skip(m) =>
               /\ pending'[m] = Tail(pending[m])
               /\ send'[m] = IF pending'[m] = <<>> THEN "nil" ELSE "running"
         /\ \A n \in Messages \ {m} : pending'[n] = pending[n] /\ send'[n] = send[n]
         /\ UNCHANGED <<session, stream, writing, due, before, post>>
<1>1. pending[m] # <<>> /\ send[m] = "running"
  BY DEF CallStep, Enqueue, Skip, Abort, Serving
<1>2. Abort(m) => pending'[m] = <<>> /\ send'[m] = "error"
  BY DEF Abort, TypeOK
<1>3. Enqueue(m) \/ Skip(m) =>
         /\ pending'[m] = Tail(pending[m])
         /\ send'[m] = IF pending'[m] = <<>> THEN "nil" ELSE "running"
  BY ZenonT(60), <1>1, NextClient DEF Enqueue, Skip, Advance, TypeOK
<1>4. /\ \A n \in Messages \ {m} : pending'[n] = pending[n] /\ send'[n] = send[n]
      /\ UNCHANGED <<session, stream, writing, due, before, post>>
  BY DEF CallStep, Enqueue, Skip, Advance, Abort, TypeOK
<1> QED
  BY <1>1, <1>2, <1>3, <1>4

\* Every other step leaves the calls alone, and the clients they have to reach unless
\* one of them hangs up.
LEMMA OtherStep ==
  ASSUME TypeOK, [Next]_vars, \A m \in Messages : ~Begin(m) /\ ~CallStep(m)
  PROVE  /\ UNCHANGED <<send, pending, before>>
         /\ UNCHANGED due \/ \E s \in Sessions : HangUp(s)
<1>1. ASSUME NEW s \in Sessions, Connect(s) \/ Take(s) \/ Written(s) \/ Leave(s) \/ Unregister(s)
      PROVE  UNCHANGED sending
  BY <1>1 DEF Connect, Take, Written, Leave, Unregister
<1>2. ASSUME NEW s \in Sessions, HangUp(s)
      PROVE  UNCHANGED <<send, pending, before>>
  BY <1>2 DEF HangUp
<1>3. ASSUME NEW m \in Posted, Post(m) \/ Abandon(m) \/ Answer(m)
      PROVE  UNCHANGED sending
  BY <1>3 DEF Post, Abandon, Answer
<1>4. CASE UNCHANGED vars
  BY <1>4 DEF vars
<1> QED
  BY <1>1, <1>2, <1>3, <1>4 DEF Next, Quiet, CallStep, sending

\* A call that has begun has begun for good, one that has returned has returned for
\* good; neither begins again or gets clients to serve.
LEMMA CallsOnlyAdvance ==
  ASSUME TypeOK, Registered, Serving, [Next]_vars, NEW m \in Messages, send[m] # "new"
  PROVE  /\ send'[m] # "new"
         /\ send[m] \in {"nil", "error"} => send'[m] = send[m]
         /\ ToSet(pending'[m]) \subseteq ToSet(pending[m])
         /\ before'[m] = before[m]
<1>1. ASSUME NEW n \in Messages, Begin(n)
      PROVE  /\ n # m
             /\ send'[m] = send[m]
             /\ pending'[m] = pending[m]
             /\ before'[m] = before[m]
  <2>1. n # m
    BY <1>1 DEF Begin, Ready
  <2> QED
    BY <1>1, <2>1, BeginStep DEF Begin, TypeOK
<1>2. ASSUME NEW n \in Messages, CallStep(n), n # m
      PROVE  send'[m] = send[m] /\ pending'[m] = pending[m] /\ before'[m] = before[m]
  BY <1>2, CallEffect
<1>3. CASE CallStep(m)
  <2>1. /\ send[m] = "running"
        /\ pending[m] # <<>>
        /\ pending'[m] \in {<<>>, Tail(pending[m])}
        /\ send'[m] \in {"nil", "error", "running"}
        /\ before' = before
    BY <1>3, CallEffect DEF CallStep
  <2>2. ToSet(Tail(pending[m])) \subseteq ToSet(pending[m])
    BY <2>1, NextClient
  <2> QED
    BY <2>1, <2>2, ToSetEmpty
<1> QED
  BY <1>1, <1>2, <1>3, OtherStep

-----------------------------------------------------------------------------
(* The parts of the invariant, one by one.                                 *)

\* Clients register and unregister one at a time; a handler closes the done channel
\* because its client has gone.
LEMMA RegisteredStep ==
  ASSUME TypeOK, Registered, [Next]_vars
  PROVE  Registered'
<1> USE DEF Registered, TypeOK, session
<1>1. ASSUME NEW s \in Sessions, Connect(s)
      PROVE  Registered'
  BY <1>1, FS_AddElement DEF Connect
<1>2. ASSUME NEW s \in Sessions, HangUp(s)
      PROVE  Registered'
  BY <1>2 DEF HangUp
<1>3. ASSUME NEW s \in Sessions, Take(s) \/ Written(s)
      PROVE  Registered'
  BY <1>3 DEF Take, Written
<1>4. ASSUME NEW s \in Sessions, Leave(s)
      PROVE  Registered'
  BY <1>4 DEF Leave
<1>5. ASSUME NEW s \in Sessions, Unregister(s)
      PROVE  Registered'
  BY <1>5, FS_RemoveElement DEF Unregister
<1>6. CASE UNCHANGED session
  BY <1>6
<1>7. ASSUME NEW m \in Messages, Begin(m) \/ CallStep(m)
      PROVE  UNCHANGED session
  BY <1>7 DEF Begin, CallStep, Enqueue, Skip, Advance, Abort
<1>8. ASSUME NEW m \in Posted, Post(m) \/ Abandon(m) \/ Answer(m)
      PROVE  UNCHANGED session
  BY <1>8 DEF Post, Abandon, Answer
<1>9. CASE UNCHANGED vars
  BY <1>9 DEF vars
<1> QED
  BY <1>1, <1>2, <1>3, <1>4, <1>5, <1>6, <1>7, <1>8, <1>9 DEF Next, Quiet, CallStep

\* A call begins with clients its message is for, each once, and only loses some.
LEMMA ServingStep ==
  ASSUME TypeOK, Registered, Serving, [Next]_vars
  PROVE  Serving'
<1> SUFFICES ASSUME NEW m \in Messages
             PROVE  /\ send'[m] = "running" <=> pending'[m] # <<>>
                    /\ IsInjective(pending'[m])
                    /\ \A s \in ToSet(pending'[m]) : ClientId[m] \in {s, Everyone}
  BY DEF Serving
<1>1. CASE Begin(m)
  BY <1>1, BeginStep DEF Targets
<1>2. CASE CallStep(m)
  <2>1. CASE Abort(m)
    BY <1>2, <2>1, CallEffect, ToSetEmpty DEF IsInjective
  <2>2. CASE Enqueue(m) \/ Skip(m)
    <3>1. /\ pending[m] # <<>>
          /\ pending'[m] = Tail(pending[m])
          /\ send'[m] = IF pending'[m] = <<>> THEN "nil" ELSE "running"
      BY <1>2, <2>2, CallEffect
    <3> QED
      BY <3>1, NextClient DEF Serving
  <2> QED
    BY <1>2, <2>1, <2>2 DEF CallStep
<1>3. CASE pending'[m] = pending[m] /\ send'[m] = send[m]
  BY <1>3 DEF Serving
<1>4. ASSUME NEW n \in Messages \ {m}, Begin(n) \/ CallStep(n)
      PROVE  pending'[m] = pending[m] /\ send'[m] = send[m]
  BY <1>4, BeginStep, CallEffect
<1> QED
  BY <1>1, <1>2, <1>3, <1>4, OtherStep

\* A message is put in the channel of a client it is for, by a call that has that
\* client behind it.
LEMMA PutEffect ==
  ASSUME TypeOK, Serving, NEW r \in Sessions, NEW m \in Messages, Put(r, m)
  PROVE  /\ send[m] = "running"
         /\ send'[m] # "new"
         /\ r \in ToSet(pending[m])
         /\ r \notin ToSet(pending'[m])
         /\ before' = before
<1>1. CallStep(m) /\ Enqueue(m) /\ r = Head(pending[m])
  BY DEF CallStep, Put
<1>2. /\ send[m] = "running"
      /\ pending[m] # <<>>
      /\ pending'[m] = Tail(pending[m])
      /\ send'[m] \in {"nil", "running"}
      /\ before' = before
  BY <1>1, CallEffect
<1> QED
  BY <1>1, <1>2, NextClient

\* So a client never has a message that a call still has to put in its channel.
LEMMA DeliveredStep ==
  ASSUME TypeOK, Registered, Serving, Delivered, [Next]_vars
  PROVE  Delivered'
<1> SUFFICES ASSUME NEW r \in Sessions, NEW m \in ToSet(Outbox(r)')
             PROVE  send'[m] # "new" /\ r \notin ToSet(pending'[m])
  BY DEF Delivered
<1>1. CASE m \in ToSet(Outbox(r))
  <2>1. m \in Messages
    BY <1>1, OutboxType, ToSetType
  <2> QED
    BY <1>1, <2>1, CallsOnlyAdvance DEF Delivered
<1>2. CASE m \in Messages /\ Put(r, m)
  BY <1>2, PutEffect
<1> QED
  BY <1>1, <1>2, OutboxElements

\* No message of another client, because no call has another client behind it.
LEMMA IsolationStep ==
  ASSUME TypeOK, Serving, Isolation, [Next]_vars
  PROVE  Isolation'
<1> SUFFICES ASSUME NEW r \in Sessions, NEW m \in ToSet(Outbox(r)')
             PROVE  ClientId[m] \in {r, Everyone}
  BY DEF Isolation
<1>1. CASE m \in ToSet(Outbox(r))
  BY <1>1 DEF Isolation
<1>2. CASE m \in Messages /\ Put(r, m)
  BY <1>2, PutEffect DEF Serving
<1> QED
  BY <1>1, <1>2, OutboxElements

\* A call notes as returned before it those that have returned.
LEMMA ReturnedStep ==
  ASSUME TypeOK, Registered, Serving, Returned, [Next]_vars
  PROVE  Returned'
<1> SUFFICES ASSUME NEW m \in Messages, NEW n \in before'[m]
             PROVE  send'[n] \in {"nil", "error"}
  BY DEF Returned
<1>1. n \in Messages /\ send[n] \in {"nil", "error"}
  <2>1. CASE Begin(m)
    BY <2>1 DEF Begin, TypeOK
  <2>2. CASE before'[m] = before[m]
    BY <2>2 DEF Returned, TypeOK
  <2>3. ASSUME NEW k \in Messages, k # m, Begin(k)
        PROVE  before'[m] = before[m]
    BY <2>3 DEF Begin, TypeOK
  <2>4. ASSUME NEW k \in Messages, CallStep(k)
        PROVE  before'[m] = before[m]
    BY <2>4, CallEffect
  <2> QED
    BY <2>1, <2>2, <2>3, <2>4, OtherStep
<1> QED
  BY <1>1, CallsOnlyAdvance

\* The order that is kept, as a property of a queue of messages.
Ordered(q, b) == \A i, j \in DOMAIN q : i < j => q[j] \notin b[q[i]]

\* Losing a message in the middle keeps the order of the others, and makes no duplicate.
LEMMA LosingKeepsOrder ==
  ASSUME NEW b, NEW p \in Seq(Messages), NEW w \in Seq(Messages), NEW q \in Seq(Messages),
         IsInjective((p \o w) \o q), Ordered((p \o w) \o q, b)
  PROVE  IsInjective(p \o q) /\ Ordered(p \o q, b)
<1> DEFINE all == (p \o w) \o q
           rest == p \o q
           at(i) == IF i <= Len(p) THEN i ELSE i + Len(w)
<1>1. /\ Len(p) \in Nat /\ Len(w) \in Nat /\ Len(q) \in Nat
      /\ p \o w \in Seq(Messages)
      /\ Len(p \o w) = Len(p) + Len(w)
      /\ \A i \in 1..(Len(p) + Len(w)) : (p \o w)[i] = IF i <= Len(p) THEN p[i] ELSE w[i - Len(p)]
  BY ConcatProperties, LenProperties
<1>2. /\ all \in Seq(Messages)
      /\ Len(all) = Len(p) + Len(w) + Len(q)
      /\ \A i \in 1..(Len(p) + Len(w) + Len(q)) :
            all[i] = IF i <= Len(p) + Len(w) THEN (p \o w)[i] ELSE q[i - (Len(p) + Len(w))]
  BY <1>1, ConcatProperties
<1>3. /\ rest \in Seq(Messages)
      /\ Len(rest) = Len(p) + Len(q)
      /\ \A i \in 1..(Len(p) + Len(q)) : rest[i] = IF i <= Len(p) THEN p[i] ELSE q[i - Len(p)]
  BY <1>1, ConcatProperties
<1>4. DOMAIN all = 1..(Len(p) + Len(w) + Len(q)) /\ DOMAIN rest = 1..(Len(p) + Len(q))
  BY <1>2, <1>3, LenProperties
<1> HIDE DEF all, rest
<1>5. \A i \in DOMAIN rest : at(i) \in DOMAIN all /\ rest[i] = all[at(i)]
  <2> SUFFICES ASSUME NEW i \in DOMAIN rest
               PROVE  at(i) \in DOMAIN all /\ rest[i] = all[at(i)]
    OBVIOUS
  <2>1. CASE i <= Len(p)
    <3>1. all[i] = (p \o w)[i] /\ (p \o w)[i] = p[i] /\ rest[i] = p[i]
      BY <1>1, <1>2, <1>3, <1>4, <2>1
    <3> QED
      BY <1>1, <1>4, <2>1, <3>1
  <2>2. CASE i > Len(p)
    <3>1. all[i + Len(w)] = q[i + Len(w) - (Len(p) + Len(w))] /\ rest[i] = q[i - Len(p)]
      BY <1>1, <1>2, <1>3, <1>4, <2>2
    <3>2. i + Len(w) - (Len(p) + Len(w)) = i - Len(p)
      BY <1>1, <1>4
    <3> QED
      BY <1>1, <1>4, <2>2, <3>1, <3>2
  <2> QED
    BY <1>1, <1>4, <2>1, <2>2
<1>6. \A i, j \in DOMAIN rest : (i < j => at(i) < at(j)) /\ (at(i) = at(j) => i = j)
  BY <1>1, <1>4
<1>7. IsInjective(all) /\ Ordered(all, b)
  BY DEF all
<1> HIDE DEF at
<1>8. IsInjective(rest)
  BY <1>5, <1>6, <1>7 DEF IsInjective
<1>9. Ordered(rest, b)
  BY <1>5, <1>6, <1>7 DEF Ordered
<1> QED
  BY <1>8, <1>9 DEF rest

\* A new message that no message in the queue has to come after keeps the order.
LEMMA AppendKeepsOrder ==
  ASSUME NEW b, NEW q \in Seq(Messages), NEW m \in Messages,
         Ordered(q, b), \A n \in ToSet(q) : m \notin b[n]
  PROVE  Ordered(Append(q, m), b)
<1>1. /\ Append(q, m) \in Seq(Messages)
      /\ Len(q) \in Nat
      /\ Len(Append(q, m)) = Len(q) + 1
      /\ \A i \in 1..Len(q) : Append(q, m)[i] = q[i] /\ q[i] \in ToSet(q)
      /\ Append(q, m)[Len(q) + 1] = m
  BY AppendProperties, LenProperties, ToSetType
<1>2. DOMAIN q = 1..Len(q) /\ DOMAIN Append(q, m) = 1..(Len(q) + 1)
  BY <1>1, LenProperties
<1> QED
  BY <1>1, <1>2 DEF Ordered

\* A message is put last, when the calls that had to come before it are over and it is
\* over for none; what is already there keeps its place.
LEMMA OrderStep ==
  ASSUME TypeOK, Registered, Serving, Delivered, Returned, OrderKept, [Next]_vars
  PROVE  OrderKept'
<1> SUFFICES ASSUME NEW r \in Sessions
             PROVE  IsInjective(Outbox(r)') /\ Ordered(Outbox(r)', before')
  BY DEF OrderKept, Ordered
<1>1. Outbox(r) \in Seq(Messages) /\ IsInjective(Outbox(r)) /\ Ordered(Outbox(r), before)
  BY OutboxType DEF OrderKept, Ordered
<1>2. IsInjective(Outbox(r)') /\ Ordered(Outbox(r)', before)
  <2>1. CASE Kept(r)
    BY <1>1, <2>1 DEF Kept
  <2>2. CASE Lost(r)
    BY <1>1, <2>2, LosingKeepsOrder DEF Lost, Outbox, TypeOK
  <2>3. ASSUME NEW m \in Messages, Put(r, m)
        PROVE  IsInjective(Outbox(r)') /\ Ordered(Outbox(r)', before)
    <3>1. send[m] = "running" /\ r \in ToSet(pending[m])
      BY <2>3, PutEffect
    <3>2. m \notin ToSet(Outbox(r))
      BY <3>1 DEF Delivered
    <3>3. \A n \in ToSet(Outbox(r)) : m \notin before[n]
      BY <1>1, <3>1, ToSetType DEF Returned
    <3> QED
      BY <1>1, <2>3, <3>2, <3>3, InjectiveAppend, AppendKeepsOrder DEF Put
  <2> QED
    BY <2>1, <2>2, <2>3, OutboxStep
<1>3. \A n \in ToSet(Outbox(r)') : before'[n] = before[n]
  <2> SUFFICES ASSUME NEW n \in ToSet(Outbox(r)')
               PROVE  before'[n] = before[n]
    OBVIOUS
  <2>1. n \in Messages /\ (n \in ToSet(Outbox(r)) \/ Put(r, n))
    BY OutboxElements
  <2>2. send[n] # "new"
    BY <2>1, PutEffect DEF Delivered
  <2> QED
    BY <2>1, <2>2, CallsOnlyAdvance
<1>4. \A i \in DOMAIN Outbox(r)' : Outbox(r)'[i] \in ToSet(Outbox(r)')
  BY DEF ToSet
<1> QED
  BY <1>2, <1>3, <1>4 DEF Ordered

\* Whom a call has to reach it has served or will: it begins with all of them, it skips
\* none but those who have gone, and it leaves out the others only when it fails.
LEMMA ReachingStep ==
  ASSUME TypeOK, Registered, Serving, Reaching, [Next]_vars
  PROVE  Reaching'
<1> SUFFICES ASSUME NEW m \in Messages
             PROVE  /\ due'[m] \cap hungUp' = {}
                    /\ send'[m] \in {"running", "nil"} =>
                          \A s \in due'[m] : s \in ToSet(pending'[m]) \/ m \in ToSet(Outbox(s)')
  BY DEF Reaching
<1>1. CASE Begin(m)
  <2>1. due'[m] = Audience(ClientId[m]) /\ hungUp' = hungUp
    BY <1>1 DEF Begin, session, TypeOK
  <2>2. Audience(ClientId[m]) \subseteq Targets(ClientId[m])
    BY DEF Audience, Targets, Registered
  <2>3. Audience(ClientId[m]) \cap hungUp = {}
    BY DEF Audience
  <2> QED
    BY <1>1, <2>1, <2>2, <2>3, BeginStep
<1>2. ASSUME due'[m] \subseteq due[m], due'[m] \cap hungUp' = {},
             send'[m] \in {"running", "nil"} =>
                /\ send[m] \in {"running", "nil"}
                /\ \A s \in due[m] \cap ToSet(pending[m]) :
                      s \in ToSet(pending'[m]) \/ Put(s, m)
      PROVE  /\ due'[m] \cap hungUp' = {}
             /\ send'[m] \in {"running", "nil"} =>
                   \A s \in due'[m] : s \in ToSet(pending'[m]) \/ m \in ToSet(Outbox(s)')
  <2>1. due[m] \subseteq Sessions /\ due[m] \cap hungUp = {}
    BY DEF TypeOK, Reaching
  <2> QED
    BY <1>2, <2>1, OutboxElements DEF Reaching
<1>3. CASE CallStep(m)
  <2>1. due' = due /\ hungUp' = hungUp /\ send[m] = "running" /\ pending[m] # <<>>
    BY <1>3, CallEffect DEF session
  <2>2. CASE Abort(m)
    BY <1>2, <1>3, <2>1, <2>2, CallEffect DEF Reaching
  <2>3. CASE Enqueue(m) \/ Skip(m)
    <3>1. ToSet(pending[m]) = {Head(pending[m])} \cup ToSet(pending'[m])
      BY <1>3, <2>1, <2>3, CallEffect, NextClient
    <3>2. CASE Enqueue(m)
      <4>1. Head(pending[m]) \in Sessions
        BY <2>1, NextClient
      <4>2. \A s \in Sessions : s = Head(pending[m]) => Put(s, m)
        BY <3>2, EnqueueAppends DEF Put
      <4> QED
        BY <1>2, <2>1, <3>1, <4>1, <4>2 DEF Reaching
    <3>3. CASE Skip(m)
      <4>1. Head(pending[m]) \notin due[m]
        BY <3>3 DEF Skip, Registered, Reaching
      <4> QED
        BY <1>2, <2>1, <3>1, <4>1 DEF Reaching
    <3> QED
      BY <2>3, <3>2, <3>3
  <2> QED
    BY <1>3, <2>2, <2>3 DEF CallStep
<1>4. CASE send'[m] = send[m] /\ pending'[m] = pending[m] /\ due'[m] = due[m] /\ hungUp' = hungUp
  BY <1>2, <1>4 DEF Reaching
<1>5. ASSUME NEW n \in Messages \ {m}, Begin(n) \/ CallStep(n)
      PROVE  send'[m] = send[m] /\ pending'[m] = pending[m] /\ due'[m] = due[m] /\ hungUp' = hungUp
  BY <1>5, BeginStep, CallEffect DEF Begin, session, TypeOK
<1>6. ASSUME NEW s \in Sessions, HangUp(s)
      PROVE  /\ send' = send /\ pending' = pending
             /\ due'[m] = due[m] \ {s} /\ hungUp' = hungUp \cup {s}
  BY <1>6 DEF HangUp
<1>7. ASSUME \A n \in Messages : ~Begin(n) /\ ~CallStep(n), \A s \in Sessions : ~HangUp(s)
      PROVE  send' = send /\ pending' = pending /\ due' = due /\ hungUp' = hungUp
  <2>1. UNCHANGED <<send, pending, due>>
    BY <1>7, OtherStep
  <2>2. ASSUME NEW s \in Sessions, Connect(s) \/ Take(s) \/ Written(s) \/ Leave(s) \/ Unregister(s)
        PROVE  UNCHANGED hungUp
    BY <2>2 DEF Connect, Take, Written, Leave, Unregister, session
  <2>3. ASSUME NEW n \in Posted, Post(n) \/ Abandon(n) \/ Answer(n)
        PROVE  UNCHANGED hungUp
    BY <2>3 DEF Post, Abandon, Answer, session
  <2>4. CASE UNCHANGED vars
    BY <2>4 DEF vars
  <2> QED
    BY <1>7, <2>1, <2>2, <2>3, <2>4 DEF Next, Quiet, CallStep
<1>8. CASE \E s \in Sessions : HangUp(s)
  BY <1>2, <1>6, <1>8 DEF Reaching
<1> QED
  BY <1>1, <1>3, <1>4, <1>5, <1>7, <1>8

\* A call for a POST fails only after its client has gone; the handler answers after the
\* call, and tells who is still there.
LEMMA AnsweringStep ==
  ASSUME TypeOK, Serving, Registered, Answering, [Next]_vars
  PROVE  Answering'
<1> SUFFICES ASSUME NEW m \in Posted
             PROVE  /\ send'[m] = "error" => post'[m] \in {"abandoned", "returned"}
                    /\ post'[m] = "answered" => send'[m] = "nil"
  BY DEF Answering
<1>1. m \in Messages
  BY ClientIdAssumption
<1>2. /\ send[m] = "error" => post[m] \in {"abandoned", "returned"}
      /\ post[m] = "answered" => send[m] = "nil"
  BY DEF Answering
<1>3. CASE Begin(m)
  BY <1>1, <1>2, <1>3, BeginStep DEF Begin, Ready
<1>4. CASE CallStep(m)
  <2>1. send[m] = "running" /\ post' = post
    BY <1>1, <1>4, CallEffect
  <2>2. Abort(m) => post[m] = "abandoned"
    BY DEF Abort
  <2>3. Enqueue(m) \/ Skip(m) => send'[m] \in {"nil", "running"}
    BY <1>1, <1>4, CallEffect
  <2> QED
    BY <1>2, <1>4, <2>1, <2>2, <2>3 DEF CallStep
<1>5. CASE Post(m) \/ Abandon(m) \/ Answer(m)
  BY <1>2, <1>5 DEF Post, Abandon, Answer, InProgress, sending, TypeOK
<1>6. CASE send'[m] = send[m] /\ post'[m] = post[m]
  BY <1>2, <1>6
<1>7. ASSUME NEW n \in Messages \ {m}, Begin(n) \/ CallStep(n)
      PROVE  send'[m] = send[m] /\ post'[m] = post[m]
  BY <1>1, <1>7, BeginStep, CallEffect DEF Begin
<1>8. ASSUME NEW n \in Posted \ {m}, Post(n) \/ Abandon(n) \/ Answer(n)
      PROVE  send'[m] = send[m] /\ post'[m] = post[m]
  BY <1>8 DEF Post, Abandon, Answer, sending, TypeOK
<1>9. ASSUME NEW s \in Sessions,
             Connect(s) \/ HangUp(s) \/ Take(s) \/ Written(s) \/ Leave(s) \/ Unregister(s)
      PROVE  send'[m] = send[m] /\ post'[m] = post[m]
  BY <1>9 DEF Connect, HangUp, Take, Written, Leave, Unregister, sending
<1>10. CASE UNCHANGED vars
  BY <1>6, <1>10 DEF vars
<1> QED
  BY <1>3, <1>4, <1>5, <1>6, <1>7, <1>8, <1>9, <1>10 DEF Next, Quiet, CallStep

-----------------------------------------------------------------------------
(* The theorems.                                                           *)

\* The invariant holds when the server starts.
LEMMA InitIInv == Init => IInv
<1> SUFFICES ASSUME Init
             PROVE  IInv
  OBVIOUS
<1>1. \A s \in Sessions : Outbox(s) = <<>>
  BY ConcatEmptySeq, EmptySeq DEF Init, Outbox
<1>2. TypeOK
  BY BufferAssumption, EmptySeq DEF Init, TypeOK
<1>3. Registered
  BY FS_EmptySet DEF Init, Registered
<1>4. Serving /\ Returned /\ Reaching
  BY ToSetEmpty DEF Init, Serving, Returned, Reaching, IsInjective
<1>5. Delivered /\ Isolation /\ OrderKept
  BY <1>1, ToSetEmpty DEF Delivered, Isolation, OrderKept, IsInjective
<1>6. Answering
  BY ClientIdAssumption DEF Init, Answering
<1> QED
  BY <1>2, <1>3, <1>4, <1>5, <1>6 DEF IInv

\* Every step keeps it.
LEMMA NextIInv == IInv /\ [Next]_vars => IInv'
BY TypeStep, RegisteredStep, ServingStep, DeliveredStep, IsolationStep, ReturnedStep,
   OrderStep, ReachingStep, AnsweringStep DEF IInv

\* So it holds in every state of the transport.
LEMMA Invariance == Spec => []IInv
BY InitIInv, NextIInv, PTL DEF Spec

\* The types are kept; in particular no channel is ever over its capacity.
THEOREM TypeCorrect == Spec => []TypeOK
<1>1. IInv => TypeOK
  BY DEF IInv
<1> QED
  BY <1>1, Invariance, PTL

\* handleSSE, Send: no session ever gets a message that is for another one, whoever
\* connects and disconnects meanwhile.
THEOREM SessionsIsolated == Spec => []Isolation
<1>1. IInv => Isolation
  BY DEF IInv
<1> QED
  BY <1>1, Invariance, PTL

\* Send: no client gets a message twice, or gets one after another that was sent when
\* the first had been sent already.
THEOREM OrderIsKept == Spec => []OrderKept
<1>1. IInv => OrderKept
  BY DEF IInv
<1> QED
  BY <1>1, Invariance, PTL

\* Send, handleStreamableHTTPPost: a call that returned nil, and one whose client got
\* its 202, has reached every client it was for that is still there.
THEOREM LiveClientsReached == Spec => []ReachesLiveClients
<1>1. IInv => ReachesLiveClients
  <2> SUFFICES ASSUME IInv, NEW m \in Messages, NEW s \in due[m],
                      send[m] = "nil" \/ (m \in Posted /\ post[m] = "answered")
               PROVE  m \in ToSet(Outbox(s))
    BY DEF ReachesLiveClients
  <2>1. send[m] = "nil"
    BY DEF IInv, Answering
  <2>2. pending[m] = <<>>
    BY <2>1 DEF IInv, Serving
  <2> QED
    BY <2>1, <2>2, ToSetEmpty DEF IInv, Reaching
<1> QED
  BY <1>1, Invariance, PTL

===============================================================================
