----------------------------- MODULE PromptCache ------------------------------
(***************************************************************************)
(* CachedLLM, the LRU prompt cache in front of the LLM backend: a map from *)
(* hashed prompts to list elements and a list of entries, the one used     *)
(* last first, under one mutex.  The mutex is held neither during the call *)
(* of the backend, nor while a hit copies the response of the entry it     *)
(* found: between its steps other callers may find, store, evict and       *)
(* flush.                                                                  *)
(*                                                                         *)
(* Entries are objects that callers point to.  An entry is its id; ids     *)
(* that neither the cache nor a caller refers to are free for reuse, as    *)
(* memory is.  The hit, miss and eviction counters are left out.           *)
(***************************************************************************)
EXTENDS RecencyList

CONSTANTS
    Callers,    \* goroutines that call Complete
    Keys,       \* hashed prompts
    Texts,      \* texts a backend answers with
    Capacity,   \* capacity
    EntryIds,   \* bound of the model: the entries that exist at the same time
    MaxFlushes  \* bound of the model: calls of Clear

NoEntry == "nil"

ASSUME CapacityAssumption == Capacity \in Nat \ {0} /\ MaxFlushes \in Nat
ASSUME NoEntryAssumption == NoEntry \notin EntryIds

VARIABLES
    items,      \* the map, from keys to entries
    evictList,  \* the list of entries, the one used last first
    entry,      \* the contents of the entries
    call,       \* what each caller is doing
    flushes,    \* calls of Clear so far
    seen,       \* history: the responses cached for a caller's key since it looked it up
    used        \* history: the Capacity keys used last, since the last flush

vars == <<items, evictList, entry, call, flushes, seen, used>>

Unused == [key |-> NoEntry, response |-> [of |-> NoEntry, text |-> NoEntry]]

Responses == [of : Keys, text : Texts]
Entries == [key : Keys, response : Responses]

Idle == [at |-> "idle"]
Calls ==
    {Idle}
    \cup [at : {"found"}, key : Keys, entry : EntryIds]
    \cup [at : {"missed"}, key : Keys]
    \cup [at : {"storing"}, key : Keys, response : Responses]

TypeOK ==
    /\ items \in [Keys -> EntryIds \cup {NoEntry}]
    /\ evictList \in Seq(EntryIds)
    /\ Len(evictList) <= Capacity
    /\ entry \in [EntryIds -> Entries \cup {Unused}]
    /\ call \in [Callers -> Calls]
    /\ flushes \in 0..MaxFlushes
    /\ seen \in [Callers -> SUBSET Responses]
    /\ used \in Seq(Keys)

Init ==
    /\ items = [k \in Keys |-> NoEntry]
    /\ evictList = <<>>
    /\ entry = [e \in EntryIds |-> Unused]
    /\ call = [c \in Callers |-> Idle]
    /\ flushes = 0
    /\ seen = [c \in Callers |-> {}]
    /\ used = <<>>

-----------------------------------------------------------------------------

Finding == {c \in Callers : call[c].at = "found"}

\* The entries something refers to.
Live == ToSet(evictList) \cup {call[c].entry : c \in Finding}

MoveToFront(e) == ToFront(evictList, e)

\* The responses cached under a key, none or one.
CachedFor(k, map, contents) ==
    IF map[k] = NoEntry THEN {} ELSE {contents[map[k]].response}

\* The keys that a step uses, one at most: a hit, or a response being stored.
UsedKeys ==
    {call'[c].key : c \in {d \in Callers : call[d] = Idle /\ call'[d].at = "found"}}
    \cup {call[c].key : c \in {d \in Callers : call[d].at = "storing" /\ call'[d] = Idle}}

\* The Capacity keys used last, once k is used.
Latest(k) ==
    LET list == ToFront(used, k)
    IN  IF Len(list) > Capacity THEN Front(list) ELSE list

\* What every step does to the history, and to the entries nothing refers to any more.
Observe(contents) ==
    /\ entry' = [e \in EntryIds |-> IF e \in Live' THEN contents[e] ELSE Unused]
    /\ seen' = [c \in Callers |->
                  IF call'[c].at = "found"
                  THEN seen[c] \cup CachedFor(call'[c].key, items', entry') ELSE {}]
    /\ used' = IF flushes' # flushes THEN <<>>
               ELSE IF UsedKeys = {} THEN used
               ELSE Latest(CHOOSE k \in UsedKeys : TRUE)

\* A variant in which a hit leaves the list as it is.
Lookup_NoTouch(c, k) ==
    /\ call[c] = Idle
    /\ call' = [call EXCEPT ![c] =
                  IF items[k] = NoEntry THEN [at |-> "missed", key |-> k]
                  ELSE [at |-> "found", key |-> k, entry |-> items[k]]]
    /\ UNCHANGED <<items, evictList, flushes>>
    /\ Observe(entry)

\* Complete, first critical section.
Lookup(c, k) ==
    /\ call[c] = Idle
    /\ IF items[k] = NoEntry
       THEN /\ call' = [call EXCEPT ![c] = [at |-> "missed", key |-> k]]
            /\ UNCHANGED evictList
       ELSE /\ call' = [call EXCEPT ![c] = [at |-> "found", key |-> k, entry |-> items[k]]]
            /\ evictList' = MoveToFront(items[k])
    /\ UNCHANGED <<items, flushes>>
    /\ Observe(entry)

\* A hit copies the response of its entry, without the mutex, and returns it.
ReturnHit(c) ==
    /\ call[c].at = "found"
    /\ call' = [call EXCEPT ![c] = Idle]
    /\ UNCHANGED <<items, evictList, flushes>>
    /\ Observe(entry)

\* The backend answers a miss ...
BackendAnswers(c) ==
    /\ call[c].at = "missed"
    /\ \E text \in Texts :
          call' = [call EXCEPT ![c] =
                     [at |-> "storing", key |-> call[c].key,
                      response |-> [of |-> call[c].key, text |-> text]]]
    /\ UNCHANGED <<items, evictList, flushes>>
    /\ Observe(entry)

\* ... or fails, and nothing is stored.
BackendFails(c) ==
    /\ call[c].at = "missed"
    /\ call' = [call EXCEPT ![c] = Idle]
    /\ UNCHANGED <<items, evictList, flushes>>
    /\ Observe(entry)

\* Another caller has stored the key meanwhile: its entry gets the new response.
Refresh(c) ==
    /\ items[call[c].key] # NoEntry
    /\ UNCHANGED items
    /\ LET e == items[call[c].key]
       IN  /\ evictList' = MoveToFront(e)
           /\ Observe([entry EXCEPT ![e].response = call[c].response])

\* A variant that does not look whether another caller has stored the key.
Insert_NoRecheck(c) ==
    \E e \in EntryIds \ Live :
        LET list == <<e>> \o evictList
            over == Len(list) > Capacity
            oldest == Last(list)
        IN  /\ evictList' = IF over THEN Front(list) ELSE list
            /\ items' = [k \in Keys |->
                           IF over /\ k = entry[oldest].key THEN NoEntry
                           ELSE IF k = call[c].key THEN e ELSE items[k]]
            /\ Observe([entry EXCEPT ![e] = [key |-> call[c].key, response |-> call[c].response]])

\* A variant that, when the cache is full, reuses the oldest entry for the new key.
Insert_ReusesOldest(c) ==
    /\ items[call[c].key] = NoEntry
    /\ \E e \in EntryIds \ Live :
          LET over == Len(evictList) = Capacity
              slot == IF over THEN Last(evictList) ELSE e
          IN  /\ evictList' = ToFront(evictList, slot)
              /\ items' = [k \in Keys |->
                             IF k = call[c].key THEN slot
                             ELSE IF items[k] = slot THEN NoEntry ELSE items[k]]
              /\ Observe([entry EXCEPT ![slot] =
                            [key |-> call[c].key, response |-> call[c].response]])

\* The key is still missing: a new entry, and removeOldest if that is one too many.
Insert(c) ==
    /\ items[call[c].key] = NoEntry
    /\ \E e \in EntryIds \ Live :
          LET list == <<e>> \o evictList
              over == Len(list) > Capacity
              oldest == Last(list)
          IN  /\ evictList' = IF over THEN Front(list) ELSE list
              /\ items' = [k \in Keys |->
                             IF k = call[c].key THEN e
                             ELSE IF over /\ k = entry[oldest].key THEN NoEntry ELSE items[k]]
              /\ Observe([entry EXCEPT ![e] =
                            [key |-> call[c].key, response |-> call[c].response]])

\* Complete, second critical section, after a successful call.
Store(c) ==
    /\ call[c].at = "storing"
    /\ call' = [call EXCEPT ![c] = Idle]
    /\ UNCHANGED flushes
    /\ Refresh(c) \/ Insert(c)

Clear ==
    /\ flushes < MaxFlushes
    /\ flushes' = flushes + 1
    /\ items' = [k \in Keys |-> NoEntry]
    /\ evictList' = <<>>
    /\ UNCHANGED call
    /\ Observe(entry)

Next ==
    \/ \E c \in Callers :
          \/ \E k \in Keys : Lookup(c, k)
          \/ ReturnHit(c) \/ BackendAnswers(c) \/ BackendFails(c) \/ Store(c)
    \/ Clear

Spec == Init /\ [][Next]_vars

-----------------------------------------------------------------------------
(* Properties.                                                             *)

\* The map and the list describe the same entries, whichever callers missed the
\* same key together: each element of the list is the element of its own key,
\* each key of the map has its element in the list, and an entry holds a response to
\* its own prompt.
Coherent ==
    /\ \A k \in Keys :
          items[k] # NoEntry =>
              /\ items[k] \in ToSet(evictList)
              /\ entry[items[k]].key = k
              /\ entry[items[k]].response.of = k
    /\ \A i \in DOMAIN evictList : items[entry[evictList[i]].key] = evictList[i]
    /\ IsInjective(evictList)

\* Although a hit reads its entry after it has let go of the mutex, while others
\* replace the response, evict the entry and flush the cache, what it returns was
\* the cached response of its own prompt at some moment since it looked it up.
HitIsAtomic == \A c \in Finding : entry[call[c].entry].response \in seen[c]

\* The bounded map: what was used last is read off the calls, not off evictList.
LRU == INSTANCE BoundedCache WITH
    recent   <- used,
    response <- [k \in Keys |-> CachedFor(k, items, entry)]

\* Every step of the concurrent cache is a read, a write or a flush of a map that
\* keeps the Capacity prompts used last, or changes nothing in it: callers that miss
\* together never duplicate a prompt, never evict one out of turn and never lose one
\* that was not due.
ImplementsLRU == LRU!Spec

=============================================================================
