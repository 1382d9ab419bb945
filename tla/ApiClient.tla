------------------------------ MODULE ApiClient -------------------------------
(* The client of an embedding API (embeddings.rs): callers put their texts in   *)
(* a bounded queue and wait, workers send one request after the other and      *)
(* answer whoever asked. The provider is external.                             *)
EXTENDS Naturals, Sequences, FiniteSets

CONSTANTS
    Callers, Workers,
    Nobody,             \* no caller
    NoIndex,            \* an item without an index
    QueueCapacity, MaxRetries,
    Shapes              \* the ways in which a provider lays out its answers

ASSUME QueueAssumption   == QueueCapacity \in Nat
ASSUME RetriesAssumption == MaxRetries \in Nat
ASSUME NobodyAssumption  == Nobody \notin Callers
ASSUME NoIndexAssumption == NoIndex \notin Nat

VARIABLES
    queue,      \* the requests that no worker has taken
    worker,     \* worker -> the request it is sending
    reply       \* caller -> what it has got, or that it waits

apiVars == <<queue, worker, reply>>

Request(c, texts) == [by |-> c, texts |-> texts, attempt |-> 0]
Resting == Request(Nobody, <<>>)

Silence         == [is |-> "none", vectors |-> <<>>]
Waiting         == [is |-> "waiting", vectors |-> <<>>]
Failed          == [is |-> "failed", vectors |-> <<>>]
Vectors(answer) == [is |-> "vectors", vectors |-> answer]

ApiInit == /\ queue = <<>>
           /\ worker = [w \in Workers |-> Resting]
           /\ reply = [c \in Callers |-> Silence]

-----------------------------------------------------------------------------
(* What comes back: items with a vector and, from some providers, an index.    *)
(* The vector of a text is named by the text.                                  *)

Item(index, vector) == [index |-> index, vector |-> vector]
Data(texts, shape) ==
    CASE shape = "plain"    -> [i \in DOMAIN texts |-> Item(NoIndex, texts[i])]
      [] shape = "reversed" -> [i \in DOMAIN texts |->
                                   Item(Len(texts) - i, texts[Len(texts) + 1 - i])]
      [] shape = "short"    -> [i \in 1..Len(texts) - 1 |-> Item(NoIndex, texts[i])]
      [] shape = "mixed"    -> [i \in DOMAIN texts |->
                                   Item(IF i = Len(texts) THEN i - 1 ELSE NoIndex, texts[i])]
      [] shape = "repeated" -> [i \in DOMAIN texts |-> Item(0, texts[i])]
      [] OTHER              -> [i \in DOMAIN texts |-> Item(i, texts[i])]

\* All items have an index or none has, as the first one does.
Mixed(data)   == \E i \in DOMAIN data : (data[i].index = NoIndex) # (data[1].index = NoIndex)
Indexed(data) == data # <<>> /\ data[1].index # NoIndex
InOrder(data) == Vectors([i \in DOMAIN data |-> data[i].vector])
ByIndex(data) ==
    Vectors([k \in DOMAIN data |->
        data[CHOOSE i \in DOMAIN data : data[i].index = k - 1].vector])

\* Mutant: the order of the array, whatever the indices.
ParseInOrder(data, expected) == IF Len(data) # expected THEN Failed ELSE InOrder(data)

ParseResponse(data, expected) ==
    IF Len(data) # expected \/ Mixed(data) THEN Failed
    ELSE IF ~Indexed(data) THEN InOrder(data)
    ELSE IF {data[i].index : i \in DOMAIN data} # 0..expected - 1 THEN Failed
    ELSE ByIndex(data)

-----------------------------------------------------------------------------
(* Callers and workers.                                                        *)

\* embed_batch: send waits while the queue is full.
Send(c, texts) ==
    /\ reply[c] = Silence
    /\ Len(queue) < QueueCapacity
    /\ queue' = Append(queue, Request(c, texts))
    /\ reply' = [reply EXCEPT ![c] = Waiting]
    /\ UNCHANGED worker

Answered(c) == reply[c].is \in {"vectors", "failed"}
\* The caller goes on with its answer.
Receive(c) == /\ Answered(c)
              /\ reply' = [reply EXCEPT ![c] = Silence]
              /\ UNCHANGED <<queue, worker>>

Take(w) ==
    /\ worker[w] = Resting
    /\ queue # <<>>
    /\ worker' = [worker EXCEPT ![w] = Head(queue)]
    /\ queue' = Tail(queue)
    /\ UNCHANGED reply

Reply(w, answer) ==
    /\ worker' = [worker EXCEPT ![w] = Resting]
    /\ reply' = [reply EXCEPT ![worker[w].by] = answer]
    /\ UNCHANGED queue

Parsed(w, shape) ==
    Reply(w, ParseResponse(Data(worker[w].texts, shape), Len(worker[w].texts)))

Sending(w) == worker[w] # Resting
\* A rate limit is waited out, a few times.
RateLimited(w) ==
    /\ Sending(w)
    /\ worker[w].attempt < MaxRetries
    /\ worker' = [worker EXCEPT ![w].attempt = @ + 1]
    /\ UNCHANGED <<queue, reply>>

\* Mutant: a failed request leaves its caller waiting.
DroppedRequest(w) == Sending(w) /\ Reply(w, Waiting)

\* A timeout, no connection, an error status or one rate limit too many.
RequestFails(w) == Sending(w) /\ Reply(w, Failed)

Responds(w) == \E shape \in Shapes : Sending(w) /\ Parsed(w, shape)

Serve(w) == RateLimited(w) \/ RequestFails(w) \/ Responds(w)
ApiStep == \E w \in Workers : Take(w) \/ Serve(w)
===============================================================================
