------------------------------ MODULE PushHub ------------------------------
(***************************************************************************)
(* The two hubs that push to the event streams of a user: SSEHub            *)
(* (internal/worker/ssehub.go) and StreamHub (internal/message/stream.go).  *)
(* A hub keeps a slice of channels per user under an RWMutex; the handler   *)
(* of a stream subscribes a channel, writes what it receives and            *)
(* unsubscribes when the client leaves.                                     *)
(*                                                                         *)
(* Push copies the slice under the read lock and sends after releasing it.  *)
(* The copy is a pointer and a length: Subscribe may append to the same     *)
(* array and Unsubscribe moves its members in place, so arrays are          *)
(* modelled as such.  A send to a closed channel panics.                    *)
(*                                                                         *)
(* One user, whose streams connect once each.                               *)
(***************************************************************************)
EXTENDS Integers, Sequences, FiniteSets

CONSTANTS
    Streams,     \* connections of the user's clients
    Hubs,        \* the hubs of the process
    DropsEmpty,  \* those that delete the key of a user without channels
    Pushers,     \* goroutines that call Push
    Cap          \* capacity of a channel (20)

ASSUME Shape == /\ DropsEmpty \subseteq Hubs /\ Cap \in Nat \ {0}
                /\ IsFiniteSet(Streams)

VARIABLES
    clients,  \* clients[h]: the slice of the user, array 0 if there is none
    arrays,   \* arrays[h]: the arrays the slices have had, with free slots
    stream,   \* stream[s]: its state and hub
    buffer,   \* buffer[s]: how many items the channel of s holds
    push      \* push[p]: the call p is in

hubVars == <<clients, arrays, stream, buffer, push>>

Free  == "free"                       \* a slot no channel was written to
NoHub == "none"
Closed == [state |-> "closed", hub |-> NoHub]
Slice == [array : Nat, len : Nat]
Quiet == [at |-> "idle", hub |-> NoHub, slice |-> [array |-> 0, len |-> 0],
          next |-> 1, due |-> {}, twice |-> FALSE, alone |-> TRUE]

Open(h) == {s \in Streams : stream[s] = [state |-> "open", hub |-> h]}
Live(h) == [i \in 1 .. clients[h].len |-> arrays[h][clients[h].array][i]]

HubTypeOK ==
    /\ clients \in [Hubs -> Slice]
    /\ \A h \in Hubs : /\ clients[h].array \in 0 .. Len(arrays[h])
                       /\ \A k \in DOMAIN arrays[h] :
                             \A i \in DOMAIN arrays[h][k] :
                                arrays[h][k][i] \in Streams \cup {Free}
    /\ \A s \in Streams : /\ stream[s].state \in {"new", "open", "closed"}
                          /\ stream[s].hub \in Hubs \cup {NoHub}
                          /\ buffer[s] \in 0 .. Cap
    /\ \A p \in Pushers : /\ push[p].at \in {"idle", "send", "done", "panic"}
                          /\ push[p].due \subseteq Streams

HubInit ==
    /\ clients = [h \in Hubs |-> [array |-> 0, len |-> 0]]
    /\ arrays = [h \in Hubs |-> <<>>]
    /\ stream = [s \in Streams |-> [state |-> "new", hub |-> NoHub]]
    /\ buffer = [s \in Streams |-> 0]
    /\ push = [p \in Pushers |-> Quiet]

\* append(clients[h], s): in place while the array has room, else into a new
\* array of twice the size.  With the lock held.
Subscribe(s, h) ==
    LET c == clients[h]
        size == IF c.array = 0 THEN 0 ELSE Len(arrays[h][c.array])
    IN /\ stream[s].state = "new"
       /\ stream' = [stream EXCEPT ![s] = [state |-> "open", hub |-> h]]
       /\ IF c.len < size
            THEN /\ arrays' = [arrays EXCEPT ![h][c.array][c.len + 1] = s]
                 /\ clients' = [clients EXCEPT ![h].len = c.len + 1]
            ELSE /\ arrays' = [arrays EXCEPT ![h] = Append(@,
                       [i \in 1 .. (IF size = 0 THEN 1 ELSE 2 * size) |->
                          IF i <= c.len THEN Live(h)[i] ELSE IF i = c.len + 1 THEN s ELSE Free])]
                 /\ clients' = [clients EXCEPT ![h] =
                                   [array |-> Len(arrays[h]) + 1, len |-> c.len + 1]]
       /\ UNCHANGED <<buffer, push>>

\* Mutant: the channels behind the removed one stay where they are.
Unsubscribe_Mut(s) ==
    LET h == stream[s].hub
        c == clients[h]
    IN /\ stream[s].state = "open"
       /\ stream' = [stream EXCEPT ![s] = Closed]
       /\ buffer' = [buffer EXCEPT ![s] = 0]
       /\ clients' = [clients EXCEPT ![h] = [array |-> c.array, len |-> c.len - 1]]
       /\ push' = [p \in Pushers |->
             IF push[p].hub = h THEN [push[p] EXCEPT !.alone = FALSE] ELSE push[p]]
       /\ UNCHANGED arrays

\* append(chs[:i], chs[i+1:]...) and close, with the lock held: the members
\* behind s move down and the last slot keeps its channel.  The handler that
\* unsubscribes was the only one to receive, so what is buffered is dropped.
Unsubscribe(s) ==
    LET h == stream[s].hub
        c == clients[h]
        i == CHOOSE j \in 1 .. c.len : Live(h)[j] = s
        a == arrays[h][c.array]
    IN /\ stream[s].state = "open"
       /\ stream' = [stream EXCEPT ![s] = Closed]
       /\ buffer' = [buffer EXCEPT ![s] = 0]
       /\ arrays' = [arrays EXCEPT ![h][c.array] =
             [j \in DOMAIN a |-> IF j \in i .. c.len - 1 THEN a[j + 1] ELSE a[j]]]
       /\ clients' = [clients EXCEPT ![h] =
             IF c.len = 1 /\ h \in DropsEmpty THEN [array |-> 0, len |-> 0]
                                              ELSE [array |-> c.array, len |-> c.len - 1]]
       /\ push' = [p \in Pushers |->
             IF push[p].hub = h THEN [push[p] EXCEPT !.alone = FALSE] ELSE push[p]]

\* The handler of s writes the next item to its client.
Serve(s) ==
    /\ stream[s].state = "open" /\ buffer[s] > 0
    /\ buffer' = [buffer EXCEPT ![s] = @ - 1]
    /\ UNCHANGED <<clients, arrays, stream, push>>

\* Push: copies the slice.  A user without a key has nothing to be sent.
PushCopies(p, h) ==
    /\ push[p].at = "idle"
    /\ push' = [push EXCEPT ![p] =
          [at |-> IF clients[h].array = 0 THEN "done" ELSE "send", hub |-> h,
           slice |-> clients[h], next |-> 1, due |-> Open(h), twice |-> FALSE, alone |-> TRUE]]
    /\ UNCHANGED <<clients, arrays, stream, buffer>>

\* Mutant: the loop ends at the first channel without room.
PushSends_Mut(p) ==
    LET m == push[p]
        s == arrays[m.hub][m.slice.array][m.next]
    IN /\ m.at = "send"
       /\ IF m.next > m.slice.len \/ buffer[s] = Cap
            THEN push' = [push EXCEPT ![p].at = "done"] /\ UNCHANGED buffer
          ELSE IF stream[s].state = "closed"
            THEN push' = [push EXCEPT ![p].at = "panic"] /\ UNCHANGED buffer
          ELSE /\ buffer' = [buffer EXCEPT ![s] = @ + 1]
               /\ push' = [push EXCEPT ![p].next = m.next + 1, ![p].due = @ \ {s},
                                       ![p].twice = @ \/ s \notin m.due]
       /\ UNCHANGED <<clients, arrays, stream>>

\* One turn of the loop: sends if the channel has room and drops otherwise.
PushSends(p) ==
    LET m == push[p]
        s == arrays[m.hub][m.slice.array][m.next]
    IN /\ m.at = "send"
       /\ IF m.next > m.slice.len
            THEN push' = [push EXCEPT ![p].at = "done"] /\ UNCHANGED buffer
          ELSE IF stream[s].state = "closed"
            THEN push' = [push EXCEPT ![p].at = "panic"] /\ UNCHANGED buffer
          ELSE /\ buffer' = IF buffer[s] < Cap
                              THEN [buffer EXCEPT ![s] = @ + 1] ELSE buffer
               /\ push' = [push EXCEPT ![p].next = m.next + 1, ![p].due = @ \ {s},
                                       ![p].twice = @ \/ s \notin m.due]
       /\ UNCHANGED <<clients, arrays, stream>>

PushReturns(p) ==
    /\ push[p].at = "done"
    /\ push' = [push EXCEPT ![p] = Quiet]
    /\ UNCHANGED <<clients, arrays, stream, buffer>>

\* The process ends: its connections break and its hubs are new.
HubRestart ==
    /\ clients' = [h \in Hubs |-> [array |-> 0, len |-> 0]]
    /\ arrays' = [h \in Hubs |-> <<>>]
    /\ stream' = [s \in Streams |-> IF stream[s].state = "open"
                                      THEN Closed ELSE stream[s]]
    /\ buffer' = [s \in Streams |-> 0]
    /\ push' = [p \in Pushers |-> Quiet]

Connection(s) == (\E h \in Hubs : Subscribe(s, h)) \/ Unsubscribe(s) \/ Serve(s)

-----------------------------------------------------------------------------
\* However often the array was moved, appended to in place or copied, a hub's
\* slice lists each open channel once and no closed one: a push that is not
\* under way yet panics for nobody and forgets nobody.
RegistryExact ==
    \A h \in Hubs : /\ {Live(h)[i] : i \in DOMAIN Live(h)} = Open(h)
                    /\ Cardinality(Open(h)) = clients[h].len

\* A push that is through has offered its item exactly once to every stream
\* that was open when it began, unless a stream unsubscribed meanwhile; and
\* only then can it have met a closed channel.
PushVisitsEach ==
    \A p \in Pushers : push[p].alone => /\ push[p].at = "done" => push[p].due = {}
                                        /\ ~push[p].twice
                                        /\ push[p].at # "panic"
=============================================================================
