--------------------------------- MODULE WsHub ---------------------------------
(***************************************************************************)
(* The websocket hub (cmd/ws-hub): one goroutine consumes the events of a  *)
(* project, writes each to the project's connections and appends it to a   *)
(* Redis stream; a goroutine per connection replays the stream, registers  *)
(* the connection and waits for it to close.                               *)
(*                                                                         *)
(* One project is followed, on the partition of its id.  The hub takes a   *)
(* message's key for the project.  Of the producers, the orchestrator keys *)
(* its events by the project's id ("event" below); the agents key theirs   *)
(* by the event's type or the task's id ("misfiled"), and such an event    *)
(* may come on this partition or on another one.  An event is its offset.  *)
(***************************************************************************)
EXTENDS Naturals, Sequences, FiniteSets

CONSTANTS
  Conn,        \* the browsers' connections
  MaxLen,      \* MaxLen of the stream
  MaxEvents,   \* bound on the events of the project
  MaxRestarts  \* bound on crashes of the hub

ASSUME HubAssumption == MaxLen \in Nat \ {0} /\ MaxEvents \in Nat /\ MaxRestarts \in Nat

VARIABLES
  topic,      \* the kinds of the project's events published
  committed,  \* offset committed for the group, 0 if none was
  marked,     \* events the consumer is done with
  stage,      \* what the consumer does with event marked + 1
  remaining,  \* connections its broadcast has still to write to
  stream,     \* the Redis stream
  state,      \* state[c]: where connection c's goroutine is
  conns,      \* the registry
  received,   \* received[c]: what was written to c since it connected
  since,      \* since[c]: the last event whose broadcast had begun when c registered (history)
  restarts    \* crashes so far

broker == <<topic, committed>>
consumer == <<marked, stage, remaining>>
clients == <<state, conns, received, since>>
vars == <<broker, consumer, stream, clients, restarts>>

Offset == 1..MaxEvents
Registered == {"registered", "closed"}
Kinds == {"event", "misfiled"}

TypeOK ==
  /\ topic \in Seq(Kinds) /\ Len(topic) <= MaxEvents
  /\ committed \in 0..marked
  /\ marked \in 0..Len(topic)
  /\ stage \in {"idle", "broadcasting", "storing"}
  /\ stage # "idle" => marked < Len(topic)
  /\ stage # "broadcasting" => remaining = {}
  /\ stream \in Seq(Offset) /\ Len(stream) <= MaxLen
  /\ state \in [Conn -> {"away", "replayed", "stuck"} \union Registered]
  /\ conns = {c \in Conn : state[c] \in Registered \union {"stuck"}}
  /\ remaining \subseteq conns
  /\ received \in [Conn -> Seq(Offset)]
  /\ since \in [Conn -> 0..MaxEvents]
  /\ restarts \in 0..MaxRestarts

Init ==
  /\ topic = <<>>
  /\ committed = 0
  /\ marked = 0
  /\ stage = "idle"
  /\ remaining = {}
  /\ stream = <<>>
  /\ state = [c \in Conn |-> "away"]
  /\ conns = {}
  /\ received = [c \in Conn |-> <<>>]
  /\ since = [c \in Conn |-> 0]
  /\ restarts = 0

-------------------------------------------------------------------------------
(* The events topic. *)

Publish(kind) ==
  /\ Len(topic) < MaxEvents
  /\ topic' = Append(topic, kind)
  /\ UNCHANGED <<committed, consumer, stream, clients, restarts>>

\* sarama commits the marked offset every second.
AutoCommit ==
  /\ committed < marked
  /\ committed' = marked
  /\ UNCHANGED <<topic, consumer, stream, clients, restarts>>

-------------------------------------------------------------------------------
(* The consumer's goroutine. *)

handling == marked + 1

\* Mutant of BeginBroadcast: the event is in the stream before it is broadcast.
StoreThenBroadcast ==
  /\ stage = "idle" /\ marked < Len(topic) /\ topic[handling] = "event"
  /\ stage' = "broadcasting"
  /\ remaining' = conns
  /\ stream' = <<handling>>
  /\ UNCHANGED <<broker, marked, clients, restarts>>

\* The handler reads the project's connections, and releases the lock.
BeginBroadcast ==
  /\ stage = "idle" /\ marked < Len(topic) /\ topic[handling] = "event"
  /\ stage' = "broadcasting"
  /\ remaining' = conns
  /\ UNCHANGED <<broker, marked, stream, clients, restarts>>

\* An event with another key is broadcast to nobody, appended to a stream nobody
\* reads, and marked.  (One that is not JSON would be marked as well: the error is
\* only logged.  No producer sends one.)
PassOver ==
  /\ stage = "idle" /\ marked < Len(topic) /\ topic[handling] = "misfiled"
  /\ marked' = marked + 1
  /\ UNCHANGED <<broker, stage, remaining, stream, clients, restarts>>

\* Mutant of Write: an error ends the broadcast.
WriteOrGiveUp(c) ==
  /\ stage = "broadcasting" /\ c \in remaining /\ state[c] # "stuck"
  /\ remaining' = IF state[c] = "closed" THEN {} ELSE remaining \ {c}
  /\ received' = IF state[c] = "registered"
                 THEN [received EXCEPT ![c] = Append(@, handling)] ELSE received
  /\ UNCHANGED <<broker, marked, stage, stream, state, conns, since, restarts>>

\* Mutant of Write: a closed connection is tried until it is gone, or for ever.
WriteOrRetry(c) ==
  /\ stage = "broadcasting" /\ c \in remaining /\ state[c] # "stuck"
  /\ remaining' = IF state[c] = "closed" THEN remaining ELSE remaining \ {c}
  /\ received' = IF state[c] = "registered"
                 THEN [received EXCEPT ![c] = Append(@, handling)] ELSE received
  /\ UNCHANGED <<broker, marked, stage, stream, state, conns, since, restarts>>

\* The event is written to one connection; an error is only logged.  No deadline
\* is set: the write to a stuck connection does not return.
Write(c) ==
  /\ stage = "broadcasting" /\ c \in remaining /\ state[c] # "stuck"
  /\ remaining' = remaining \ {c}
  /\ received' = IF state[c] = "registered"
                 THEN [received EXCEPT ![c] = Append(@, handling)] ELSE received
  /\ UNCHANGED <<broker, marked, stage, stream, state, conns, since, restarts>>

EndBroadcast ==
  /\ stage = "broadcasting" /\ remaining = {}
  /\ stage' = "storing"
  /\ UNCHANGED <<broker, marked, remaining, stream, clients, restarts>>

\* The last MaxLen elements of the stream with o appended.
Trimmed(o) ==
  LET all == Append(stream, o) IN
  IF Len(all) > MaxLen THEN SubSeq(all, Len(all) - MaxLen + 1, Len(all)) ELSE all

\* XADD, which may fail, and the end of the handler: the message is marked.
Store ==
  /\ stage = "storing"
  /\ stream' \in {Trimmed(handling), stream}
  /\ stage' = "idle"
  /\ marked' = marked + 1
  /\ UNCHANGED <<broker, remaining, clients, restarts>>

-------------------------------------------------------------------------------
(* The goroutine of a connection. *)

\* A connection to /events: the stream is read and written to it, or Redis failed.
Replay(c) ==
  /\ state[c] = "away"
  /\ state' = [state EXCEPT ![c] = "replayed"]
  /\ \E replay \in {stream, <<>>} : received' = [received EXCEPT ![c] = replay]
  /\ UNCHANGED <<broker, consumer, stream, conns, since, restarts>>

\* The broadcast iterates over the very map that is written to here: it may or
\* may not come upon the new connection.
Register(c) ==
  /\ state' = [state EXCEPT ![c] = "registered"]
  /\ conns' = conns \union {c}
  /\ \/ UNCHANGED remaining
     \/ stage = "broadcasting" /\ remaining' = remaining \union {c}
  /\ since' = [since EXCEPT ![c] = IF stage = "idle" THEN marked ELSE handling]
  /\ UNCHANGED <<broker, marked, stage, stream, restarts>>

RegisterReplayed(c) == state[c] = "replayed" /\ Register(c) /\ UNCHANGED received

\* A connection to /stream has no replay.
RegisterFresh(c) ==
  state[c] = "away" /\ Register(c) /\ received' = [received EXCEPT ![c] = <<>>]

\* The browser goes away, or stops reading.
Close(c) ==
  /\ state[c] \in {"registered", "stuck"}
  /\ state' = [state EXCEPT ![c] = "closed"]
  /\ received' = [received EXCEPT ![c] = <<>>]
  /\ since' = [since EXCEPT ![c] = 0]
  /\ UNCHANGED <<broker, consumer, stream, conns, restarts>>

Stick(c) ==
  /\ state[c] = "registered"
  /\ state' = [state EXCEPT ![c] = "stuck"]
  /\ UNCHANGED <<broker, consumer, stream, conns, received, since, restarts>>

\* ReadMessage fails: the connection is removed, from a running broadcast too.
Remove(c) ==
  /\ state[c] = "closed"
  /\ state' = [state EXCEPT ![c] = "away"]
  /\ conns' = conns \ {c}
  /\ remaining' = remaining \ {c}
  /\ UNCHANGED <<broker, marked, stage, stream, received, since, restarts>>

\* Where the group resumes: at its offset, or at the newest event if it has none.
ResumeAt == IF committed = 0 THEN Len(topic) ELSE committed

\* The hub dies and is started again; the broadcast's unlocked iteration beside a
\* registration is one reason (concurrent map iteration and map write).
Restart ==
  /\ restarts < MaxRestarts
  /\ restarts' = restarts + 1
  /\ marked' = ResumeAt
  /\ stage' = "idle"
  /\ remaining' = {}
  /\ state' = [c \in Conn |-> "away"]
  /\ conns' = {}
  /\ received' = [c \in Conn |-> <<>>]
  /\ since' = [c \in Conn |-> 0]
  /\ UNCHANGED <<broker, stream>>

-------------------------------------------------------------------------------

Consume == BeginBroadcast \/ PassOver \/ EndBroadcast \/ Store

Next ==
  \/ \E kind \in Kinds : Publish(kind)
  \/ AutoCommit
  \/ BeginBroadcast \/ PassOver \/ EndBroadcast \/ Store
  \/ \E c \in Conn :
        Write(c) \/ Replay(c) \/ RegisterReplayed(c) \/ RegisterFresh(c) \/ Close(c) \/ Stick(c) \/ Remove(c)
  \/ Restart

Spec == Init /\ [][Next]_vars

\* The consumer's goroutine goes on, as long as a write does not block it; its
\* iteration over the connections ends, however many come and go meanwhile.
FairSpec == Spec /\ SF_vars(Consume) /\ \A c \in Conn : WF_vars(Write(c))

-------------------------------------------------------------------------------

\* A connection gets its project's events in order and once each, replay included:
\* only a crash of the hub, after which the group reads again what it had not
\* committed, makes the feed go back, once for each crash.
StepsBack(feed) == {i \in 1..(Len(feed) - 1) : feed[i + 1] <= feed[i]}
FeedInOrder == \A c \in Conn : Cardinality(StepsBack(received[c])) <= restarts

Got(c, o) == \E i \in DOMAIN received[c] : received[c][i] = o

\* Whatever other connections register, close or leave during a broadcast, a
\* registered connection has got every event that has its project's key and whose
\* broadcast began since then.
ServedSinceRegistered ==
  \A c \in Conn : \A o \in (since[c] + 1)..marked :
     (state[c] = "registered" /\ topic[o] = "event") => Got(c, o)

\* An event with its project's key, published while a connection is registered,
\* reaches it, unless a stuck connection holds up the one goroutine that writes to
\* all of them.
ServedUnlessStuck ==
  \A c \in Conn : \A o \in Offset :
    (o <= Len(topic) /\ since[c] < o /\ topic[o] = "event" /\ state[c] = "registered")
      ~> \/ state[c] # "registered"
         \/ Got(c, o)
         \/ \E d \in Conn : state[d] = "stuck"

===============================================================================
