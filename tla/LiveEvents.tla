------------------------------- MODULE LiveEvents -------------------------------
(***************************************************************************)
(* The event stream of the Python API (api/main.py): the engine awaits its *)
(* subscribers with each event; the one a project's start subscribed sends *)
(* it to the project's websockets, one after the other, from a list that   *)
(* changes meanwhile.  The handler of a websocket broadcasts to the same   *)
(* list when it is sent a command.                                         *)
(*                                                                         *)
(* One project is followed, with its list.  Its subscriber is called with  *)
(* the events of every project of the engine, by whichever coroutine emits *)
(* one; the sources are these coroutines and the websockets' handlers.     *)
(* Coroutines are suspended only in sends: what one does between two sends *)
(* is one action.                                                          *)
(***************************************************************************)
EXTENDS Naturals, Sequences, FiniteSets, Functions

CONSTANTS
  Coroutine, \* coroutines of the engine that emit events
  Socket,    \* websocket connections; a browser that reconnects is a new one
  NoSocket,
  MaxEmits   \* MaxEmits[s]: bound on the events of source s

Source == Coroutine \union Socket

ASSUME LiveAssumption ==
  IsFiniteSet(Socket) /\ Coroutine \intersect Socket = {} /\ NoSocket \notin Socket /\ MaxEmits \in [Source -> Nat]

VARIABLES
  subscribed, \* the project's broadcaster is among _event_subscribers
  listeners,  \* active_connections[project_id]
  phase,      \* phase[c]: "away", "joining", "open", "closed" by its peer, "gone"
  emitted,    \* emitted[s]: how many events s has broadcast or begun to
  index,      \* index[s]: the place in the list that s has come to, 0 if it is idle
  sending,    \* sending[s]: the connection it found there and sends to
  dead,       \* dead[s]: connections that raised in this broadcast
  inbox,      \* inbox[c]: the events sent to c while its peer was there, in order
  owed,       \* owed[s]: listeners when s began, that it has not come to (history)
  shifts      \* shifts[s]: listeners removed since s began (history)

loops == <<emitted, index, sending, dead>>
history == <<owed, shifts>>
liveVars == <<subscribed, listeners, phase, loops, inbox, history>>

Idle(s) == index[s] = 0
Event == Source \X (Nat \ {0})

LiveTypeOK ==
  /\ subscribed \in BOOLEAN
  /\ listeners \in Seq(Socket)
  /\ \A c \in Socket : phase[c] \in {"away", "gone"} => c \notin Range(listeners)
  /\ phase \in [Socket -> {"away", "joining", "open", "closed", "gone"}]
  /\ emitted \in [Source -> Nat] /\ \A s \in Source : emitted[s] <= MaxEmits[s]
  /\ index \in [Source -> Nat]
  /\ sending \in [Source -> Socket \union {NoSocket}]
  /\ \A s \in Source : sending[s] = NoSocket <=> Idle(s)
  /\ dead \in [Source -> Seq(Socket)]
  /\ inbox \in [Socket -> Seq(Event)]
  /\ owed \in [Source -> SUBSET Socket]
  /\ shifts \in [Source -> Nat]

LiveInit ==
  /\ subscribed = FALSE
  /\ listeners = <<>>
  /\ phase = [c \in Socket |-> "away"]
  /\ emitted = [s \in Source |-> 0]
  /\ index = [s \in Source |-> 0]
  /\ sending = [s \in Source |-> NoSocket]
  /\ dead = [s \in Source |-> <<>>]
  /\ inbox = [c \in Socket |-> <<>>]
  /\ owed = [s \in Source |-> {}]
  /\ shifts = [s \in Source |-> 0]

-------------------------------------------------------------------------------
(* The list. *)

\* start_project subscribes the broadcaster, after it has announced the project.
Subscribe ==
  /\ ~subscribed
  /\ subscribed' = TRUE
  /\ UNCHANGED <<listeners, phase, loops, inbox, history>>

\* The n-th of what is left of list is the connection kept that n of them precede or are.
Without(list, conns) ==
  LET kept == {i \in DOMAIN list : list[i] \notin conns}
      UpTo(i) == {k \in kept : k <= i}
  IN  [n \in 1..Cardinality(kept) |-> list[CHOOSE i \in kept : Cardinality(UpTo(i)) = n]]

\* Listeners are removed: running loops notice nothing, their histories do.
RemoveListeners(conns) ==
  /\ listeners' = Without(listeners, conns)
  /\ owed' = [s \in Source |-> owed[s] \ conns]
  /\ shifts' = [s \in Source |->
                  IF Idle(s) THEN 0 ELSE shifts[s] + Cardinality(conns \intersect Range(listeners))]

\* Mutant of Connect: the newest listener comes first.
ConnectAtFront(c) ==
  /\ phase[c] = "away"
  /\ phase' = [phase EXCEPT ![c] = "joining"]
  /\ listeners' = <<c>> \o listeners
  /\ UNCHANGED <<subscribed, loops, inbox, history>>

\* manager.connect, before the handler asks for the API key.
Connect(c) ==
  /\ phase[c] = "away"
  /\ phase' = [phase EXCEPT ![c] = "joining"]
  /\ listeners' = Append(listeners, c)
  /\ UNCHANGED <<subscribed, loops, inbox, history>>

Authenticate(c) ==
  /\ phase[c] = "joining"
  /\ phase' = [phase EXCEPT ![c] = "open"]
  /\ UNCHANGED <<subscribed, listeners, loops, inbox, history>>

\* The peer goes away; the handler comes to know of it in its next receive.
PeerCloses(c) ==
  /\ phase[c] \in {"joining", "open"}
  /\ phase' = [phase EXCEPT ![c] = "closed"]
  /\ inbox' = [inbox EXCEPT ![c] = <<>>]
  /\ UNCHANGED <<subscribed, listeners, loops, history>>

\* The handler ends, for a closed connection or a failed authentication.  remove
\* raises if a broadcast has removed the connection before; the handler ends anyway.
Disconnect(c) ==
  /\ phase[c] \in {"joining", "closed"} /\ Idle(c)
  /\ phase' = [phase EXCEPT ![c] = "gone"]
  /\ RemoveListeners({c})
  /\ UNCHANGED <<subscribed, loops, inbox>>

-------------------------------------------------------------------------------
(* broadcast. *)

\* s goes on with the i-th listener.
ComeTo(s, i) ==
  /\ index' = [index EXCEPT ![s] = i]
  /\ sending' = [sending EXCEPT ![s] = listeners[i]]
  /\ UNCHANGED listeners

\* Mutant of Broadcast: the first listener is left out.
BroadcastToOthers(s) ==
  /\ Idle(s) /\ emitted[s] < MaxEmits[s]
  /\ IF s \in Socket THEN phase[s] = "open" ELSE subscribed
  /\ emitted' = [emitted EXCEPT ![s] = @ + 1]
  /\ IF Len(listeners) < 2 THEN UNCHANGED <<listeners, index, sending, owed>>
     ELSE ComeTo(s, 2) /\ owed' = [owed EXCEPT ![s] = Range(listeners) \ {listeners[2]}]
  /\ UNCHANGED <<subscribed, phase, dead, inbox, shifts>>

\* The engine emits an event, or a handler answers a command.
Broadcast(s) ==
  /\ Idle(s) /\ emitted[s] < MaxEmits[s]
  /\ IF s \in Socket THEN phase[s] = "open" ELSE subscribed
  /\ emitted' = [emitted EXCEPT ![s] = @ + 1]
  /\ IF listeners = <<>> THEN UNCHANGED <<listeners, index, sending, owed>>
     ELSE ComeTo(s, 1) /\ owed' = [owed EXCEPT ![s] = Range(Tail(listeners))]
  /\ UNCHANGED <<subscribed, phase, dead, inbox, shifts>>

\* The dead connections up to the first that is no longer listed, where remove
\* raises: the exception ends the broadcast and is logged by its caller.
Removable(list, conns) ==
  {conns[n] : n \in {m \in DOMAIN conns : \A k \in 1..m : conns[k] \in Range(list)}}

\* The send to sending[s] is over: it was delivered, timed out, or raised.
\* s goes on with what the list holds at the next place now, or ends.
Advance(s, corpses) ==
  LET i == index[s] + 1 IN
  IF i <= Len(listeners)
  THEN /\ ComeTo(s, i)
       /\ dead' = [dead EXCEPT ![s] = corpses]
       /\ owed' = [owed EXCEPT ![s] = @ \ {listeners[i]}]
       /\ UNCHANGED shifts
  ELSE /\ index' = [index EXCEPT ![s] = 0]
       /\ sending' = [sending EXCEPT ![s] = NoSocket]
       /\ dead' = [dead EXCEPT ![s] = <<>>]
       /\ LET gone == Removable(listeners, corpses) IN
          /\ listeners' = Without(listeners, gone)
          /\ owed' = [r \in Source |-> IF r = s THEN {} ELSE owed[r] \ gone]
          /\ shifts' = [r \in Source |->
                          IF r = s \/ Idle(r) THEN 0 ELSE shifts[r] + Cardinality(gone)]

Delivered(s) ==
  /\ ~Idle(s) /\ phase[sending[s]] \in {"joining", "open"}
  /\ inbox' = [inbox EXCEPT ![sending[s]] = Append(@, <<s, emitted[s]>>)]
  /\ Advance(s, dead[s])
  /\ UNCHANGED <<subscribed, phase, emitted>>

\* Mutant of TimesOut: the timeout is not for a connection that takes nothing.
TimesOutIfClosed(s) ==
  /\ ~Idle(s) /\ phase[sending[s]] = "closed"
  /\ Advance(s, dead[s])
  /\ UNCHANGED <<subscribed, phase, emitted, inbox>>

\* Half a second has passed: the event is dropped for this connection.
TimesOut(s) ==
  /\ ~Idle(s)
  /\ Advance(s, dead[s])
  /\ UNCHANGED <<subscribed, phase, emitted, inbox>>

Raises(s) ==
  /\ ~Idle(s) /\ phase[sending[s]] \in {"closed", "gone"}
  /\ Advance(s, Append(dead[s], sending[s]))
  /\ UNCHANGED <<subscribed, phase, emitted, inbox>>

-------------------------------------------------------------------------------

LiveNext ==
  \/ Subscribe
  \/ \E c \in Socket : Connect(c) \/ Authenticate(c) \/ PeerCloses(c) \/ Disconnect(c)
  \/ \E s \in Source : Broadcast(s) \/ Delivered(s) \/ TimesOut(s) \/ Raises(s)

LiveSpec == LiveInit /\ [][LiveNext]_liveVars

\* A send is over after half a second, however slow the connection is.
LiveFairSpec == LiveSpec /\ \A s \in Source : WF_liveVars(TimesOut(s))

-------------------------------------------------------------------------------

\* However the list changes under the loops, no connection is sent an event twice,
\* and the events of one source arrive in the order in which it emitted them.
InOrderOnce ==
  \A c \in Socket : \A i, j \in DOMAIN inbox[c] :
    (i < j /\ inbox[c][i][1] = inbox[c][j][1]) => inbox[c][i][2] < inbox[c][j][2]

\* The listeners a running broadcast has passed over, though they were there when
\* it began and still are: each removal from the list since costs one at most.
PassedOver(s) == {c \in owed[s] : \E i \in 1..(index[s] - 1) : i \in DOMAIN listeners /\ listeners[i] = c}
PassedOverBounded == \A s \in Source : Cardinality(PassedOver(s)) <= shifts[s]

\* A broadcast ends, with connections that never take what they are sent: the
\* lifecycle that awaits it goes on.
BroadcastEnds == \A s \in Source : ~Idle(s) ~> Idle(s)

===============================================================================
