----------------------------- MODULE FanOutProofs -----------------------------
(***************************************************************************)
(* Proofs about the event fan-out: the websocket hub of the Go gateway,    *)
(* for any number of connections, events, crashes and any length of the    *)
(* stream; and the event stream of the Python API, for any sources,        *)
(* connections and number of events.                                       *)
(***************************************************************************)
EXTENDS WsHub, LiveEvents, FiniteSetTheorems, WellFoundedInduction, TLAPS

\* What Append does, and that a part of a sequence is one.
LEMMA Appended ==
  ASSUME NEW S, NEW s \in Seq(S), NEW e \in S
  PROVE  /\ Append(s, e) \in Seq(S)
         /\ Len(Append(s, e)) = Len(s) + 1
         /\ \A i \in 1..Len(s) : Append(s, e)[i] = s[i]
         /\ Append(s, e)[Len(s) + 1] = e
OBVIOUS

LEMMA TrimmedType ==
  ASSUME NEW o \in Offset, stream \in Seq(Offset), Len(stream) <= MaxLen
  PROVE  Trimmed(o) \in Seq(Offset) /\ Len(Trimmed(o)) <= MaxLen
<1> DEFINE all == Append(stream, o)
<1>1. all \in Seq(Offset) /\ Len(all) = Len(stream) + 1
  BY Appended
<1>2. CASE Len(all) > MaxLen
  <2>1. Len(all) = MaxLen + 1 /\ MaxLen \in Nat \ {0}
    BY <1>1, <1>2, HubAssumption
  <2>2. Trimmed(o) = SubSeq(all, 2, Len(all))
    <3>1. Len(all) - MaxLen + 1 = 2
      BY <2>1
    <3>2. QED
      BY <1>2, <3>1 DEF Trimmed
  <2>3. SubSeq(all, 2, Len(all)) \in Seq(Offset) /\ Len(SubSeq(all, 2, Len(all))) = Len(all) - 1
    BY <1>1, <2>1
  <2>4. QED
    BY <2>1, <2>2, <2>3
<1>3. CASE ~(Len(all) > MaxLen)
  BY <1>1, <1>3, HubAssumption DEF Trimmed
<1>4. QED
  BY <1>2, <1>3

-------------------------------------------------------------------------------

LEMMA TypeStep == TypeOK /\ [Next]_vars => TypeOK'
<1> SUFFICES ASSUME TypeOK, [Next]_vars PROVE TypeOK'
  OBVIOUS
<1> USE HubAssumption DEF TypeOK, Offset, Registered
<1>1. ASSUME NEW kind \in Kinds, Publish(kind) PROVE TypeOK'
  <2>1. topic' \in Seq(Kinds) /\ Len(topic') = Len(topic) + 1
    BY <1>1, Appended DEF Publish
  <2>2. QED
    BY <1>1, <2>1 DEF Publish, consumer, clients
<1>2. CASE AutoCommit
  BY <1>2 DEF AutoCommit, consumer, clients
<1>3. CASE BeginBroadcast
  BY <1>3 DEF BeginBroadcast, broker, clients
<1>4. CASE PassOver
  BY <1>4 DEF PassOver, broker, clients, handling
<1>5. CASE EndBroadcast
  BY <1>5 DEF EndBroadcast, broker, clients
<1>6. CASE Store
  <2>1. handling \in Offset
    BY <1>6 DEF Store, handling
  <2>2. stream' \in Seq(Offset) /\ Len(stream') <= MaxLen
    BY <1>6, <2>1, TrimmedType DEF Store
  <2>3. QED
    BY <1>6, <2>2 DEF Store, broker, clients
<1>7. ASSUME NEW c \in Conn, Write(c) PROVE TypeOK'
  <2>1. Append(received[c], handling) \in Seq(Offset)
    <3>1. handling \in Offset
      BY <1>7 DEF Write, handling
    <3>2. QED
      BY <3>1, Appended
  <2>2. received' \in [Conn -> Seq(Offset)]
    BY <1>7, <2>1, SMTT(30) DEF Write
  <2>3. QED
    BY <1>7, <2>2 DEF Write, broker
<1>8. ASSUME NEW c \in Conn, Replay(c) PROVE TypeOK'
  <2>1. <<>> \in Seq(Offset)
    OBVIOUS
  <2>2. received' \in [Conn -> Seq(Offset)]
    BY <1>8, <2>1, ZenonT(30) DEF Replay
  <2>3. QED
    BY <1>8, <2>2 DEF Replay, broker, consumer
<1>9. ASSUME NEW c \in Conn, Register(c), state[c] \in {"away", "replayed"}, received' \in [Conn -> Seq(Offset)]
      PROVE  TypeOK'
  <2>1. handling \in 1..MaxEvents \/ stage = "idle"
    BY DEF handling
  <2>2. since' \in [Conn -> 0..MaxEvents]
    BY <1>9, <2>1 DEF Register
  <2>3. conns' = {d \in Conn : state'[d] \in Registered \union {"stuck"}}
    BY <1>9 DEF Register
  <2>4. remaining' \subseteq conns' /\ (stage' # "broadcasting" => remaining' = {})
    BY <1>9 DEF Register
  <2>5. QED
    BY <1>9, <2>2, <2>3, <2>4 DEF Register, broker
<1>10. ASSUME NEW c \in Conn, RegisterReplayed(c) PROVE TypeOK'
  BY <1>9, <1>10 DEF RegisterReplayed
<1>11. ASSUME NEW c \in Conn, RegisterFresh(c) PROVE TypeOK'
  <2>1. <<>> \in Seq(Offset)
    OBVIOUS
  <2>2. received' \in [Conn -> Seq(Offset)]
    BY <1>11, <2>1 DEF RegisterFresh
  <2>3. QED
    BY <1>9, <1>11, <2>2 DEF RegisterFresh
<1>12. ASSUME NEW c \in Conn, Close(c) PROVE TypeOK'
  <2>1. <<>> \in Seq(Offset)
    OBVIOUS
  <2>2. received' \in [Conn -> Seq(Offset)] /\ since' \in [Conn -> 0..MaxEvents]
    BY <1>12, <2>1 DEF Close
  <2>3. QED
    BY <1>12, <2>2 DEF Close, broker, consumer
<1>13. ASSUME NEW c \in Conn, Stick(c) PROVE TypeOK'
  BY <1>13 DEF Stick, broker, consumer
<1>14. ASSUME NEW c \in Conn, Remove(c) PROVE TypeOK'
  BY <1>14 DEF Remove, broker
<1>15. CASE Restart
  <2>1. <<>> \in Seq(Offset)
    OBVIOUS
  <2>2. marked' \in 0..Len(topic) /\ committed \in 0..marked'
    BY <1>15 DEF Restart, ResumeAt
  <2>3. received' \in [Conn -> Seq(Offset)] /\ since' \in [Conn -> 0..MaxEvents]
    BY <1>15, <2>1 DEF Restart
  <2>4. QED
    BY <1>15, <2>2, <2>3 DEF Restart, broker
<1>16. CASE UNCHANGED vars
  BY <1>16 DEF vars, broker, consumer, clients
<1>17. QED
  BY <1>1, <1>2, <1>3, <1>4, <1>5, <1>6, <1>7, <1>8, <1>10, <1>11, <1>12, <1>13, <1>14, <1>15, <1>16
  DEF Next

LEMMA TypeInit == Init => TypeOK
<1> SUFFICES ASSUME Init PROVE TypeOK
  OBVIOUS
<1>1. <<>> \in Seq(Offset) /\ <<>> \in Seq(Kinds) /\ Len(<<>>) = 0
  OBVIOUS
<1>2. QED
  BY <1>1, HubAssumption DEF Init, TypeOK, Offset, Registered

\* The hub's state stays well formed: the registry holds exactly the connections
\* that joined and have not been removed, a broadcast writes to members of it only,
\* the group's offset never passes what was handled, the stream is never too long.
THEOREM TypeCorrect == Spec => []TypeOK
<1>1. QED
  BY TypeInit, TypeStep, PTL DEF Spec

-------------------------------------------------------------------------------


\* The event in hand was written to c already, or will not be in this broadcast.
Past(c) == stage = "storing" \/ (stage = "broadcasting" /\ c \notin remaining)

\* ServedSinceRegistered, and the event in hand.
Served ==
  /\ ServedSinceRegistered
  /\ \A c \in Conn : state[c] = "registered" /\ since[c] < handling /\ Past(c) => Got(c, handling)

\* A step that leaves the feeds and the event in hand alone.
LEMMA ServedKept ==
  ASSUME TypeOK, Served, marked' = marked, stage' = stage,
         \A o \in 1..marked : topic'[o] = topic[o],
         \A c \in Conn : state'[c] = "registered" =>
            /\ state[c] = "registered" /\ received'[c] = received[c] /\ since'[c] = since[c]
            /\ Past(c)' => Past(c)
  PROVE  Served'
<1>1. \A c \in Conn : \A o \in (since[c] + 1)..marked : o \in 1..marked
  BY DEF TypeOK
<1>2. ASSUME NEW c \in Conn, state'[c] = "registered", NEW o \in (since'[c] + 1)..marked', topic'[o] = "event"
      PROVE  Got(c, o)'
  BY <1>1, <1>2 DEF Served, ServedSinceRegistered, Got
<1>3. ASSUME NEW c \in Conn, state'[c] = "registered", since'[c] < handling', Past(c)'
      PROVE  Got(c, handling)'
  BY <1>3 DEF Served, Got, handling
<1>4. QED
  BY <1>2, <1>3 DEF Served, ServedSinceRegistered

LEMMA ServedStep == TypeOK /\ Served /\ [Next]_vars => Served'
<1> SUFFICES ASSUME TypeOK, Served, [Next]_vars PROVE Served'
  OBVIOUS
<1>1. ASSUME NEW kind \in Kinds, Publish(kind) PROVE Served'
  <2>1. \A o \in 1..marked : topic'[o] = topic[o]
    BY <1>1, Appended DEF Publish, TypeOK
  <2>2. QED
    BY <1>1, <2>1, ServedKept DEF Publish, consumer, clients, Past
<1>2. CASE AutoCommit
  BY <1>2, ServedKept DEF AutoCommit, consumer, clients, Past
<1>3. CASE BeginBroadcast
  <2>1. \A c \in Conn : state[c] = "registered" => c \in conns
    BY DEF TypeOK, Registered
  <2>2. QED
    BY <1>3, <2>1 DEF BeginBroadcast, broker, clients, Served, ServedSinceRegistered, Past, Got
<1>4. CASE PassOver
  <2>1. marked' = marked + 1 /\ topic'[marked + 1] # "event" /\ topic' = topic
    BY <1>4 DEF PassOver, broker, handling
  <2>2. ASSUME NEW c \in Conn, NEW o \in (since[c] + 1)..(marked + 1), topic[o] = "event"
        PROVE  o \in (since[c] + 1)..marked
    BY <2>1, <2>2 DEF TypeOK
  <2>3. QED
    BY <1>4, <2>1, <2>2 DEF PassOver, broker, clients, Served, ServedSinceRegistered, Past, Got
<1>5. CASE EndBroadcast
  BY <1>5 DEF EndBroadcast, broker, clients, Served, ServedSinceRegistered, Past, Got, handling
<1>6. CASE Store
  <2>1. marked' = handling /\ stage = "storing"
    BY <1>6 DEF Store, handling
  <2>2. ASSUME NEW c \in Conn, state[c] = "registered", NEW o \in (since[c] + 1)..marked', topic[o] = "event"
        PROVE  Got(c, o)
    <3>1. CASE o \in (since[c] + 1)..marked
      BY <2>2, <3>1 DEF Served, ServedSinceRegistered, Got
    <3>2. CASE o = handling /\ since[c] < handling
      BY <2>1, <2>2, <3>2 DEF Served, Past
    <3>3. QED
      BY <2>1, <2>2, <3>1, <3>2 DEF TypeOK, handling
  <2>3. QED
    BY <1>6, <2>2 DEF Store, broker, clients, Served, ServedSinceRegistered, Past, Got
<1>7. ASSUME NEW c \in Conn, Write(c) PROVE Served'
  <2>1. handling \in Offset /\ handling' = handling
    BY <1>7, HubAssumption DEF Write, handling, TypeOK, Offset
  <2>2. ASSUME NEW d \in Conn, NEW o, Got(d, o) PROVE Got(d, o)'
    <3>1. PICK i \in DOMAIN received[d] : received[d][i] = o
      BY <2>2 DEF Got
    <3>2. received[d] \in Seq(Offset)
      BY DEF TypeOK
    <3>3. CASE received'[d] = received[d]
      BY <3>1, <3>3 DEF Got
    <3>4. CASE received'[d] = Append(received[d], handling)
      BY <2>1, <3>1, <3>2, <3>4, Appended DEF Got
    <3>5. QED
      BY <1>7, <3>3, <3>4 DEF Write, TypeOK
  <2>3. state[c] = "registered" => Got(c, handling)'
    <3>1. CASE state[c] = "registered"
      <4>1. received[c] \in Seq(Offset) /\ received'[c] = Append(received[c], handling)
        BY <1>7, <3>1 DEF Write, TypeOK
      <4>2. Len(received[c]) + 1 \in DOMAIN received'[c]
            /\ received'[c][Len(received[c]) + 1] = handling
        BY <2>1, <4>1
      <4>3. QED
        BY <2>1, <4>2 DEF Got
    <3>2. QED
      BY <3>1
  <2>4. ASSUME NEW d \in Conn, state'[d] = "registered", since'[d] < handling', Past(d)'
        PROVE  Got(d, handling)'
    <3>1. CASE d = c
      BY <1>7, <2>3, <2>4, <3>1 DEF Write
    <3>2. CASE d # c
      BY <1>7, <2>1, <2>2, <2>4, <3>2 DEF Write, Served, Past
    <3>3. QED
      BY <3>1, <3>2
  <2>5. ASSUME NEW d \in Conn, state'[d] = "registered", NEW o \in (since'[d] + 1)..marked', topic'[o] = "event"
        PROVE  Got(d, o)'
    BY <1>7, <2>2, <2>5 DEF Write, broker, Served, ServedSinceRegistered, Got
  <2>6. ServedSinceRegistered'
    BY <2>5 DEF ServedSinceRegistered, Got
  <2>7. QED
    BY <2>1, <2>4, <2>6 DEF Served
<1>8. ASSUME NEW c \in Conn, Replay(c) PROVE Served'
  BY <1>8, ServedKept DEF Replay, broker, consumer, Past, TypeOK
<1>9. ASSUME NEW c \in Conn, Register(c), \A d \in Conn \ {c} : received'[d] = received[d]
      PROVE  Served'
  <2>1. handling' = handling /\ (since'[c] = handling \/ (since'[c] = marked /\ stage' = "idle"))
    BY <1>9 DEF Register, handling, TypeOK
  <2>2. since'[c] >= marked' /\ marked' \in Nat /\ since'[c] \in Nat
    BY <1>9, <2>1 DEF Register, handling, TypeOK
  <2>3. ASSUME NEW d \in Conn, state'[d] = "registered", NEW o \in (since'[d] + 1)..marked', topic'[o] = "event"
        PROVE  Got(d, o)'
    <3>1. CASE d = c
      BY <2>2, <2>3, <3>1
    <3>2. CASE d # c
      <4>1. state[d] = "registered" /\ since'[d] = since[d] /\ marked' = marked /\ topic' = topic
        BY <1>9, <2>3, <3>2 DEF Register, broker, TypeOK
      <4>2. Got(d, o)
        BY <2>3, <4>1 DEF Served, ServedSinceRegistered, Got
      <4>3. QED
        BY <1>9, <3>2, <4>2 DEF Got
    <3>3. QED
      BY <3>1, <3>2
  <2>4. ASSUME NEW d \in Conn, state'[d] = "registered", since'[d] < handling', Past(d)'
        PROVE  Got(d, handling)'
    <3>1. CASE d = c
      BY <2>1, <2>2, <2>4, <3>1 DEF Past, handling, TypeOK
    <3>2. CASE d # c
      <4>1. Past(d)
        BY <1>9, <2>4, <3>2 DEF Register, Past
      <4>2. QED
        BY <1>9, <2>1, <2>4, <3>2, <4>1 DEF Register, Served, Got, TypeOK
    <3>3. QED
      BY <3>1, <3>2
  <2>5. ServedSinceRegistered'
    BY <2>3 DEF ServedSinceRegistered, Got
  <2>6. QED
    BY <2>4, <2>5 DEF Served
<1>10. ASSUME NEW c \in Conn, RegisterReplayed(c) PROVE Served'
  BY <1>9, <1>10 DEF RegisterReplayed
<1>11. ASSUME NEW c \in Conn, RegisterFresh(c) PROVE Served'
  BY <1>9, <1>11 DEF RegisterFresh, TypeOK
<1>12. ASSUME NEW c \in Conn, Close(c) PROVE Served'
  BY <1>12, ServedKept DEF Close, broker, consumer, Past, TypeOK
<1>13. ASSUME NEW c \in Conn, Stick(c) PROVE Served'
  BY <1>13, ServedKept DEF Stick, broker, consumer, Past, TypeOK
<1>14. ASSUME NEW c \in Conn, Remove(c) PROVE Served'
  <2>1. \A d \in Conn : state'[d] = "registered" => d # c /\ state[d] = "registered"
    BY <1>14 DEF Remove, TypeOK
  <2>2. \A d \in Conn \ {c} : Past(d)' => Past(d)
    BY <1>14 DEF Remove, Past
  <2>3. QED
    BY <1>14, <2>1, <2>2, ServedKept DEF Remove, broker
<1>15. CASE Restart
  <2>1. \A c \in Conn : state'[c] # "registered"
    BY <1>15 DEF Restart
  <2>2. QED
    BY <2>1 DEF Served, ServedSinceRegistered
<1>16. CASE UNCHANGED vars
  BY <1>16, ServedKept DEF vars, broker, consumer, clients, Past
<1>17. QED
  BY <1>1, <1>2, <1>3, <1>4, <1>5, <1>6, <1>7, <1>8, <1>10, <1>11, <1>12, <1>13, <1>14, <1>15, <1>16
  DEF Next

\* Whoever registers, closes or leaves while the hub broadcasts, a connection that
\* stays registered has got every event whose broadcast began since it registered.
THEOREM ServedSinceRegisteredHolds == Spec => []ServedSinceRegistered
<1>1. Init => Served
  BY DEF Init, Served, ServedSinceRegistered
<1>2. TypeOK /\ Served /\ [Next]_vars => Served'
  BY ServedStep
<1>3. Served => ServedSinceRegistered
  BY DEF Served
<1>4. QED
  BY TypeCorrect, <1>1, <1>2, <1>3, PTL DEF Spec

-------------------------------------------------------------------------------

Back(feed) == Cardinality(StepsBack(feed))

\* Whether the next event after o in a feed would be a step back.
Ahead(feed, o) == IF feed # <<>> /\ feed[Len(feed)] > o THEN 1 ELSE 0

LEMMA BackType ==
  ASSUME NEW feed \in Seq(Offset)
  PROVE  IsFiniteSet(StepsBack(feed)) /\ Back(feed) \in Nat
<1>1. IsFiniteSet(1..(Len(feed) - 1))
  BY FS_Interval
<1>2. StepsBack(feed) \in SUBSET (1..(Len(feed) - 1))
  BY DEF StepsBack
<1>3. QED
  BY <1>1, <1>2, FS_Subset, FS_CardinalityType DEF Back

\* The event o + 1 at the end of a feed is a step back only if the feed is ahead of o.
LEMMA BackAppend ==
  ASSUME NEW feed \in Seq(Offset), NEW o \in Nat, o + 1 \in Offset
  PROVE  Back(Append(feed, o + 1)) + Ahead(Append(feed, o + 1), o + 1) <= Back(feed) + Ahead(feed, o)
<1> DEFINE longer == Append(feed, o + 1)
           n == Len(feed)
<1>1. /\ longer \in Seq(Offset) /\ Len(longer) = n + 1 /\ n \in Nat
      /\ \A i \in 1..n : longer[i] = feed[i]
      /\ longer[n + 1] = o + 1
  BY Appended
<1>2. Ahead(longer, o + 1) = 0
  BY <1>1 DEF Ahead
<1>3. IsFiniteSet(StepsBack(feed)) /\ Back(feed) \in Nat
  BY BackType
<1>4. feed # <<>> <=> n # 0
  OBVIOUS
<1>5. \A i \in 1..n : feed[i] \in Nat
  BY HubAssumption DEF Offset
<1> HIDE DEF longer
<1>6. ASSUME NEW i \in StepsBack(longer), i # n PROVE i \in StepsBack(feed)
  BY <1>1, <1>6 DEF StepsBack
<1>7. CASE n # 0 /\ feed[n] > o
  <2>1. StepsBack(longer) \in SUBSET (StepsBack(feed) \union {n})
    BY <1>6
  <2>2. /\ IsFiniteSet(StepsBack(feed) \union {n})
        /\ Cardinality(StepsBack(feed) \union {n}) <= Back(feed) + 1
    <3>1. /\ IsFiniteSet(StepsBack(feed) \union {n})
          /\ Cardinality(StepsBack(feed) \union {n}) =
               IF n \in StepsBack(feed) THEN Cardinality(StepsBack(feed)) ELSE Cardinality(StepsBack(feed)) + 1
      BY <1>3, FS_AddElement
    <3>2. QED
      BY <1>3, <3>1 DEF Back
  <2>3. Back(longer) <= Cardinality(StepsBack(feed) \union {n})
    BY <2>1, <2>2, FS_Subset DEF Back
  <2>4. Back(longer) \in Nat /\ Cardinality(StepsBack(feed) \union {n}) \in Nat
    BY <1>1, <2>2, BackType, FS_CardinalityType
  <2>5. Ahead(feed, o) = 1
    BY <1>4, <1>7 DEF Ahead
  <2>6. QED
    BY <1>2, <1>3, <2>2, <2>3, <2>4, <2>5 DEF longer
<1>8. CASE ~(n # 0 /\ feed[n] > o)
  <2>1. n \notin StepsBack(longer)
    <3>1. CASE n = 0
      BY <1>1, <3>1 DEF StepsBack
    <3>2. CASE n # 0
      BY <1>1, <1>5, <1>8, <3>2 DEF StepsBack
    <3>3. QED
      BY <3>1, <3>2
  <2>2. StepsBack(longer) \in SUBSET StepsBack(feed)
    BY <1>6, <2>1
  <2>3. Back(longer) <= Back(feed) /\ Back(longer) \in Nat
    BY <1>1, <1>3, <2>2, FS_Subset, BackType DEF Back
  <2>4. Ahead(feed, o) = 0
    BY <1>4, <1>8 DEF Ahead
  <2>5. QED
    BY <1>2, <1>3, <2>3, <2>4 DEF longer
<1>9. QED
  BY <1>7, <1>8

\* Without its first element a feed has no more steps back.
LEMMA BackTail ==
  ASSUME NEW feed \in Seq(Offset), Len(feed) >= 2
  PROVE  /\ Back(SubSeq(feed, 2, Len(feed))) <= Back(feed)
         /\ \A o : Ahead(SubSeq(feed, 2, Len(feed)), o) = Ahead(feed, o)
<1> DEFINE shorter == SubSeq(feed, 2, Len(feed))
           f == [i \in StepsBack(shorter) |-> i + 1]
<1>1. /\ shorter \in Seq(Offset) /\ Len(shorter) = Len(feed) - 1
      /\ \A i \in 1..(Len(feed) - 1) : shorter[i] = feed[i + 1]
  OBVIOUS
<1>2. Len(feed) \in Nat
  OBVIOUS
<1> HIDE DEF shorter
<1>3. \A i \in StepsBack(shorter) : i \in Nat /\ i + 1 \in StepsBack(feed)
  BY <1>1, <1>2, SMTT(30) DEF StepsBack
<1>4. f \in Injection(StepsBack(shorter), StepsBack(feed))
  BY <1>3 DEF Injection, IsInjective
<1>5. Back(shorter) <= Back(feed)
  BY <1>4, BackType, FS_Injection DEF Back
<1>6. \A o : Ahead(shorter, o) = Ahead(feed, o)
  BY <1>1, <1>2 DEF Ahead
<1>7. QED
  BY <1>5, <1>6 DEF shorter

\* The last event that c, or a connection that replays the stream, may have got.
Upto(c) == IF state[c] \in {"registered", "stuck"} /\ stage # "idle" /\ c \notin remaining
           THEN handling ELSE marked

\* Each step back of a feed, and the one its next event would be, is paid for by a
\* crash of the hub.
Paid(feed, o) == Back(feed) + Ahead(feed, o) <= restarts
Ordered == Paid(stream, marked) /\ \A c \in Conn : Paid(received[c], Upto(c))

LEMMA PaidEmpty == TypeOK => \A o : Paid(<<>>, o)
<1> SUFFICES ASSUME TypeOK, NEW o PROVE Paid(<<>>, o)
  OBVIOUS
<1>1. StepsBack(<<>>) = {}
  BY DEF StepsBack
<1>2. Back(<<>>) = 0
  BY <1>1, FS_EmptySet DEF Back
<1>3. QED
  BY <1>2 DEF Paid, Ahead, TypeOK

\* Of a feed that is paid for, more may be marked.
LEMMA PaidLater ==
  ASSUME NEW feed \in Seq(Offset), NEW o \in Nat, NEW p \in Nat, o <= p, Paid(feed, o), TypeOK
  PROVE  Paid(feed, p)
<1>1. feed # <<>> => feed[Len(feed)] \in Nat
  BY HubAssumption DEF Offset
<1>2. Ahead(feed, p) <= Ahead(feed, o) /\ Ahead(feed, p) \in Nat /\ Ahead(feed, o) \in Nat
  BY <1>1 DEF Ahead
<1>3. QED
  BY <1>2, BackType DEF Paid, TypeOK

LEMMA PaidAppended ==
  ASSUME NEW feed \in Seq(Offset), Paid(feed, marked), TypeOK, marked < Len(topic)
  PROVE  Append(feed, handling) \in Seq(Offset) /\ Paid(Append(feed, handling), handling)
<1>1. marked \in Nat /\ marked + 1 \in Offset
  BY HubAssumption DEF TypeOK, Offset
<1>2. Append(feed, handling) \in Seq(Offset)
  BY <1>1, Appended DEF handling
<1>3. Back(feed) + Ahead(feed, marked) \in Nat
  BY BackType DEF Ahead
<1>4. Back(Append(feed, handling)) + Ahead(Append(feed, handling), handling) \in Nat
  <2>1. Back(Append(feed, handling)) \in Nat
    BY <1>2, BackType
  <2>2. \A o : Ahead(Append(feed, handling), o) \in Nat
    BY DEF Ahead
  <2>3. QED
    BY <2>1, <2>2
<1>5. QED
  BY <1>1, <1>2, <1>3, <1>4, BackAppend DEF Paid, TypeOK, handling

LEMMA PaidTrimmed ==
  ASSUME Paid(stream, marked), TypeOK, marked < Len(topic)
  PROVE  Paid(Trimmed(handling), handling)
<1> DEFINE all == Append(stream, handling)
<1>1. all \in Seq(Offset) /\ Paid(all, handling)
  BY PaidAppended DEF TypeOK
<1>2. Len(all) = Len(stream) + 1
  BY Appended DEF TypeOK
<1> HIDE DEF all
<1>3. CASE Len(all) > MaxLen
  <2>1. Len(all) = MaxLen + 1 /\ MaxLen \in Nat \ {0}
    BY <1>1, <1>2, <1>3, HubAssumption DEF TypeOK
  <2>2. Trimmed(handling) = SubSeq(all, 2, Len(all))
    <3>1. Len(all) - MaxLen + 1 = 2
      BY <2>1
    <3>2. QED
      BY <1>3, <3>1 DEF Trimmed, all
  <2>3. Len(all) >= 2
    BY <2>1
  <2>4. Back(SubSeq(all, 2, Len(all))) <= Back(all)
        /\ Ahead(SubSeq(all, 2, Len(all)), handling) = Ahead(all, handling)
    BY <1>1, <2>3, BackTail
  <2>5. SubSeq(all, 2, Len(all)) \in Seq(Offset)
    BY <1>1, <2>3
  <2>6. /\ Back(all) \in Nat /\ Back(SubSeq(all, 2, Len(all))) \in Nat
        /\ Ahead(all, handling) \in Nat
    BY <1>1, <2>5, BackType DEF Ahead
  <2>7. QED
    BY <1>1, <2>2, <2>4, <2>6 DEF Paid, TypeOK
<1>4. CASE ~(Len(all) > MaxLen)
  BY <1>1, <1>4 DEF Trimmed, all
<1>5. QED
  BY <1>3, <1>4

LEMMA UptoType == TypeOK => \A c \in Conn : Upto(c) \in Nat /\ marked <= Upto(c)
BY DEF TypeOK, Upto, handling

\* A step that appends nothing, and after which no less may have been got.
LEMMA OrderedKept ==
  ASSUME TypeOK, TypeOK', Ordered, restarts' = restarts, marked' = marked, stream' = stream,
         \A c \in Conn : \/ received'[c] = <<>>
                         \/ received'[c] = received[c] /\ Upto(c) <= Upto(c)'
                         \/ received'[c] = stream
  PROVE  Ordered'
<1>1. Paid(stream, marked)'
  BY DEF Ordered, Paid
<1>2. ASSUME NEW c \in Conn PROVE Paid(received[c], Upto(c))'
  <2>1. /\ Upto(c) \in Nat /\ Upto(c)' \in Nat /\ marked \in Nat /\ marked <= Upto(c)'
        /\ received[c] \in Seq(Offset) /\ stream \in Seq(Offset)
    BY UptoType DEF TypeOK, Upto, handling
  <2>2. Paid(received'[c], Upto(c)')
    <3>1. CASE received'[c] = <<>>
      BY <3>1, PaidEmpty
    <3>2. CASE received'[c] = received[c] /\ Upto(c) <= Upto(c)'
      BY <2>1, <3>2, PaidLater DEF Ordered
    <3>3. CASE received'[c] = stream
      BY <2>1, <3>3, PaidLater DEF Ordered
    <3>4. QED
      BY <3>1, <3>2, <3>3
  <2>3. QED
    BY <2>2 DEF Paid
<1>3. QED
  BY <1>1, <1>2 DEF Ordered

LEMMA OrderedStep == TypeOK /\ Ordered /\ [Next]_vars => Ordered'
<1> SUFFICES ASSUME TypeOK, Ordered, [Next]_vars, TypeOK' PROVE Ordered'
  BY TypeStep
<1> USE DEF handling
<1>1. ASSUME NEW kind \in Kinds, Publish(kind) PROVE Ordered'
  BY <1>1, UptoType, OrderedKept DEF Publish, consumer, clients, Upto
<1>2. CASE AutoCommit
  BY <1>2, UptoType, OrderedKept DEF AutoCommit, consumer, clients, Upto
<1>3. CASE BeginBroadcast
  <2>1. \A c \in Conn : Upto(c) <= Upto(c)'
    BY <1>3 DEF BeginBroadcast, broker, clients, Upto, TypeOK, Registered
  <2>2. QED
    BY <1>3, <2>1, OrderedKept DEF BeginBroadcast, broker, clients
<1>4. ASSUME marked' = marked + 1, marked < Len(topic), restarts' = restarts, received' = received,
             stage' = "idle", state' = state, Paid(stream, marked)'
      PROVE  Ordered'
  <2>1. ASSUME NEW c \in Conn PROVE Paid(received[c], Upto(c))'
    <3>1. /\ Upto(c) \in Nat /\ Upto(c)' \in Nat /\ Upto(c) <= Upto(c)'
          /\ received[c] \in Seq(Offset)
      BY <1>4 DEF TypeOK, Upto
    <3>2. Paid(received[c], Upto(c)')
      BY <3>1, PaidLater DEF Ordered
    <3>3. QED
      BY <1>4, <3>2 DEF Paid
  <2>2. QED
    BY <1>4, <2>1 DEF Ordered
<1>5. CASE PassOver
  <2>1. stream \in Seq(Offset) /\ marked \in Nat
    BY DEF TypeOK
  <2>2. Paid(stream, marked + 1)
    BY <2>1, PaidLater DEF Ordered
  <2>3. QED
    BY <1>4, <1>5, <2>2 DEF PassOver, broker, clients, Paid
<1>6. CASE Store
  <2>1. marked < Len(topic)
    BY <1>6 DEF Store, TypeOK
  <2>2. Paid(Trimmed(handling), handling)
    BY <2>1, PaidTrimmed DEF Ordered
  <2>3. Paid(stream, handling)
    <3>1. stream \in Seq(Offset) /\ marked \in Nat
      BY DEF TypeOK
    <3>2. QED
      BY <3>1, PaidLater DEF Ordered
  <2>4. Paid(stream', handling)
    BY <1>6, <2>2, <2>3 DEF Store
  <2>5. QED
    BY <1>4, <1>6, <2>1, <2>4 DEF Store, broker, clients, Paid
<1>7. CASE EndBroadcast
  <2>1. \A c \in Conn : Upto(c) <= Upto(c)'
    BY <1>7 DEF EndBroadcast, broker, clients, Upto, TypeOK
  <2>2. QED
    BY <1>7, <2>1, OrderedKept DEF EndBroadcast, broker, clients
<1>8. ASSUME NEW c \in Conn, Write(c) PROVE Ordered'
  <2>1. marked < Len(topic) /\ marked \in Nat
    BY <1>8 DEF Write, TypeOK
  <2>2. ASSUME NEW d \in Conn PROVE Paid(received[d], Upto(d))'
    <3>1. received[d] \in Seq(Offset) /\ Upto(d) \in Nat /\ Upto(d)' \in Nat
      BY <1>8, <2>1, UptoType DEF Write, TypeOK, Upto
    <3>2. CASE d = c /\ state[c] = "registered"
      <4>1. Upto(c) = marked /\ Upto(c)' = handling
        BY <1>8, <3>2 DEF Write, broker, Upto, TypeOK
      <4>2. Paid(Append(received[c], handling), handling)
        BY <2>1, <3>1, <3>2, <4>1, PaidAppended DEF Ordered
      <4>3. QED
        BY <1>8, <3>2, <4>1, <4>2 DEF Write, TypeOK, Paid
    <3>3. CASE ~(d = c /\ state[c] = "registered")
      <4>1. received'[d] = received[d] /\ Upto(d) <= Upto(d)'
        BY <1>8, <2>1, <3>3 DEF Write, broker, Upto, TypeOK
      <4>2. Paid(received'[d], Upto(d)')
        BY <3>1, <4>1, PaidLater DEF Ordered
      <4>3. QED
        BY <1>8, <4>2 DEF Write, Paid
    <3>4. QED
      BY <3>2, <3>3
  <2>3. QED
    BY <1>8, <2>2 DEF Write, broker, Ordered, Paid
<1>9. ASSUME NEW c \in Conn, Replay(c) PROVE Ordered'
  <2>1. \A d \in Conn : Upto(d) <= Upto(d)'
    BY <1>9 DEF Replay, broker, consumer, Upto, TypeOK
  <2>2. QED
    BY <1>9, <2>1, OrderedKept, SMTT(30) DEF Replay, broker, consumer, TypeOK
<1>10. ASSUME NEW c \in Conn, Register(c), state[c] \in {"away", "replayed"},
              received'[c] \in {received[c], <<>>}, \A d \in Conn \ {c} : received'[d] = received[d]
       PROVE  Ordered'
  <2>1. \A d \in Conn : Upto(d) <= Upto(d)'
    BY <1>10 DEF Register, broker, Upto, TypeOK
  <2>2. QED
    BY <1>10, <2>1, OrderedKept DEF Register, broker
<1>11. ASSUME NEW c \in Conn, RegisterReplayed(c) PROVE Ordered'
  BY <1>10, <1>11 DEF RegisterReplayed
<1>12. ASSUME NEW c \in Conn, RegisterFresh(c) PROVE Ordered'
  BY <1>10, <1>12 DEF RegisterFresh, TypeOK
<1>13. ASSUME NEW c \in Conn, Close(c) PROVE Ordered'
  <2>1. \A d \in Conn \ {c} : received'[d] = received[d] /\ Upto(d) <= Upto(d)'
    BY <1>13 DEF Close, broker, consumer, Upto, TypeOK
  <2>2. received'[c] = <<>>
    BY <1>13 DEF Close, TypeOK
  <2>3. QED
    BY <1>13, <2>1, <2>2, OrderedKept DEF Close, broker, consumer
<1>14. ASSUME NEW c \in Conn, Stick(c) PROVE Ordered'
  <2>1. \A d \in Conn : Upto(d) <= Upto(d)'
    BY <1>14 DEF Stick, broker, consumer, Upto, TypeOK
  <2>2. QED
    BY <1>14, <2>1, OrderedKept DEF Stick, broker, consumer
<1>15. ASSUME NEW c \in Conn, Remove(c) PROVE Ordered'
  <2>1. \A d \in Conn : Upto(d) <= Upto(d)'
    BY <1>15 DEF Remove, broker, Upto, TypeOK
  <2>2. QED
    BY <1>15, <2>1, OrderedKept DEF Remove, broker
<1>16. CASE Restart
  <2>1. restarts \in Nat /\ restarts' = restarts + 1
    BY <1>16, HubAssumption DEF Restart, TypeOK
  <2>2. Back(stream) \in Nat /\ \A o : Ahead(stream, o) \in 0..1
    BY BackType DEF Ahead, TypeOK
  <2>3. Back(stream) <= restarts
    BY <2>1, <2>2 DEF Ordered, Paid
  <2>4. Paid(stream, marked)'
    <3>1. Back(stream) + Ahead(stream, marked') <= restarts'
      BY <2>1, <2>2, <2>3
    <3>2. QED
      BY <1>16, <3>1 DEF Restart, Paid
  <2>5. ASSUME NEW c \in Conn PROVE Paid(received[c], Upto(c))'
    <3>1. Back(<<>>) + Ahead(<<>>, Upto(c)') <= restarts
      BY PaidEmpty DEF Paid
    <3>2. Back(<<>>) \in Nat /\ Ahead(<<>>, Upto(c)') \in Nat
      <4>1. <<>> \in Seq(Offset)
        OBVIOUS
      <4>2. QED
        BY <4>1, BackType DEF Ahead
    <3>3. received'[c] = <<>>
      BY <1>16 DEF Restart
    <3>4. QED
      BY <2>1, <3>1, <3>2, <3>3 DEF Paid
  <2>6. QED
    BY <2>4, <2>5 DEF Ordered
<1>17. CASE UNCHANGED vars
  BY <1>17, UptoType, OrderedKept DEF vars, broker, consumer, clients, Upto
<1>18. QED
  BY <1>1, <1>2, <1>3, <1>5, <1>6, <1>7, <1>8, <1>9, <1>11, <1>12, <1>13, <1>14, <1>15, <1>16, <1>17
  DEF Next

\* A connection gets the events in order, those replayed from the stream included;
\* each crash of the hub makes its feed go back once at most.
THEOREM FeedInOrderHolds == Spec => []FeedInOrder
<1>1. Init => Ordered
  <2>1. SUFFICES ASSUME Init PROVE Ordered
    OBVIOUS
  <2>2. TypeOK
    BY <2>1, TypeInit
  <2>3. QED
    BY <2>1, <2>2, PaidEmpty DEF Init, Ordered
<1>2. TypeOK /\ Ordered /\ [Next]_vars => Ordered'
  BY OrderedStep
<1>3. TypeOK /\ Ordered => FeedInOrder
  <2>1. SUFFICES ASSUME TypeOK, Ordered, NEW c \in Conn PROVE Back(received[c]) <= restarts
    BY DEF FeedInOrder, Back
  <2>2. Back(received[c]) \in Nat /\ Ahead(received[c], Upto(c)) \in Nat
    BY <2>1, BackType DEF Ahead, TypeOK
  <2>3. QED
    BY <2>1, <2>2 DEF Ordered, Paid, TypeOK
<1>4. QED
  BY TypeCorrect, <1>1, <1>2, <1>3, PTL DEF Spec

-------------------------------------------------------------------------------
(***************************************************************************)
(* The event stream of the Python API.                                     *)
(***************************************************************************)

\* The types of the variables.
LiveTypes ==
  /\ subscribed \in BOOLEAN
  /\ listeners \in Seq(Socket)
  /\ phase \in [Socket -> {"away", "joining", "open", "closed", "gone"}]
  /\ emitted \in [Source -> Nat]
  /\ index \in [Source -> Nat]
  /\ sending \in [Source -> Socket \union {NoSocket}]
  /\ dead \in [Source -> Seq(Socket)]
  /\ inbox \in [Socket -> Seq(Event)]
  /\ owed \in [Source -> SUBSET Socket]
  /\ shifts \in [Source -> Nat]

Distinct(list) == \A i, j \in DOMAIN list : list[i] = list[j] => i = j

\* One connection: before its handshake it has no part in anything; when its handler
\* has ended it is not listed, and connects no more; what it was sent is in order.
Attached(c) ==
  /\ phase[c] = "away" => /\ c \notin Range(listeners) /\ inbox[c] = <<>>
                          /\ \A s \in Source : sending[s] # c /\ c \notin owed[s]
  /\ phase[c] = "gone" => c \notin Range(listeners)
  /\ \A i, j \in DOMAIN inbox[c] :
       i < j /\ inbox[c][i][1] = inbox[c][j][1] => inbox[c][i][2] < inbox[c][j][2]

\* c was sent the event that s is broadcasting.
Heard(s, c) == \E i \in DOMAIN inbox[c] : inbox[c][i] = <<s, emitted[s]>>

\* One source.  Nobody was sent an event it has not broadcast; who was sent the
\* one it is broadcasting, or is being sent it, is not listed where s has yet to come.
\* The listeners it has come past without coming to them are as few as the removals.
Skipped(s) == {c \in owed[s] : \E i \in DOMAIN listeners : i <= index[s] /\ listeners[i] = c}
Followed(s) ==
  /\ sending[s] = NoSocket <=> Idle(s)
  /\ emitted[s] <= MaxEmits[s]
  /\ \A c \in Socket : \A i \in DOMAIN inbox[c] :
       inbox[c][i][1] = s => inbox[c][i][2] <= emitted[s]
  /\ ~Idle(s) => /\ emitted[s] # 0
                 /\ ~Heard(s, sending[s])
                 /\ \A i \in DOMAIN listeners :
                      listeners[i] = sending[s] \/ Heard(s, listeners[i]) => i <= index[s]
  /\ Cardinality(Skipped(s)) <= shifts[s]

LiveInv ==
  /\ LiveTypes /\ Distinct(listeners)
  /\ \A c \in Socket : Attached(c)
  /\ \A s \in Source : Followed(s)

LEMMA LeastExists ==
  ASSUME NEW S \in SUBSET Nat, S # {}
  PROVE  \E x \in S : \A y \in S : x <= y
<1> DEFINE less == OpToRel(<, Nat)
<1>1. IsWellFoundedOn(less, Nat)
  BY NatLessThanWellFounded
<1>2. \A x, y \in Nat : y < x => <<y, x>> \in less
  BY DEF OpToRel
<1> HIDE DEF less
<1>3. PICK x \in S : \A y \in S : <<y, x>> \notin less
  BY <1>1, WFMin
<1>4. \A y \in S : ~(y < x)
  BY <1>2, <1>3
<1>5. QED
  BY <1>4

\* What is left of a list without some connections: each connection kept moves up, by
\* no more than the number of those that are gone.
LEMMA WithoutIs ==
  ASSUME NEW list \in Seq(Socket), Distinct(list), NEW rest \in SUBSET Socket
  PROVE  LET new == Without(list, rest)
             gone == rest \intersect Range(list)
         IN  /\ new \in Seq(Socket) /\ Distinct(new)
             /\ IsFiniteSet(gone)
             /\ \A m \in DOMAIN new : \E i \in DOMAIN list :
                  /\ new[m] = list[i] /\ list[i] \notin rest
                  /\ m <= i /\ i <= m + Cardinality(gone)
<1> DEFINE n == Len(list)
           kept == {i \in DOMAIN list : list[i] \notin rest}
           UpTo(i) == {k \in kept : k <= i}
           rank(i) == Cardinality(UpTo(i))
           gone == rest \intersect Range(list)
           new == Without(list, rest)
<1>1. n \in Nat /\ DOMAIN list = 1..n /\ \A i \in 1..n : list[i] \in Socket
  OBVIOUS
<1>2. IsFiniteSet(kept) /\ \A i \in Nat : IsFiniteSet(UpTo(i)) /\ rank(i) \in Nat
  <2>1. IsFiniteSet(1..n)
    BY <1>1, FS_Interval
  <2>2. kept \subseteq 1..n /\ \A i \in Nat : UpTo(i) \subseteq 1..n
    BY <1>1
  <2> HIDE DEF kept, UpTo
  <2>3. QED
    BY <2>1, <2>2, FS_Subset, FS_CardinalityType
<1>3. rank(0) = 0 /\ rank(n) = Cardinality(kept)
  <2>1. UpTo(0) = {} /\ UpTo(n) = kept
    BY <1>1
  <2>2. QED
    BY <2>1, FS_EmptySet
<1>4. ASSUME NEW i \in 1..n
      PROVE  rank(i) = IF i \in kept THEN rank(i - 1) + 1 ELSE rank(i - 1)
  <2>1. UpTo(i) = IF i \in kept THEN UpTo(i - 1) \union {i} ELSE UpTo(i - 1)
    BY <1>1
  <2>2. i \notin UpTo(i - 1) /\ i - 1 \in Nat
    BY <1>1
  <2>3. IsFiniteSet(UpTo(i - 1))
    BY <1>2, <2>2
  <2> HIDE DEF kept, UpTo
  <2>4. QED
    BY <2>1, <2>2, <2>3, FS_AddElement
<1>5. \A i, j \in 0..n : i <= j => rank(i) <= rank(j)
  <2> SUFFICES ASSUME NEW i \in 0..n, NEW j \in 0..n, i <= j PROVE rank(i) <= rank(j)
    OBVIOUS
  <2>1. UpTo(i) \in SUBSET UpTo(j)
    BY <1>1
  <2>2. IsFiniteSet(UpTo(j))
    BY <1>1, <1>2
  <2> HIDE DEF UpTo
  <2>3. QED
    BY <2>1, <2>2, FS_Subset
<1>6. ASSUME NEW i \in kept, NEW j \in kept, rank(i) = rank(j) PROVE i = j
  <2>1. ASSUME NEW x \in kept, NEW y \in kept, x < y PROVE rank(x) < rank(y)
    <3>1. x \in 0..n /\ y - 1 \in 0..n /\ x <= y - 1 /\ y \in 1..n
      BY <1>1, <2>1
    <3>2. x \in Nat /\ y - 1 \in Nat
      BY <1>1, <3>1
    <3> HIDE DEF kept, UpTo, rank
    <3>3. rank(x) \in Nat /\ rank(y - 1) \in Nat
      BY <1>2, <3>2
    <3>4. rank(x) <= rank(y - 1) /\ rank(y) = rank(y - 1) + 1
      BY <1>4, <1>5, <3>1
    <3>5. QED
      BY <3>3, <3>4
  <2>2. i \in Nat /\ j \in Nat
    BY <1>1
  <2> HIDE DEF kept, rank
  <2>3. rank(i) \in Nat
    BY <1>2, <2>2
  <2>4. QED
    BY <1>6, <2>1, <2>2, <2>3
<1>7. ASSUME NEW m \in 1..Cardinality(kept) PROVE \E i \in kept : rank(i) = m
  <2> DEFINE reached == {i \in 0..n : m <= rank(i)}
  <2>1. reached \in SUBSET Nat /\ n \in reached
    BY <1>1, <1>3
  <2>2. PICK i \in reached : \A j \in reached : i <= j
    <3> HIDE DEF reached
    <3> QED
      BY <2>1, LeastExists
  <2>3. m \in Nat \ {0} /\ i \in 0..n /\ m <= rank(i)
    BY <2>2
  <2> HIDE DEF rank
  <2>4. i # 0
    BY <1>3, <2>3
  <2>5. i \in 1..n /\ i - 1 \in 0..n /\ i - 1 \notin reached
    <3>1. i \in 1..n /\ i - 1 \in 0..n
      BY <1>1, <2>3, <2>4
    <3>2. ~(i <= i - 1)
      BY <3>1
    <3> HIDE DEF reached
    <3>3. QED
      BY <2>2, <3>1, <3>2
  <2>6. ~(m <= rank(i - 1)) /\ rank(i - 1) \in Nat
    <3>1. i - 1 \in Nat
      BY <2>5
    <3>2. QED
      BY <1>2, <2>5, <3>1
  <2> HIDE DEF kept
  <2>7. i \in kept /\ rank(i) = m
    BY <1>4, <2>3, <2>5, <2>6
  <2>8. QED
    BY <2>7
<1>8. Cardinality(kept) \in Nat
  BY <1>2, FS_CardinalityType
<1>9. /\ DOMAIN new = 1..Cardinality(kept)
      /\ \A m \in 1..Cardinality(kept) : \E i \in kept : new[m] = list[i] /\ rank(i) = m
  <2>1. new = [m \in 1..Cardinality(kept) |-> list[CHOOSE i \in kept : rank(i) = m]]
    BY DEF Without
  <2> HIDE DEF kept, rank, new
  <2>2. QED
    BY <1>7, <2>1
<1>10. IsFiniteSet(gone) /\ Cardinality(gone) \in Nat
  <2>1. gone \in SUBSET Socket
    OBVIOUS
  <2>2. QED
    BY <2>1, LiveAssumption, FS_Subset, FS_CardinalityType
<1>11. ASSUME NEW i \in kept PROVE rank(i) <= i /\ i <= rank(i) + Cardinality(gone)
  <2> DEFINE dropped == {k \in 1..i : list[k] \in rest}
  <2>1. i \in 1..n /\ i \in Nat
    BY <1>1
  <2>2. IsFiniteSet(1..i) /\ Cardinality(1..i) = i
    BY <2>1, FS_Interval
  <2>3. UpTo(i) \in SUBSET (1..i) /\ dropped \in SUBSET (1..i)
    BY <1>1, <2>1
  <2>4. UpTo(i) \union dropped = 1..i /\ UpTo(i) \intersect dropped = {}
    BY <1>1, <2>1
  <2>5. Cardinality(dropped) <= Cardinality(gone)
    <3> DEFINE f == [k \in dropped |-> list[k]]
    <3>1. f \in Injection(dropped, gone)
      <4>1. \A k \in dropped : k \in DOMAIN list /\ list[k] \in gone
        BY <1>1, <2>1 DEF Range
      <4>2. f \in [dropped -> gone]
        BY <4>1
      <4>3. \A x, y \in dropped : list[x] = list[y] => x = y
        BY <4>1 DEF Distinct
      <4> HIDE DEF dropped, gone
      <4>4. QED
        BY <4>2, <4>3 DEF Injection, IsInjective
    <3> HIDE DEF f, dropped, gone
    <3>2. QED
      BY <3>1, <1>10, FS_Injection
  <2> HIDE DEF UpTo, dropped, kept
  <2>6. /\ IsFiniteSet(UpTo(i)) /\ IsFiniteSet(dropped) /\ Cardinality(UpTo(i)) <= i
        /\ Cardinality(dropped) \in Nat /\ Cardinality(UpTo(i)) \in Nat
    BY <2>2, <2>3, FS_Subset, FS_CardinalityType
  <2>7. i = Cardinality(UpTo(i)) + Cardinality(dropped)
    <3>1. Cardinality(UpTo(i) \union dropped)
            = Cardinality(UpTo(i)) + Cardinality(dropped) - Cardinality(UpTo(i) \intersect dropped)
      BY <2>6, FS_Union
    <3>2. QED
      <4>1. Cardinality(UpTo(i) \intersect dropped) = 0
        BY <2>4, FS_EmptySet
      <4>2. Cardinality(UpTo(i) \union dropped) = i
        BY <2>2, <2>4
      <4>3. QED
        BY <2>1, <2>6, <3>1, <4>1, <4>2
  <2>8. QED
    BY <1>10, <2>1, <2>5, <2>6, <2>7
<1>12. \A m \in DOMAIN new : \E i \in DOMAIN list :
         /\ new[m] = list[i] /\ list[i] \notin rest
         /\ m <= i /\ i <= m + Cardinality(gone)
  <2> SUFFICES ASSUME NEW m \in DOMAIN new
               PROVE  \E i \in DOMAIN list : /\ new[m] = list[i] /\ list[i] \notin rest
                                             /\ m <= i /\ i <= m + Cardinality(gone)
    OBVIOUS
  <2>1. PICK i \in kept : new[m] = list[i] /\ rank(i) = m
    BY <1>9
  <2>2. i \in DOMAIN list /\ list[i] \notin rest
    OBVIOUS
  <2> HIDE DEF new, kept, rank, gone
  <2>3. QED
    BY <1>11, <2>1, <2>2
<1>13. new \in Seq(Socket)
  <2>1. \A m \in 1..Cardinality(kept) : new[m] \in Socket
    BY <1>1, <1>9
  <2>2. new = [m \in 1..Cardinality(kept) |-> new[m]]
    BY DEF Without
  <2> HIDE DEF new, kept
  <2>3. QED
    BY <1>8, <2>1, <2>2
<1>14. Distinct(new)
  <2> SUFFICES ASSUME NEW l \in DOMAIN new, NEW m \in DOMAIN new, new[l] = new[m]
               PROVE  l = m
    BY DEF Distinct
  <2>1. PICK i \in kept : new[l] = list[i] /\ rank(i) = l
    BY <1>9
  <2>2. PICK j \in kept : new[m] = list[j] /\ rank(j) = m
    BY <1>9
  <2>3. i = j
    BY <2>1, <2>2 DEF Distinct
  <2>4. QED
    BY <2>1, <2>2, <2>3
<1>15. QED
  BY <1>10, <1>12, <1>13, <1>14

-------------------------------------------------------------------------------

LEMMA LiveInvImplies == LiveInv => LiveTypeOK /\ InOrderOnce /\ PassedOverBounded
<1> SUFFICES ASSUME LiveInv PROVE LiveTypeOK /\ InOrderOnce /\ PassedOverBounded
  OBVIOUS
<1>1. LiveTypeOK
  BY DEF LiveInv, LiveTypes, Attached, Followed, LiveTypeOK
<1>2. InOrderOnce
  BY DEF LiveInv, Attached, InOrderOnce
<1>3. ASSUME NEW s \in Source PROVE Cardinality(PassedOver(s)) <= shifts[s]
  <2>1. PassedOver(s) \in SUBSET Skipped(s)
    BY DEF PassedOver, Skipped, LiveInv, LiveTypes
  <2>2. IsFiniteSet(Skipped(s))
    BY LiveAssumption, FS_Subset DEF Skipped, LiveInv, LiveTypes
  <2>3. /\ Cardinality(PassedOver(s)) <= Cardinality(Skipped(s))
        /\ Cardinality(PassedOver(s)) \in Nat /\ Cardinality(Skipped(s)) \in Nat
    BY <2>1, <2>2, FS_Subset, FS_CardinalityType
  <2>4. Cardinality(Skipped(s)) <= shifts[s] /\ shifts[s] \in Nat
    BY DEF LiveInv, LiveTypes, Followed
  <2>5. QED
    BY <2>3, <2>4
<1>4. QED
  BY <1>1, <1>2, <1>3 DEF PassedOverBounded

LEMMA NoneSkipped ==
  ASSUME NEW s \in Source, listeners \in Seq(Socket), Idle(s)
  PROVE  Skipped(s) = {} /\ Cardinality(Skipped(s)) = 0
<1>1. Skipped(s) = {}
  BY DEF Skipped, Idle
<1>2. QED
  BY <1>1, FS_EmptySet

LEMMA LiveInitHolds == LiveInit => LiveInv
<1> SUFFICES ASSUME LiveInit PROVE LiveInv
  OBVIOUS
<1>1. LiveTypes
  <2>1. <<>> \in Seq(Socket) /\ <<>> \in Seq(Event) /\ 0 \in Nat
    OBVIOUS
  <2>2. QED
    BY <2>1 DEF LiveInit, LiveTypes
<1>2. Distinct(listeners)
  BY DEF LiveInit, Distinct
<1>3. ASSUME NEW c \in Socket PROVE Attached(c)
  BY LiveAssumption DEF LiveInit, Attached, Range
<1>4. ASSUME NEW s \in Source PROVE Followed(s)
  <2>1. Idle(s) /\ listeners \in Seq(Socket)
    BY <1>1 DEF LiveInit, Idle, LiveTypes
  <2>2. MaxEmits[s] \in Nat
    BY LiveAssumption
  <2>3. QED
    BY <2>1, <2>2, NoneSkipped DEF LiveInit, Followed, Idle
<1>5. QED
  BY <1>1, <1>2, <1>3, <1>4 DEF LiveInv

\* A source that does nothing while the list changes: a connection moves up by at most
\* the removals counted, and only one that had no part in anything is new.
LEMMA OtherSource ==
  ASSUME LiveInv, NEW s \in Source, NEW g \in Nat,
         listeners' \in Seq(Socket), Distinct(listeners)',
         \A m \in DOMAIN listeners' :
           \/ phase[listeners'[m]] = "away"
           \/ \E i \in DOMAIN listeners :
                listeners'[m] = listeners[i] /\ m <= i /\ i <= m + g,
         index'[s] = index[s], sending'[s] = sending[s], emitted'[s] = emitted[s],
         owed'[s] \subseteq owed[s], shifts'[s] \in Nat, Idle(s) \/ shifts'[s] = shifts[s] + g,
         \A c \in Socket : \A i \in DOMAIN inbox'[c] :
           inbox'[c][i][1] = s => \E j \in DOMAIN inbox[c] : inbox[c][j] = inbox'[c][i]
  PROVE  Followed(s)'
<1> USE DEF LiveInv, LiveTypes
<1>1. Followed(s) /\ Idle(s)' = Idle(s)
  BY DEF Idle
<1>2. ASSUME NEW c \in Socket, Heard(s, c)' PROVE Heard(s, c) /\ phase[c] # "away"
  <2>1. PICK i \in DOMAIN inbox'[c] : inbox'[c][i] = <<s, emitted[s]>>
    BY <1>2 DEF Heard
  <2>2. inbox'[c][i][1] = s
    BY <2>1
  <2>3. PICK j \in DOMAIN inbox[c] : inbox[c][j] = inbox'[c][i]
    BY <2>2
  <2>4. Heard(s, c)
    BY <2>1, <2>3 DEF Heard
  <2>5. inbox[c] # <<>>
    BY <2>3
  <2>6. QED
    BY <2>4, <2>5 DEF Attached
<1>3. sending[s] \in Socket => phase[sending[s]] # "away"
  BY DEF Attached
<1>4. ~Idle(s) => sending[s] \in Socket
  BY <1>1 DEF Followed
<1>5. ASSUME ~Idle(s), NEW c \in Socket, c = sending[s] \/ Heard(s, c)',
             NEW m \in DOMAIN listeners', listeners'[m] = c
      PROVE  m <= index[s]
  <2>1. m \in Nat
    OBVIOUS
  <2>2. phase[c] # "away" /\ (c = sending[s] \/ Heard(s, c))
    BY <1>2, <1>3, <1>5
  <2>3. PICK i \in DOMAIN listeners : c = listeners[i] /\ m <= i
    BY <1>5, <2>2
  <2>4. i <= index[s] /\ i \in Nat /\ index[s] \in Nat
    <3>1. i \in Nat /\ index[s] \in Nat
      BY SMTT(30)
    <3>2. i <= index[s]
      BY <1>1, <1>5, <2>2, <2>3 DEF Followed
    <3>3. QED
      BY <3>1, <3>2
  <2>5. QED
    BY <2>1, <2>3, <2>4
<1>6. Cardinality(Skipped(s)') <= shifts'[s]
  <2>1. CASE Idle(s)
    <3>1. Skipped(s)' = {}
      BY <2>1 DEF Skipped, Idle
    <3>2. QED
      BY <3>1, FS_EmptySet
  <2>2. CASE ~Idle(s)
    <3>0. PICK at \in Nat : at = index[s]
      OBVIOUS
    <3> DEFINE PlaceOf(c) == CHOOSE k \in 1..g : at + k \in DOMAIN listeners /\ listeners[at + k] = c
               slid == {c \in owed'[s] : \E k \in 1..g : at + k \in DOMAIN listeners /\ listeners[at + k] = c}
               place == [c \in slid |-> PlaceOf(c)]
    <3>1. owed'[s] \in SUBSET Socket
      OBVIOUS
    <3>2. Skipped(s)' \subseteq Skipped(s) \union slid
      <4> SUFFICES ASSUME NEW c \in owed'[s], NEW m \in DOMAIN listeners', m <= index'[s], listeners'[m] = c
                   PROVE  c \in Skipped(s) \union slid
        BY DEF Skipped
      <4>1. phase[c] # "away" /\ c \in owed[s]
        BY DEF Attached
      <4>2. PICK i \in DOMAIN listeners : listeners[i] = c /\ m <= i /\ i <= m + g
        BY <4>1
      <4>3. i \in Nat /\ m \in Nat /\ m <= at
        BY <3>0, SMTT(30)
      <4>4. CASE i <= at
        BY <3>0, <4>1, <4>2, <4>4 DEF Skipped
      <4>5. CASE ~(i <= at)
        <5>1. i - at \in 1..g /\ at + (i - at) = i
          <6>1. \A x, y \in Nat : y <= at /\ x <= y + g /\ ~(x <= at) => x - at \in 1..g /\ at + (x - at) = x
            OBVIOUS
          <6>2. QED
            BY <4>2, <4>3, <4>5, <6>1
        <5>2. QED
          BY <4>2, <5>1
      <4>6. QED
        BY <4>4, <4>5
    <3>3. IsFiniteSet(1..g) /\ Cardinality(1..g) = g
      BY FS_Interval, SMTT(30)
    <3>4. IsFiniteSet(slid) /\ Cardinality(slid) <= g
      <4>1. \A c \in slid : PlaceOf(c) \in 1..g /\ listeners[at + PlaceOf(c)] = c
        OBVIOUS
      <4> HIDE DEF slid, PlaceOf
      <4>2. place \in [slid -> 1..g]
        BY <4>1
      <4>3. \A x, y \in slid : place[x] = place[y] => x = y
        BY <4>1
      <4>4. DOMAIN place = slid
        OBVIOUS
      <4> HIDE DEF place
      <4>5. place \in Injection(slid, 1..g)
        BY <4>2, <4>3, <4>4 DEF Injection, IsInjective
      <4>6. QED
        BY <3>3, <4>5, FS_Injection
    <3>5. IsFiniteSet(Skipped(s)) /\ Cardinality(Skipped(s)) <= shifts[s]
      <4>1. Skipped(s) \in SUBSET Socket
        BY DEF Skipped
      <4>2. QED
        BY <1>1, <4>1, LiveAssumption, FS_Subset DEF Followed
    <3> HIDE DEF slid, place
    <3>6. /\ IsFiniteSet(Skipped(s) \union slid)
          /\ Cardinality(Skipped(s) \union slid) <= Cardinality(Skipped(s)) + Cardinality(slid)
      <4>1. IsFiniteSet(Skipped(s) \intersect slid)
        BY <3>4, FS_Intersection, <3>5
      <4>2. /\ Cardinality(Skipped(s)) \in Nat /\ Cardinality(slid) \in Nat
            /\ Cardinality(Skipped(s) \intersect slid) \in Nat
        BY <3>4, <3>5, <4>1, FS_CardinalityType
      <4>3. /\ IsFiniteSet(Skipped(s) \union slid)
            /\ Cardinality(Skipped(s) \union slid)
                 = Cardinality(Skipped(s)) + Cardinality(slid) - Cardinality(Skipped(s) \intersect slid)
        BY <3>4, <3>5, FS_Union
      <4>4. QED
        BY <4>2, <4>3
    <3>7. /\ Cardinality(Skipped(s)') <= Cardinality(Skipped(s) \union slid)
          /\ Cardinality(Skipped(s)') \in Nat
      BY <3>2, <3>6, FS_Subset, FS_CardinalityType
    <3>8. Cardinality(Skipped(s)) \in Nat /\ Cardinality(slid) \in Nat
          /\ Cardinality(Skipped(s) \union slid) \in Nat
      BY <3>4, <3>5, <3>6, FS_CardinalityType
    <3>9. shifts'[s] = shifts[s] + g /\ shifts[s] \in Nat
      BY <2>2
    <3>10. QED
      BY <3>4, <3>5, <3>6, <3>7, <3>8, <3>9
  <2>3. QED
    BY <2>1, <2>2
<1>7. ASSUME NEW c \in Socket, NEW i \in DOMAIN inbox'[c], inbox'[c][i][1] = s
      PROVE  inbox'[c][i][2] <= emitted'[s]
  BY <1>1, <1>7 DEF Followed
<1>8. ASSUME NEW c \in Socket, c = sending[s], ~Idle(s) PROVE ~Heard(s, c)'
  BY <1>1, <1>2, <1>8 DEF Followed
<1>9. /\ (sending[s] = NoSocket <=> Idle(s))' /\ (emitted[s] <= MaxEmits[s])'
      /\ ~Idle(s)' => emitted'[s] # 0
  BY <1>1 DEF Followed
<1>10. ~Idle(s)' => /\ ~Heard(s, sending[s])'
                   /\ \A i \in DOMAIN listeners' :
                        (listeners[i] = sending[s] \/ Heard(s, listeners[i]))' => i <= index'[s]
  <2> SUFFICES ASSUME ~Idle(s)
               PROVE  /\ ~Heard(s, sending[s])'
                      /\ \A i \in DOMAIN listeners' :
                           (listeners[i] = sending[s] \/ Heard(s, listeners[i]))' => i <= index'[s]
    BY <1>1
  <2>1. ~Heard(s, sending[s])'
    BY <1>4, <1>8 DEF Heard
  <2>2. ASSUME NEW i \in DOMAIN listeners', (listeners[i] = sending[s] \/ Heard(s, listeners[i]))'
        PROVE  i <= index'[s]
    <3>1. PICK c \in Socket : c = listeners'[i]
      OBVIOUS
    <3>2. c = sending[s] \/ Heard(s, c)'
      BY <2>2, <3>1 DEF Heard
    <3>3. QED
      BY <1>5, <3>1, <3>2
  <2>3. QED
    BY <2>1, <2>2
<1>11. QED
  BY <1>6, <1>7, <1>9, <1>10 DEF Followed

\* The handshakes: the list at most gets longer.
LEMMA HandshakesKeepLiveInv ==
  ASSUME LiveInv,
         Subscribe \/ \E c \in Socket : Connect(c) \/ Authenticate(c) \/ PeerCloses(c)
  PROVE  LiveInv'
<1> USE DEF LiveInv, LiveTypes
<1>1. /\ UNCHANGED <<loops, history>>
      /\ inbox' \in [Socket -> Seq(Event)]
      /\ \A c \in Socket : inbox'[c] = inbox[c] \/ inbox'[c] = <<>>
  <2>1. <<>> \in Seq(Event)
    OBVIOUS
  <2>2. QED
    BY <2>1, ZenonT(30) DEF Subscribe, Connect, Authenticate, PeerCloses
<1>2. CASE \E c \in Socket : Connect(c)
  <2>1. PICK c \in Socket : Connect(c)
    BY <1>2
  <2>2. c \notin Range(listeners) /\ listeners' = Append(listeners, c) /\ phase[c] = "away"
        /\ UNCHANGED inbox
    BY <2>1 DEF Connect, Attached
  <2>3. /\ listeners' \in Seq(Socket)
        /\ DOMAIN listeners = 1..Len(listeners) /\ DOMAIN listeners' = 1..Len(listeners) + 1
        /\ \A i \in 1..Len(listeners) : listeners'[i] = listeners[i]
        /\ listeners'[Len(listeners) + 1] = c
    BY <2>2
  <2>4. LiveTypes'
    BY <1>1, <2>1, <2>3 DEF Connect, loops, history
  <2>5. Distinct(listeners)'
    BY <2>2, <2>3 DEF Distinct, Range
  <2>6. ASSUME NEW d \in Socket PROVE Attached(d)'
    <3>1. ASSUME d # c, d \in Range(listeners') PROVE d \in Range(listeners)
      <4>1. PICK m \in DOMAIN listeners' : listeners'[m] = d
        BY <3>1 DEF Range
      <4>2. m \in DOMAIN listeners /\ listeners[m] = d
        BY <2>3, <3>1, <4>1
      <4>3. QED
        BY <4>2 DEF Range
    <3>2. phase'[d] = IF d = c THEN "joining" ELSE phase[d]
      BY <2>1 DEF Connect
    <3>3. Attached(d)
      OBVIOUS
    <3>4. QED
      BY <1>1, <2>2, <3>1, <3>2, <3>3 DEF Attached, loops, history
  <2>7. ASSUME NEW s \in Source PROVE Followed(s)'
    <3>1. \A m \in DOMAIN listeners' :
            \/ phase[listeners'[m]] = "away"
            \/ \E i \in DOMAIN listeners : listeners'[m] = listeners[i] /\ m <= i /\ i <= m + 0
      <4>1. ASSUME NEW m \in 1..Len(listeners)
            PROVE  /\ m \in DOMAIN listeners /\ listeners'[m] = listeners[m]
                   /\ m <= m /\ m <= m + 0
        BY <2>3
      <4>2. \A m \in DOMAIN listeners' : m \in 1..Len(listeners) \/ m = Len(listeners) + 1
        BY <2>3
      <4>3. QED
        BY <2>2, <2>3, <4>1, <4>2
    <3>2. /\ index'[s] = index[s] /\ sending'[s] = sending[s] /\ emitted'[s] = emitted[s]
          /\ owed'[s] \subseteq owed[s] /\ shifts'[s] \in Nat /\ shifts'[s] = shifts[s] + 0
      BY <1>1 DEF loops, history
    <3>3. QED
      BY <2>2, <2>3, <2>5, <3>1, <3>2, OtherSource
  <2>8. QED
    BY <2>4, <2>5, <2>6, <2>7
<1>3. CASE Subscribe \/ \E c \in Socket : Authenticate(c) \/ PeerCloses(c)
  <2>1. /\ UNCHANGED listeners
        /\ \A d \in Socket : \/ phase'[d] = phase[d]
                             \/ phase[d] # "away" /\ phase'[d] \in {"open", "closed"}
    BY <1>3 DEF Subscribe, Authenticate, PeerCloses
  <2>2. LiveTypes'
    <3>1. subscribed' \in BOOLEAN
      BY <1>3 DEF Subscribe, Authenticate, PeerCloses
    <3>2. phase' \in [Socket -> {"away", "joining", "open", "closed", "gone"}]
      BY <1>3 DEF Subscribe, Authenticate, PeerCloses
    <3>3. QED
      BY <1>1, <2>1, <3>1, <3>2 DEF loops, history
  <2>3. Distinct(listeners)'
    BY <2>1 DEF Distinct
  <2>4. ASSUME NEW d \in Socket PROVE Attached(d)'
    <3>1. Attached(d)
      OBVIOUS
    <3>2. UNCHANGED <<listeners, sending, owed>>
      BY <1>1, <2>1 DEF loops, history
    <3>3. phase'[d] = "away" => phase[d] = "away"
      BY <2>1
    <3>4. phase'[d] = "gone" => phase[d] = "gone"
      BY <2>1
    <3>5. CASE inbox'[d] = inbox[d]
      BY <3>1, <3>2, <3>3, <3>4, <3>5 DEF Attached
    <3>6. CASE inbox'[d] = <<>>
      BY <3>1, <3>2, <3>3, <3>4, <3>6 DEF Attached
    <3>7. QED
      BY <1>1, <3>5, <3>6
  <2>5. ASSUME NEW s \in Source PROVE Followed(s)'
    <3>1. \A m \in DOMAIN listeners' :
            \/ phase[listeners'[m]] = "away"
            \/ \E i \in DOMAIN listeners : listeners'[m] = listeners[i] /\ m <= i /\ i <= m + 0
      <4> SUFFICES ASSUME NEW m \in DOMAIN listeners
                   PROVE  m <= m /\ m <= m + 0
        BY <2>1
      <4>1. m \in Nat
        OBVIOUS
      <4>2. QED
        BY <4>1
    <3>2. /\ index'[s] = index[s] /\ sending'[s] = sending[s] /\ emitted'[s] = emitted[s]
          /\ owed'[s] \subseteq owed[s] /\ shifts'[s] \in Nat /\ shifts'[s] = shifts[s] + 0
      BY <1>1 DEF loops, history
    <3>3. \A c \in Socket : \A i \in DOMAIN inbox'[c] :
            inbox'[c][i][1] = s => \E j \in DOMAIN inbox[c] : inbox[c][j] = inbox'[c][i]
      BY <1>1
    <3>4. QED
      BY <2>2, <2>3, <3>1, <3>2, <3>3, OtherSource
  <2>6. QED
    BY <2>2, <2>3, <2>4, <2>5
<1>4. QED
  BY <1>2, <1>3

\* Connections are taken off the list under the sources that do nothing.
LEMMA RemovalKeeps ==
  ASSUME LiveInv, NEW rest \in SUBSET Socket, listeners' = Without(listeners, rest)
  PROVE  /\ listeners' \in Seq(Socket) /\ Distinct(listeners)'
         /\ Range(listeners') \subseteq Range(listeners) \ rest
         /\ IsFiniteSet(rest \intersect Range(listeners))
         /\ Cardinality(rest \intersect Range(listeners)) \in Nat
         /\ \A s \in Source :
              (/\ index'[s] = index[s] /\ sending'[s] = sending[s] /\ emitted'[s] = emitted[s]
               /\ owed'[s] \subseteq owed[s]
               /\ shifts'[s] = IF Idle(s) THEN 0
                               ELSE shifts[s] + Cardinality(rest \intersect Range(listeners))
               /\ \A c \in Socket : \A i \in DOMAIN inbox'[c] :
                    inbox'[c][i][1] = s => \E j \in DOMAIN inbox[c] : inbox[c][j] = inbox'[c][i])
              => Followed(s)'
<1> USE DEF LiveInv, LiveTypes
<1> DEFINE gone == rest \intersect Range(listeners)
<1>1. /\ listeners' \in Seq(Socket) /\ Distinct(listeners')
      /\ IsFiniteSet(gone)
      /\ \A m \in DOMAIN listeners' : \E i \in DOMAIN listeners :
           /\ listeners'[m] = listeners[i] /\ listeners[i] \notin rest
           /\ m <= i /\ i <= m + Cardinality(gone)
  BY WithoutIs
<1>2. Distinct(listeners)'
  BY <1>1 DEF Distinct
<1>3. Range(listeners') \subseteq Range(listeners) \ rest
  BY <1>1, ZenonT(30) DEF Range
<1>4. Cardinality(gone) \in Nat
  BY <1>1, FS_CardinalityType
<1> HIDE DEF gone
<1>5. ASSUME NEW s \in Source,
             index'[s] = index[s], sending'[s] = sending[s], emitted'[s] = emitted[s],
             owed'[s] \subseteq owed[s],
             shifts'[s] = IF Idle(s) THEN 0 ELSE shifts[s] + Cardinality(gone),
             \A c \in Socket : \A i \in DOMAIN inbox'[c] :
               inbox'[c][i][1] = s => \E j \in DOMAIN inbox[c] : inbox[c][j] = inbox'[c][i]
      PROVE  Followed(s)'
  <2>1. shifts'[s] \in Nat /\ (Idle(s) \/ shifts'[s] = shifts[s] + Cardinality(gone))
    BY <1>4, <1>5
  <2>2. \A m \in DOMAIN listeners' :
          \/ phase[listeners'[m]] = "away"
          \/ \E i \in DOMAIN listeners :
               listeners'[m] = listeners[i] /\ m <= i /\ i <= m + Cardinality(gone)
    BY <1>1
  <2>3. QED
    BY <1>1, <1>2, <1>4, <1>5, <2>1, <2>2, OtherSource
<1>6. QED
  BY <1>1, <1>2, <1>3, <1>4, <1>5 DEF gone

LEMMA DisconnectKeepsLiveInv ==
  ASSUME LiveInv, NEW c \in Socket, Disconnect(c)
  PROVE  LiveInv'
<1> USE DEF LiveInv, LiveTypes
<1>1. /\ listeners' = Without(listeners, {c}) /\ {c} \in SUBSET Socket
      /\ phase[c] # "away" /\ phase' = [phase EXCEPT ![c] = "gone"]
      /\ UNCHANGED <<subscribed, index, sending, emitted, dead, inbox>>
      /\ owed' = [s \in Source |-> owed[s] \ {c}]
      /\ shifts' = [s \in Source |->
                      IF Idle(s) THEN 0 ELSE shifts[s] + Cardinality({c} \intersect Range(listeners))]
  BY DEF Disconnect, RemoveListeners, loops
<1>2. /\ listeners' \in Seq(Socket) /\ Distinct(listeners)'
      /\ Range(listeners') \subseteq Range(listeners) \ {c}
      /\ Cardinality({c} \intersect Range(listeners)) \in Nat
  BY <1>1, RemovalKeeps
<1>3. LiveTypes'
  BY <1>1, <1>2
<1>4. ASSUME NEW d \in Socket PROVE Attached(d)'
  <2>1. Attached(d)
    OBVIOUS
  <2>2. QED
    BY <1>1, <1>2, <2>1 DEF Attached
<1>5. ASSUME NEW s \in Source PROVE Followed(s)'
  <2>1. /\ index'[s] = index[s] /\ sending'[s] = sending[s] /\ emitted'[s] = emitted[s]
        /\ owed'[s] \subseteq owed[s]
        /\ shifts'[s] = IF Idle(s) THEN 0
                        ELSE shifts[s] + Cardinality({c} \intersect Range(listeners))
        /\ \A d \in Socket : \A i \in DOMAIN inbox'[d] :
             inbox'[d][i][1] = s => \E j \in DOMAIN inbox[d] : inbox[d][j] = inbox'[d][i]
    BY <1>1
  <2>2. QED
    BY <1>1, <2>1, RemovalKeeps
<1>6. QED
  BY <1>2, <1>3, <1>4, <1>5

-------------------------------------------------------------------------------

LEMMA BroadcastKeepsLiveInv ==
  ASSUME LiveInv, NEW s \in Source, Broadcast(s)
  PROVE  LiveInv'
<1> USE DEF LiveInv, LiveTypes
<1>1. /\ Idle(s) /\ emitted[s] < MaxEmits[s] /\ MaxEmits[s] \in Nat
      /\ emitted' = [emitted EXCEPT ![s] = @ + 1]
      /\ UNCHANGED <<subscribed, phase, dead, inbox, shifts, listeners>>
  BY LiveAssumption DEF Broadcast, ComeTo
<1>2. /\ index' = [index EXCEPT ![s] = IF listeners = <<>> THEN 0 ELSE 1]
      /\ sending' = [sending EXCEPT ![s] = IF listeners = <<>> THEN NoSocket ELSE listeners[1]]
  <2>1. sending[s] = NoSocket /\ index[s] = 0
    BY <1>1 DEF Followed, Idle
  <2>2. QED
    BY <2>1 DEF Broadcast, ComeTo
<1>3. /\ owed' \in [Source -> SUBSET Socket]
      /\ \A r \in Source \ {s} : owed'[r] = owed[r]
      /\ listeners # <<>> => owed'[s] = Range(Tail(listeners))
      /\ owed'[s] \subseteq owed[s] \union Range(listeners)
  <2>1. listeners # <<>> => Range(Tail(listeners)) \subseteq Range(listeners)
    BY DEF Range
  <2>2. Range(listeners) \subseteq Socket
    BY DEF Range
  <2>3. \/ owed' = owed /\ listeners = <<>>
        \/ owed' = [owed EXCEPT ![s] = Range(Tail(listeners))] /\ listeners # <<>>
    BY DEF Broadcast
  <2>4. QED
    BY <2>1, <2>2, <2>3
<1>4. listeners # <<>> => /\ 1 \in DOMAIN listeners /\ listeners[1] \in Range(listeners)
                          /\ listeners[1] \in Socket
  BY DEF Range
<1>5. LiveTypes'
  <2>1. emitted' \in [Source -> Nat]
    BY <1>1
  <2>2. index' \in [Source -> Nat]
    BY <1>2
  <2>3. sending' \in [Source -> Socket \union {NoSocket}]
    BY <1>2, <1>4
  <2>4. QED
    BY <1>1, <1>3, <2>1, <2>2, <2>3
<1>6. Distinct(listeners)'
  BY <1>1 DEF Distinct
<1>7. ASSUME NEW c \in Socket PROVE Attached(c)'
  <2>1. Attached(c) /\ c # NoSocket
    BY LiveAssumption
  <2>2. ASSUME phase[c] = "away", NEW r \in Source PROVE sending'[r] # c /\ c \notin owed'[r]
    BY <1>2, <1>3, <1>4, <2>1, <2>2 DEF Attached
  <2>3. QED
    BY <1>1, <2>1, <2>2 DEF Attached
<1>8. ASSUME NEW r \in Source \ {s} PROVE Followed(r)'
  <2>1. \A m \in DOMAIN listeners' :
          \/ phase[listeners'[m]] = "away"
          \/ \E i \in DOMAIN listeners : listeners'[m] = listeners[i] /\ m <= i /\ i <= m + 0
    <3> SUFFICES ASSUME NEW m \in DOMAIN listeners
                 PROVE  m <= m /\ m <= m + 0
      BY <1>1
    <3>1. m \in Nat
      OBVIOUS
    <3>2. QED
      BY <3>1, SMTT(30)
  <2>2. /\ index'[r] = index[r] /\ sending'[r] = sending[r] /\ emitted'[r] = emitted[r]
        /\ owed'[r] \subseteq owed[r] /\ shifts'[r] \in Nat /\ shifts'[r] = shifts[r] + 0
    BY <1>1, <1>2, <1>3
  <2>3. QED
    BY <1>1, <1>5, <1>6, <2>1, <2>2, OtherSource
<1>9. Followed(s)'
  <2>1. /\ emitted'[s] = emitted[s] + 1 /\ emitted[s] \in Nat
        /\ (sending[s] = NoSocket <=> Idle(s))' /\ (emitted[s] <= MaxEmits[s])'
        /\ emitted'[s] # 0
    BY <1>1, <1>2, <1>4, LiveAssumption DEF Idle
  <2>2. ASSUME NEW c \in Socket, NEW i \in DOMAIN inbox[c], inbox[c][i][1] = s
        PROVE  inbox[c][i][2] <= emitted[s] /\ inbox[c][i][2] \in Nat
    <3>1. inbox[c][i] \in Event
      OBVIOUS
    <3>2. QED
      BY <2>2, <3>1 DEF Followed, Event
  <2>3. ASSUME NEW c \in Socket PROVE ~Heard(s, c)'
    <3> SUFFICES ASSUME NEW i \in DOMAIN inbox[c], inbox[c][i] = <<s, emitted'[s]>> PROVE FALSE
      BY <1>1 DEF Heard
    <3>1. inbox[c][i][1] = s /\ inbox[c][i][2] = emitted[s] + 1
      BY <2>1
    <3>2. inbox[c][i][2] <= emitted[s]
      BY <2>2, <3>1
    <3>3. QED
      BY <2>1, <3>1, <3>2
  <2>4. CASE listeners = <<>>
    <3>1. Idle(s)' /\ Skipped(s)' = {}
      BY <1>1, <1>2, <2>4 DEF Idle, Skipped
    <3>2. Cardinality(Skipped(s)') = 0
      BY <3>1, FS_EmptySet
    <3>3. QED
      BY <1>1, <2>1, <2>2, <3>1, <3>2 DEF Followed
  <2>5. CASE listeners # <<>>
    <3>1. /\ DOMAIN listeners = 1..Len(listeners) /\ Len(listeners) \in Nat \ {0}
          /\ Len(Tail(listeners)) = Len(listeners) - 1
          /\ DOMAIN Tail(listeners) = 1..Len(listeners) - 1
          /\ \A i \in 1..Len(listeners) - 1 : Tail(listeners)[i] = listeners[i + 1]
      BY <2>5
    <3>2. Skipped(s)' = {}
      <4> SUFFICES ASSUME NEW c \in Range(Tail(listeners)), NEW i \in DOMAIN listeners,
                          i <= 1, listeners[i] = c
                   PROVE  FALSE
        BY <1>1, <1>2, <1>3, <2>5 DEF Skipped
      <4>1. PICK k \in 1..Len(listeners) - 1 : listeners[k + 1] = c
        BY <3>1 DEF Range
      <4>2. k + 1 \in DOMAIN listeners /\ i \in DOMAIN listeners /\ i # k + 1
        BY <3>1
      <4>3. QED
        BY <4>1, <4>2 DEF Distinct
    <3>3. Cardinality(Skipped(s)') = 0
      BY <3>2, FS_EmptySet
    <3>4. sending'[s] \in Socket /\ sending'[s] = listeners[1] /\ index'[s] = 1
      BY <1>2, <1>4, <2>5
    <3>5. ASSUME NEW i \in DOMAIN listeners, listeners[i] = sending'[s] PROVE i <= 1
      BY <1>4, <2>5, <3>4, <3>5 DEF Distinct
    <3>6. ~Heard(s, sending[s])'
      BY <2>3, <3>4 DEF Heard
    <3>7. ASSUME NEW i \in DOMAIN listeners', (listeners[i] = sending[s] \/ Heard(s, listeners[i]))'
          PROVE  i <= index'[s]
      <4>1. PICK c \in Socket : c = listeners'[i]
        BY <1>5
      <4>2. ~Heard(s, listeners[i])'
        BY <2>3, <4>1 DEF Heard
      <4>3. QED
        BY <1>1, <3>4, <3>5, <3>7, <4>2
    <3>8. QED
      BY <1>1, <2>1, <2>2, <3>3, <3>6, <3>7 DEF Followed
  <2>6. QED
    BY <2>4, <2>5
<1>10. QED
  BY <1>5, <1>6, <1>7, <1>8, <1>9

\* The end of a send, whichever way it went: only who was delivered to may have been
\* sent the event, and was not before.
LEMMA AdvanceKeepsLiveInv ==
  ASSUME LiveInv, NEW s \in Source, ~Idle(s), NEW corpses \in Seq(Socket), Advance(s, corpses),
         UNCHANGED <<subscribed, phase, emitted>>,
         \/ UNCHANGED inbox
         \/ inbox' = [inbox EXCEPT ![sending[s]] = Append(@, <<s, emitted[s]>>)]
  PROVE  LiveInv'
<1> USE DEF LiveInv, LiveTypes
<1>1. PICK to \in Socket : to = sending[s] /\ phase[to] # "away"
  BY DEF Followed, Attached
<1>2. /\ emitted[s] \in Nat \ {0} /\ ~Heard(s, to) /\ index[s] \in Nat \ {0}
      /\ <<s, emitted[s]>> \in Event
  BY <1>1 DEF Followed, Event, Idle
<1>3. /\ inbox' \in [Socket -> Seq(Event)]
      /\ \A c \in Socket : \A i \in DOMAIN inbox'[c] :
           \/ i \in DOMAIN inbox[c] /\ inbox'[c][i] = inbox[c][i]
           \/ c = to /\ i = Len(inbox[c]) + 1 /\ inbox'[c][i] = <<s, emitted[s]>>
      /\ \A c \in Socket \ {to} : inbox'[c] = inbox[c]
  <2>1. CASE UNCHANGED inbox
    BY <2>1
  <2>2. CASE inbox' = [inbox EXCEPT ![to] = Append(@, <<s, emitted[s]>>)]
    <3>1. inbox[to] \in Seq(Event)
      OBVIOUS
    <3> DEFINE longer == Append(inbox[to], <<s, emitted[s]>>)
    <3>2. /\ longer \in Seq(Event) /\ DOMAIN longer = 1..Len(inbox[to]) + 1
          /\ \A i \in 1..Len(inbox[to]) : i \in DOMAIN inbox[to] /\ longer[i] = inbox[to][i]
          /\ longer[Len(inbox[to]) + 1] = <<s, emitted[s]>>
          /\ \A i \in DOMAIN longer : i \in 1..Len(inbox[to]) \/ i = Len(inbox[to]) + 1
      <4>1. /\ longer \in Seq(Event) /\ Len(longer) = Len(inbox[to]) + 1
            /\ \A i \in 1..Len(inbox[to]) : longer[i] = inbox[to][i]
            /\ longer[Len(inbox[to]) + 1] = <<s, emitted[s]>>
        BY <1>2, <3>1, Appended
      <4> HIDE DEF longer
      <4>2. DOMAIN longer = 1..Len(inbox[to]) + 1 /\ DOMAIN inbox[to] = 1..Len(inbox[to])
            /\ Len(inbox[to]) \in Nat
        BY <3>1, <4>1
      <4>3. QED
        BY <4>1, <4>2, SMTT(30)
    <3>3. inbox' = [inbox EXCEPT ![to] = longer]
      BY <2>2
    <3> HIDE DEF longer
    <3>4. QED
      BY <3>2, <3>3
  <2>3. QED
    BY <1>1, <2>1, <2>2
<1>4. ASSUME NEW r \in Source \ {s}, NEW c \in Socket, NEW i \in DOMAIN inbox'[c], inbox'[c][i][1] = r
      PROVE  \E j \in DOMAIN inbox[c] : inbox[c][j] = inbox'[c][i]
  BY <1>3, <1>4, SMTT(30)
<1>5. ASSUME NEW c \in Socket, NEW i \in DOMAIN inbox'[c], inbox'[c][i][1] = s
      PROVE  inbox'[c][i][2] <= emitted[s]
  <2>1. CASE i \in DOMAIN inbox[c] /\ inbox'[c][i] = inbox[c][i]
    BY <1>5, <2>1 DEF Followed
  <2>2. CASE inbox'[c][i] = <<s, emitted[s]>>
    BY <1>2, <2>2
  <2>3. QED
    BY <1>3, <2>1, <2>2
<1>6. ASSUME NEW c \in Socket, NEW i \in DOMAIN inbox'[c], NEW j \in DOMAIN inbox'[c],
             i < j, inbox'[c][i][1] = inbox'[c][j][1]
      PROVE  inbox'[c][i][2] < inbox'[c][j][2]
  <2>1. /\ DOMAIN inbox[c] = 1..Len(inbox[c]) /\ Len(inbox[c]) \in Nat
        /\ i \in Nat /\ j \in Nat
    <3>1. inbox[c] \in Seq(Event) /\ inbox'[c] \in Seq(Event)
      BY <1>3
    <3>2. QED
      BY <3>1, SMTT(30)
  <2>5. \/ i \in DOMAIN inbox[c] /\ inbox'[c][i] = inbox[c][i]
        \/ i = Len(inbox[c]) + 1
    BY <1>3
  <2>2. CASE j \in DOMAIN inbox[c] /\ inbox'[c][j] = inbox[c][j]
    <3>1. i \in DOMAIN inbox[c] /\ inbox'[c][i] = inbox[c][i]
      BY <1>6, <2>1, <2>2, <2>5
    <3>2. QED
      BY <1>6, <2>2, <3>1 DEF Attached
  <2>3. CASE c = to /\ j = Len(inbox[c]) + 1 /\ inbox'[c][j] = <<s, emitted[s]>>
    <3>1. i \in DOMAIN inbox[c] /\ inbox'[c][i] = inbox[c][i]
      BY <1>6, <2>1, <2>3, <2>5
    <3>2. inbox[c][i] \in Event /\ inbox[c][i][1] = s
      BY <1>6, <2>3, <3>1
    <3>3. inbox[c][i][2] <= emitted[s] /\ inbox[c][i][2] \in Nat
      BY <3>1, <3>2 DEF Followed, Event
    <3>4. inbox[c][i][2] # emitted[s]
      <4> SUFFICES ASSUME inbox[c][i][2] = emitted[s] PROVE FALSE
        OBVIOUS
      <4> HIDE DEF LiveInv, LiveTypes
      <4>1. inbox[c][i] = <<s, emitted[s]>>
        <5>1. \A e \in Event : e = <<e[1], e[2]>>
          BY DEF Event
        <5>2. QED
          BY <3>2, <5>1
      <4>2. QED
        BY <1>2, <2>3, <3>1, <4>1 DEF Heard
    <3>5. QED
      BY <1>2, <2>3, <3>1, <3>3, <3>4
  <2>4. QED
    BY <1>3, <2>2, <2>3
<1>7. ASSUME NEW c \in Socket, Heard(s, c)' PROVE Heard(s, c) \/ c = to
  BY <1>3, <1>7 DEF Heard
<1>8. ASSUME NEW c \in Socket, phase[c] = "away" PROVE inbox'[c] = <<>>
  BY <1>1, <1>3, <1>8 DEF Attached
<1> DEFINE next == index[s] + 1
<1>9. CASE next <= Len(listeners)
  <2>1. /\ index' = [index EXCEPT ![s] = next] /\ sending' = [sending EXCEPT ![s] = listeners[next]]
        /\ dead' = [dead EXCEPT ![s] = corpses] /\ owed' = [owed EXCEPT ![s] = @ \ {listeners[next]}]
        /\ UNCHANGED <<listeners, shifts>>
    BY <1>9 DEF Advance, ComeTo
  <2>2. /\ next \in DOMAIN listeners /\ listeners[next] \in Socket /\ next \in Nat \ {0}
        /\ listeners[next] \in Range(listeners)
    <3>1. next \in DOMAIN listeners
      BY <1>2, <1>9
    <3>2. QED
      BY <1>2, <3>1, SMTT(30) DEF Range
  <2>3. LiveTypes'
    BY <1>3, <2>1, <2>2
  <2>4. Distinct(listeners)'
    BY <2>1 DEF Distinct
  <2>5. ASSUME NEW c \in Socket PROVE Attached(c)'
    <3>1. Attached(c)
      OBVIOUS
    <3>2. phase[c] = "away" => \A r \in Source : sending'[r] # c /\ c \notin owed'[r]
      BY <2>1, <2>2, <3>1 DEF Attached
    <3>3. QED
      BY <1>6, <1>8, <2>1, <3>1, <3>2 DEF Attached
  <2>6. ASSUME NEW r \in Source \ {s} PROVE Followed(r)'
    <3>1. \A m \in DOMAIN listeners' :
            \/ phase[listeners'[m]] = "away"
            \/ \E i \in DOMAIN listeners : listeners'[m] = listeners[i] /\ m <= i /\ i <= m + 0
      <4> SUFFICES ASSUME NEW m \in DOMAIN listeners
                   PROVE  m <= m /\ m <= m + 0
        BY <2>1
      <4>1. m \in Nat
        BY SMTT(30)
      <4>2. QED
        BY <4>1, SMTT(30)
    <3>2. /\ index'[r] = index[r] /\ sending'[r] = sending[r] /\ emitted'[r] = emitted[r]
          /\ owed'[r] \subseteq owed[r] /\ shifts'[r] \in Nat /\ shifts'[r] = shifts[r] + 0
      BY <2>1
    <3>3. QED
      BY <1>4, <2>3, <2>4, <3>1, <3>2, OtherSource
  <2>7. Followed(s)'
    <3>1. index'[s] = next /\ sending'[s] = listeners[next] /\ Followed(s)
      BY <2>1
    <3>2. ASSUME NEW c \in Socket, Heard(s, c)', NEW i \in DOMAIN listeners, listeners[i] = c
          PROVE  i <= index[s]
      BY <1>1, <1>7, <3>1, <3>2 DEF Followed
    <3>3. ~(next <= index[s])
      BY <1>2
    <3>4. ASSUME NEW c \in Socket, c = listeners[next] PROVE ~Heard(s, c)'
      BY <2>2, <3>2, <3>3, <3>4
    <3>5. ~Heard(s, sending[s])'
      BY <2>2, <3>1, <3>4 DEF Heard
    <3>6. ASSUME NEW i \in DOMAIN listeners', (listeners[i] = sending[s] \/ Heard(s, listeners[i]))'
          PROVE  i <= index'[s]
      <4>1. PICK c \in Socket : c = listeners'[i] /\ c = listeners[i] /\ i \in DOMAIN listeners /\ i \in Nat
        BY <2>1, SMTT(30)
      <4>2. CASE c = listeners[next]
        <5>1. i = next
          BY <2>2, <4>1, <4>2 DEF Distinct
        <5>2. QED
          BY <2>2, <3>1, <5>1
      <4>3. CASE Heard(s, c)'
        <5>1. i <= index[s]
          BY <3>2, <4>1, <4>3
        <5>2. QED
          BY <1>2, <3>1, <4>1, <5>1
      <4>4. c = listeners[next] \/ Heard(s, c)'
        BY <3>1, <3>6, <4>1 DEF Heard
      <4>5. QED
        BY <4>2, <4>3, <4>4
    <3>7. Skipped(s)' \subseteq Skipped(s)
      <4> SUFFICES ASSUME NEW c \in owed'[s], NEW i \in DOMAIN listeners, i <= next, listeners[i] = c
                   PROVE  c \in Skipped(s)
        BY <2>1, <3>1 DEF Skipped
      <4>1. i # next /\ c \in owed[s]
        BY <2>1
      <4>2. i <= index[s]
        BY <1>2, <4>1
      <4>3. QED
        BY <4>1, <4>2 DEF Skipped
    <3>8. Cardinality(Skipped(s)') <= shifts'[s]
      <4>1. IsFiniteSet(Skipped(s))
        BY LiveAssumption, FS_Subset DEF Skipped
      <4>2. /\ Cardinality(Skipped(s)') <= Cardinality(Skipped(s)) /\ Cardinality(Skipped(s)') \in Nat
            /\ Cardinality(Skipped(s)) \in Nat
        BY <3>7, <4>1, FS_Subset, FS_CardinalityType
      <4>3. Cardinality(Skipped(s)) <= shifts[s] /\ shifts[s] \in Nat /\ shifts'[s] = shifts[s]
        BY <2>1, <3>1 DEF Followed
      <4>4. QED
        BY <4>2, <4>3
    <3>9. (sending[s] = NoSocket <=> Idle(s))' /\ (emitted[s] <= MaxEmits[s])' /\ emitted'[s] # 0
      BY <1>2, <2>2, <3>1, LiveAssumption DEF Followed, Idle
    <3>10. QED
      BY <1>5, <3>5, <3>6, <3>8, <3>9 DEF Followed
  <2>8. QED
    BY <2>3, <2>4, <2>5, <2>6, <2>7
<1>10. CASE ~(next <= Len(listeners))
  <2> DEFINE gone == Removable(listeners, corpses)
  <2>1. /\ index' = [index EXCEPT ![s] = 0] /\ sending' = [sending EXCEPT ![s] = NoSocket]
        /\ dead' = [dead EXCEPT ![s] = <<>>] /\ listeners' = Without(listeners, gone)
        /\ owed' = [r \in Source |-> IF r = s THEN {} ELSE owed[r] \ gone]
        /\ shifts' = [r \in Source |->
                        IF r = s \/ Idle(r) THEN 0 ELSE shifts[r] + Cardinality(gone)]
    BY <1>10 DEF Advance
  <2>2. gone \in SUBSET Socket /\ gone \intersect Range(listeners) = gone
    <3>1. ASSUME NEW c \in gone PROVE c \in Socket /\ c \in Range(listeners)
      <4>1. PICK m \in DOMAIN corpses : /\ c = corpses[m]
                                        /\ \A k \in 1..m : corpses[k] \in Range(listeners)
        BY DEF Removable
      <4>2. m \in 1..m
        OBVIOUS
      <4>3. QED
        BY <4>1, <4>2
    <3>2. QED
      BY <3>1
  <2> HIDE DEF gone
  <2>3. /\ listeners' \in Seq(Socket) /\ Distinct(listeners)'
        /\ Range(listeners') \subseteq Range(listeners) \ gone
        /\ Cardinality(gone) \in Nat
    BY <2>1, <2>2, RemovalKeeps
  <2>4. LiveTypes'
    BY <1>3, <2>1, <2>3, SMTT(30)
  <2>5. ASSUME NEW c \in Socket PROVE Attached(c)'
    <3>1. Attached(c) /\ c # NoSocket
      BY LiveAssumption
    <3>2. phase[c] = "away" => \A r \in Source : sending'[r] # c /\ c \notin owed'[r]
      BY <2>1, <3>1 DEF Attached
    <3>3. c \notin Range(listeners) => c \notin Range(listeners')
      BY <2>3
    <3>4. QED
      BY <1>6, <1>8, <3>1, <3>2, <3>3 DEF Attached
  <2>6. ASSUME NEW r \in Source \ {s} PROVE Followed(r)'
    <3>1. /\ index'[r] = index[r] /\ sending'[r] = sending[r] /\ emitted'[r] = emitted[r]
          /\ owed'[r] \subseteq owed[r]
          /\ shifts'[r] = IF Idle(r) THEN 0
                          ELSE shifts[r] + Cardinality(gone \intersect Range(listeners))
      BY <2>1, <2>2
    <3>2. QED
      BY <1>4, <2>1, <2>2, <3>1, RemovalKeeps
  <2>7. Followed(s)'
    <3>1. Idle(s)' /\ sending'[s] = NoSocket /\ shifts'[s] = 0 /\ Skipped(s)' = {}
      BY <2>1 DEF Idle, Skipped
    <3>2. Cardinality(Skipped(s)') = 0
      BY <3>1, FS_EmptySet
    <3>3. (emitted[s] <= MaxEmits[s])'
      BY LiveAssumption DEF Followed
    <3>4. QED
      BY <1>5, <3>1, <3>2, <3>3 DEF Followed
  <2>8. QED
    BY <2>3, <2>4, <2>5, <2>6, <2>7
<1>11. QED
  BY <1>9, <1>10

LEMMA LiveInvariant == LiveSpec => []LiveInv
<1>1. LiveInv /\ [LiveNext]_liveVars => LiveInv'
  <2> SUFFICES ASSUME LiveInv, [LiveNext]_liveVars PROVE LiveInv'
    OBVIOUS
  <2>1. CASE UNCHANGED liveVars
    <3>1. UNCHANGED <<subscribed, listeners, phase, emitted, index, sending, dead, inbox, owed, shifts>>
      BY <2>1 DEF liveVars, loops, history
    <3>2. LiveTypes' /\ Distinct(listeners)'
      BY <3>1 DEF LiveInv, LiveTypes, Distinct
    <3>3. ASSUME NEW c \in Socket PROVE Attached(c)'
      BY <3>1 DEF LiveInv, Attached
    <3>4. ASSUME NEW s \in Source PROVE Followed(s)'
      BY <3>1 DEF LiveInv, Followed, Heard, Skipped, Idle
    <3>5. QED
      BY <3>2, <3>3, <3>4 DEF LiveInv
  <2>2. ASSUME NEW s \in Source, Delivered(s) \/ TimesOut(s) \/ Raises(s) PROVE LiveInv'
    <3>1. ~Idle(s) /\ UNCHANGED <<subscribed, phase, emitted>>
      BY <2>2 DEF Delivered, TimesOut, Raises
    <3>2. \/ UNCHANGED inbox
          \/ inbox' = [inbox EXCEPT ![sending[s]] = Append(@, <<s, emitted[s]>>)]
      BY <2>2 DEF Delivered, TimesOut, Raises
    <3>3. sending[s] \in Socket /\ dead[s] \in Seq(Socket)
      BY <3>1 DEF LiveInv, LiveTypes, Followed
    <3>4. Append(dead[s], sending[s]) \in Seq(Socket)
      BY <3>3
    <3>5. \E corpses \in Seq(Socket) : Advance(s, corpses)
      BY <2>2, <3>3, <3>4 DEF Delivered, TimesOut, Raises
    <3>6. QED
      BY <3>1, <3>2, <3>5, AdvanceKeepsLiveInv
  <2>3. QED
    BY <2>1, <2>2, HandshakesKeepLiveInv, DisconnectKeepsLiveInv, BroadcastKeepsLiveInv DEF LiveNext
<1>2. QED
  BY <1>1, LiveInitHolds, PTL DEF LiveSpec

\* The list of connections, the broadcasts over it and what the connections got have their types.
THEOREM LiveTypeCorrect == LiveSpec => []LiveTypeOK
  BY LiveInvariant, LiveInvImplies, PTL

\* No connection is sent an event of a source twice or after a later one of it, though the
\* list changes under every loop that broadcasts over it.
THEOREM InOrderOnceHolds == LiveSpec => []InOrderOnce
  BY LiveInvariant, LiveInvImplies, PTL

\* A broadcast comes past at most as many of the listeners it began with as connections
\* were removed from the list since: each removal shifts the list by one under the loop.
THEOREM PassedOverBoundedHolds == LiveSpec => []PassedOverBounded
  BY LiveInvariant, LiveInvImplies, PTL

===============================================================================
