---------------------------- MODULE GatewayProofs ----------------------------
(***************************************************************************)
(* Proofs about the creation of a project, from the gateway to the         *)
(* orchestrator, for any number of attempts, keys, providers, changes of   *)
(* the settings, crashes and connections.                                  *)
(***************************************************************************)
EXTENDS Gateway, FiniteSetTheorems, WellFoundedInduction, TLAPS

\* A non-empty set of naturals has a least element.
LEMMA LeastExists ==
  ASSUME NEW S \in SUBSET Nat, S # {}
  PROVE  Min(S) \in S
<1> DEFINE less == OpToRel(<, Nat)
<1>1. IsWellFoundedOn(less, Nat)
  BY NatLessThanWellFounded
<1>2. \A x, y \in Nat : y < x => <<y, x>> \in less
  BY DEF OpToRel
<1> HIDE DEF less
<1>3. PICK x \in S : \A y \in S : <<y, x>> \notin less
  BY <1>1, WFMin
<1>4. \A y \in S : ~(y < x)
  BY <1>2, <1>3
<1>5. \A y \in S : x <= y
  BY <1>4
<1>6. QED
  BY <1>5 DEF Min

\* The oldest of some rows is one of them.
LEMMA OldestIsOne ==
  ASSUME added \in Seq(Key), NEW some \in SUBSET Range(added), some # {}
  PROVE  Oldest(some) \in some
<1> DEFINE where == {i \in DOMAIN added : added[i] \in some}
<1>1. where \subseteq Nat
  OBVIOUS
<1>2. where # {}
  BY DEF Range
<1>3. Min(where) \in where
  BY <1>1, <1>2, LeastExists
<1>4. QED
  BY <1>3 DEF Oldest

\* What the second query finds: a key the user has, of the preferred provider or
\* the preferred key itself; or none.
LEMMA ResolveKeyFinds ==
  ASSUME KeysOK, NEW p \in Pref
  PROVE  \/ ResolveKey(p) = ServerKey
         \/ /\ ResolveKey(p) \in Rows
            /\ ProviderOf[ResolveKey(p)] = p.provider \/ ResolveKey(p) = p.key
<1> DEFINE found == IF p.key = AnyKey THEN {k \in Rows : ProviderOf[k] = p.provider}
                    ELSE Rows \intersect {p.key}
<1>1. found \subseteq Rows /\ found \subseteq Range(added)
  BY DEF Rows
<1>2. \A k \in found : ProviderOf[k] = p.provider \/ k = p.key
  OBVIOUS
<1>3. ResolveKey(p) = IF found = {} THEN ServerKey ELSE Oldest(found)
  BY DEF ResolveKey
<1> HIDE DEF found
<1>4. found # {} => Oldest(found) \in found
  BY <1>1, OldestIsOne DEF KeysOK
<1>5. QED
  BY <1>1, <1>2, <1>3, <1>4

-------------------------------------------------------------------------------

\* Where the attempts are, and what they have stored before.
Progress ==
  \A a \in Attempt :
    /\ pc[a] = "task" => a \in projects
    /\ pc[a] \in {"pref", "key", "publish"} => a \in tasks
    /\ a \in sent => pc[a] \in {"store"} \union Ended
    /\ pc[a] = "key" => seen[a] \in Pref

\* As long as the key is absent, nobody has marked it.
Unmarked ==
  /\ idem = "absent" => guarded = {}
  /\ RepeatsExplained

\* What was resolved for a fits the settings as they were from the request on.
Fits(a) ==
  config[a].key # ServerKey =>
    /\ config[a].key \notin goneAt[a]
    /\ ProviderOf[config[a].key] = config[a].provider \/ seen[a].key = config[a].key

Resolved == \A a \in Attempt : pc[a] = "publish" \/ a \in sent => Fits(a)

IInv == TypeOK /\ IsFiniteSet(held) /\ Progress /\ Unmarked /\ Resolved

-------------------------------------------------------------------------------

\* TypeOK, by who changes it.
ControlTypes ==
  /\ pc \in [Attempt -> {"idle"} \union Waiting \union Ended]
  /\ answer \in [Attempt -> {Unanswered, "limited", "conflict", "hit", "forbidden",
                             "refused", "unavailable", "accepted"}]
  /\ idem \in Value \union {"absent"}
  /\ guarded \subseteq Attempt /\ before \in [Attempt -> SUBSET Attempt]
  /\ unchecked \subseteq Attempt
  /\ \A a \in Attempt : pc[a] = "idle" => answer[a] = Unanswered

StoreTypes ==
  /\ sent \subseteq tasks /\ tasks \subseteq projects /\ projects \subseteq Attempt
  /\ edits \in 0..MaxEdits /\ crashes \in 0..MaxCrashes

ResolverTypes == seen \in [Attempt -> Pref \union {NoPref}] /\ config \in [Attempt -> Config]

Holders == held = {a \in Attempt : pc[a] = "key"}
Pool == IsFiniteSet(held) /\ Cardinality(held) <= MaxConns

Deletions ==
  /\ KeysOK
  /\ goneAt \in [Attempt -> SUBSET Key] /\ \A a \in Attempt : goneAt[a] \subseteq gone

LEMMA TypeParts ==
  TypeOK /\ IsFiniteSet(held)
    <=> ControlTypes /\ StoreTypes /\ ResolverTypes /\ Holders /\ Pool /\ Deletions
  BY DEF TypeOK, ControlTypes, StoreTypes, ResolverTypes, Holders, Pool, Deletions

LEMMA ControlNext == IInv /\ [Next]_vars => ControlTypes'
<1> SUFFICES ASSUME IInv, [Next]_vars PROVE ControlTypes'
  OBVIOUS
<1> USE GatewayAssumption, TypeParts DEF IInv, At, Answer, idempotency, resolver, stores, bounds, keyVars, ControlTypes, Waiting, Ended, Value
<1>1. ASSUME NEW a \in Attempt, Arrive(a) PROVE ControlTypes'
  BY <1>1 DEF Arrive
<1>2. ASSUME NEW a \in Attempt, Lookup(a) PROVE ControlTypes'
  BY <1>2 DEF Lookup
<1>3. ASSUME NEW a \in Attempt, Mark(a) PROVE ControlTypes'
  BY <1>3 DEF Mark
<1>4. ASSUME NEW a \in Attempt, Store(a) PROVE ControlTypes'
  BY <1>4 DEF Store
<1>5. ASSUME NEW a \in Attempt, InsertProject(a) PROVE ControlTypes'
  BY <1>5 DEF InsertProject
<1>6. ASSUME NEW a \in Attempt, InsertTask(a) PROVE ControlTypes'
  BY <1>6 DEF InsertTask
<1>7. ASSUME NEW a \in Attempt, ReadPref(a) PROVE ControlTypes'
  BY <1>7 DEF ReadPref
<1>8. ASSUME NEW a \in Attempt, ReadKey(a) PROVE ControlTypes'
  BY <1>8 DEF ReadKey
<1>9. ASSUME NEW a \in Attempt, Publish(a) PROVE ControlTypes'
  BY <1>9 DEF Publish
<1>10. ASSUME NEW a \in Attempt, Unguarded(a) PROVE ControlTypes'
  BY <1>10 DEF Unguarded
<1>11. ASSUME NEW a \in Attempt, Refuse(a) PROVE ControlTypes'
  BY <1>11 DEF Refuse
<1>12. ASSUME NEW a \in Attempt, Unavailable(a) PROVE ControlTypes'
  BY <1>12 DEF Unavailable
<1>13. CASE Expire
  BY <1>13 DEF Expire
<1>14. CASE Edit
  BY <1>14 DEF Edit
<1>15. CASE Crash
  BY <1>15 DEF Crash
<1>16. CASE OrchestratorDies
  BY <1>16 DEF OrchestratorDies, Calling
<1>17. CASE UNCHANGED vars
  BY <1>17 DEF vars
<1>18. QED
  BY <1>1, <1>2, <1>3, <1>4, <1>5, <1>6, <1>7, <1>8, <1>9, <1>10, <1>11, <1>12, <1>13, <1>14, <1>15, <1>16, <1>17 DEF Next, Step, Fails

LEMMA StoresNext == IInv /\ [Next]_vars => StoreTypes'
<1> SUFFICES ASSUME IInv, [Next]_vars PROVE StoreTypes'
  OBVIOUS
<1> USE GatewayAssumption, TypeParts DEF IInv, At, Answer, idempotency, resolver, stores, bounds, keyVars, StoreTypes, Progress
<1>1. ASSUME NEW a \in Attempt, Arrive(a) PROVE StoreTypes'
  BY <1>1 DEF Arrive
<1>2. ASSUME NEW a \in Attempt, Lookup(a) PROVE StoreTypes'
  BY <1>2 DEF Lookup
<1>3. ASSUME NEW a \in Attempt, Mark(a) PROVE StoreTypes'
  BY <1>3 DEF Mark
<1>4. ASSUME NEW a \in Attempt, Store(a) PROVE StoreTypes'
  BY <1>4 DEF Store
<1>5. ASSUME NEW a \in Attempt, InsertProject(a) PROVE StoreTypes'
  BY <1>5 DEF InsertProject
<1>6. ASSUME NEW a \in Attempt, InsertTask(a) PROVE StoreTypes'
  BY <1>6 DEF InsertTask
<1>7. ASSUME NEW a \in Attempt, ReadPref(a) PROVE StoreTypes'
  BY <1>7 DEF ReadPref
<1>8. ASSUME NEW a \in Attempt, ReadKey(a) PROVE StoreTypes'
  BY <1>8 DEF ReadKey
<1>9. ASSUME NEW a \in Attempt, Publish(a) PROVE StoreTypes'
  BY <1>9 DEF Publish
<1>10. ASSUME NEW a \in Attempt, Unguarded(a) PROVE StoreTypes'
  BY <1>10 DEF Unguarded
<1>11. ASSUME NEW a \in Attempt, Refuse(a) PROVE StoreTypes'
  BY <1>11 DEF Refuse
<1>12. ASSUME NEW a \in Attempt, Unavailable(a) PROVE StoreTypes'
  BY <1>12 DEF Unavailable
<1>13. CASE Expire
  BY <1>13 DEF Expire
<1>14. CASE Edit
  BY <1>14 DEF Edit
<1>15. CASE Crash
  BY <1>15 DEF Crash
<1>16. CASE OrchestratorDies
  BY <1>16 DEF OrchestratorDies, Calling
<1>17. CASE UNCHANGED vars
  BY <1>17 DEF vars
<1>18. QED
  BY <1>1, <1>2, <1>3, <1>4, <1>5, <1>6, <1>7, <1>8, <1>9, <1>10, <1>11, <1>12, <1>13, <1>14, <1>15, <1>16, <1>17 DEF Next, Step, Fails

LEMMA ResolverNext == IInv /\ [Next]_vars => ResolverTypes'
<1> SUFFICES ASSUME IInv, [Next]_vars PROVE ResolverTypes'
  OBVIOUS
<1> USE GatewayAssumption, TypeParts DEF IInv, At, Answer, idempotency, resolver, stores, bounds, keyVars, ResolverTypes, Deletions
<1>1. ASSUME NEW a \in Attempt, Arrive(a) PROVE ResolverTypes'
  BY <1>1 DEF Arrive
<1>2. ASSUME NEW a \in Attempt, Lookup(a) PROVE ResolverTypes'
  BY <1>2 DEF Lookup
<1>3. ASSUME NEW a \in Attempt, Mark(a) PROVE ResolverTypes'
  BY <1>3 DEF Mark
<1>4. ASSUME NEW a \in Attempt, Store(a) PROVE ResolverTypes'
  BY <1>4 DEF Store
<1>5. ASSUME NEW a \in Attempt, InsertProject(a) PROVE ResolverTypes'
  BY <1>5 DEF InsertProject
<1>6. ASSUME NEW a \in Attempt, InsertTask(a) PROVE ResolverTypes'
  BY <1>6 DEF InsertTask
<1>7. ASSUME NEW a \in Attempt, ReadPref(a) PROVE ResolverTypes'
  <2>1. DefaultConfig \in Config
    BY DEF DefaultConfig, Config
  <2>2. QED
    BY <1>7, <2>1 DEF ReadPref, KeysOK
<1>8. ASSUME NEW a \in Attempt, ReadKey(a) PROVE ResolverTypes'
  <2>1. seen[a] \in Pref
    BY <1>8 DEF ReadKey, Progress
  <2>2. seen[a].provider \in Provider
    BY <2>1 DEF Pref
  <2>3. ResolveKey(seen[a]) \in Key \union {ServerKey}
    BY <2>1, ResolveKeyFinds DEF Rows, KeysOK, Range
  <2>4. \A k \in {ResolveKey(seen[a]), ServerKey} :
          [provider |-> seen[a].provider, key |-> k] \in Config
    BY <2>2, <2>3 DEF Config
  <2>5. QED
    BY <1>8, <2>4 DEF ReadKey
<1>9. ASSUME NEW a \in Attempt, Publish(a) PROVE ResolverTypes'
  BY <1>9 DEF Publish
<1>10. ASSUME NEW a \in Attempt, Unguarded(a) PROVE ResolverTypes'
  BY <1>10 DEF Unguarded
<1>11. ASSUME NEW a \in Attempt, Refuse(a) PROVE ResolverTypes'
  BY <1>11 DEF Refuse
<1>12. ASSUME NEW a \in Attempt, Unavailable(a) PROVE ResolverTypes'
  BY <1>12 DEF Unavailable
<1>13. CASE Expire
  BY <1>13 DEF Expire
<1>14. CASE Edit
  BY <1>14 DEF Edit
<1>15. CASE Crash
  BY <1>15 DEF Crash
<1>16. CASE OrchestratorDies
  BY <1>16 DEF OrchestratorDies, Calling
<1>17. CASE UNCHANGED vars
  BY <1>17 DEF vars
<1>18. QED
  BY <1>1, <1>2, <1>3, <1>4, <1>5, <1>6, <1>7, <1>8, <1>9, <1>10, <1>11, <1>12, <1>13, <1>14, <1>15, <1>16, <1>17 DEF Next, Step, Fails

LEMMA HoldersNext == IInv /\ [Next]_vars => Holders'
<1> SUFFICES ASSUME IInv, [Next]_vars PROVE Holders'
  OBVIOUS
<1> USE GatewayAssumption, TypeParts DEF IInv, At, Answer, idempotency, resolver, stores, bounds, keyVars, Holders, ControlTypes, Waiting, Ended
<1>1. ASSUME NEW a \in Attempt, Arrive(a) PROVE Holders'
  BY <1>1 DEF Arrive
<1>2. ASSUME NEW a \in Attempt, Lookup(a) PROVE Holders'
  BY <1>2 DEF Lookup
<1>3. ASSUME NEW a \in Attempt, Mark(a) PROVE Holders'
  BY <1>3 DEF Mark
<1>4. ASSUME NEW a \in Attempt, Store(a) PROVE Holders'
  BY <1>4 DEF Store
<1>5. ASSUME NEW a \in Attempt, InsertProject(a) PROVE Holders'
  BY <1>5 DEF InsertProject
<1>6. ASSUME NEW a \in Attempt, InsertTask(a) PROVE Holders'
  BY <1>6 DEF InsertTask
<1>7. ASSUME NEW a \in Attempt, ReadPref(a) PROVE Holders'
  BY <1>7 DEF ReadPref
<1>8. ASSUME NEW a \in Attempt, ReadKey(a) PROVE Holders'
  BY <1>8 DEF ReadKey
<1>9. ASSUME NEW a \in Attempt, Publish(a) PROVE Holders'
  BY <1>9 DEF Publish
<1>10. ASSUME NEW a \in Attempt, Unguarded(a) PROVE Holders'
  BY <1>10 DEF Unguarded
<1>11. ASSUME NEW a \in Attempt, Refuse(a) PROVE Holders'
  BY <1>11 DEF Refuse
<1>12. ASSUME NEW a \in Attempt, Unavailable(a) PROVE Holders'
  BY <1>12 DEF Unavailable
<1>13. CASE Expire
  BY <1>13 DEF Expire
<1>14. CASE Edit
  BY <1>14 DEF Edit
<1>15. CASE Crash
  BY <1>15 DEF Crash
<1>16. CASE OrchestratorDies
  BY <1>16 DEF OrchestratorDies, Calling
<1>17. CASE UNCHANGED vars
  BY <1>17 DEF vars
<1>18. QED
  BY <1>1, <1>2, <1>3, <1>4, <1>5, <1>6, <1>7, <1>8, <1>9, <1>10, <1>11, <1>12, <1>13, <1>14, <1>15, <1>16, <1>17 DEF Next, Step, Fails

LEMMA PoolNext == IInv /\ [Next]_vars => Pool'
<1> SUFFICES ASSUME IInv, [Next]_vars PROVE Pool'
  OBVIOUS
<1> USE GatewayAssumption, TypeParts DEF IInv, At, Answer, idempotency, resolver, stores, bounds, keyVars, Pool
<1>1. ASSUME NEW a \in Attempt, Arrive(a) PROVE Pool'
  BY <1>1 DEF Arrive
<1>2. ASSUME NEW a \in Attempt, Lookup(a) PROVE Pool'
  BY <1>2 DEF Lookup
<1>3. ASSUME NEW a \in Attempt, Mark(a) PROVE Pool'
  BY <1>3 DEF Mark
<1>4. ASSUME NEW a \in Attempt, Store(a) PROVE Pool'
  BY <1>4 DEF Store
<1>5. ASSUME NEW a \in Attempt, InsertProject(a) PROVE Pool'
  BY <1>5 DEF InsertProject
<1>6. ASSUME NEW a \in Attempt, InsertTask(a) PROVE Pool'
  BY <1>6 DEF InsertTask
<1>7. ASSUME NEW a \in Attempt, ReadPref(a) PROVE Pool'
  <2>1. \/ held' = held
        \/ held' = held \union {a} /\ Cardinality(held) < MaxConns
    BY <1>7 DEF ReadPref, Free
  <2>2. Cardinality(held) \in Nat
    BY FS_CardinalityType
  <2>3. Cardinality(held \union {a}) \in {Cardinality(held), Cardinality(held) + 1}
    BY <2>2, FS_AddElement
  <2>4. QED
    BY <2>1, <2>2, <2>3, FS_AddElement
<1>8. ASSUME NEW a \in Attempt, ReadKey(a) PROVE Pool'
  <2>1. held' = held \ {a}
    BY <1>8 DEF ReadKey
  <2>2. IsFiniteSet(held') /\ Cardinality(held') <= Cardinality(held)
    BY <2>1, FS_Subset
  <2>3. Cardinality(held) \in Nat /\ Cardinality(held') \in Nat
    BY <2>2, FS_CardinalityType
  <2>4. QED
    BY <2>2, <2>3
<1>9. ASSUME NEW a \in Attempt, Publish(a) PROVE Pool'
  BY <1>9 DEF Publish
<1>10. ASSUME NEW a \in Attempt, Unguarded(a) PROVE Pool'
  BY <1>10 DEF Unguarded
<1>11. ASSUME NEW a \in Attempt, Refuse(a) PROVE Pool'
  BY <1>11 DEF Refuse
<1>12. ASSUME NEW a \in Attempt, Unavailable(a) PROVE Pool'
  BY <1>12 DEF Unavailable
<1>13. CASE Expire
  BY <1>13 DEF Expire
<1>14. CASE Edit
  BY <1>14 DEF Edit
<1>15. CASE Crash
  <2>1. held' = {}
    BY <1>15 DEF Crash
  <2>2. QED
    BY <2>1, FS_EmptySet
<1>16. CASE OrchestratorDies
  <2>1. held' = {}
    BY <1>16 DEF OrchestratorDies
  <2>2. QED
    BY <2>1, FS_EmptySet
<1>17. CASE UNCHANGED vars
  BY <1>17 DEF vars
<1>18. QED
  BY <1>1, <1>2, <1>3, <1>4, <1>5, <1>6, <1>7, <1>8, <1>9, <1>10, <1>11, <1>12, <1>13, <1>14, <1>15, <1>16, <1>17 DEF Next, Step, Fails

LEMMA DeletionsNext == IInv /\ [Next]_vars => Deletions'
<1> SUFFICES ASSUME IInv, [Next]_vars PROVE Deletions'
  OBVIOUS
<1> USE GatewayAssumption, TypeParts DEF IInv, At, Answer, idempotency, resolver, stores, bounds, keyVars, Deletions, KeysOK
<1>1. ASSUME NEW a \in Attempt, Arrive(a) PROVE Deletions'
  <2>1. gone \subseteq Key
    BY DEF Range
  <2>2. goneAt' = [goneAt EXCEPT ![a] = gone] /\ UNCHANGED <<added, gone, pref>>
    BY <1>1 DEF Arrive
  <2>3. QED
    BY <2>1, <2>2
<1>2. ASSUME NEW a \in Attempt, Lookup(a) PROVE Deletions'
  BY <1>2 DEF Lookup
<1>3. ASSUME NEW a \in Attempt, Mark(a) PROVE Deletions'
  BY <1>3 DEF Mark
<1>4. ASSUME NEW a \in Attempt, Store(a) PROVE Deletions'
  BY <1>4 DEF Store
<1>5. ASSUME NEW a \in Attempt, InsertProject(a) PROVE Deletions'
  BY <1>5 DEF InsertProject
<1>6. ASSUME NEW a \in Attempt, InsertTask(a) PROVE Deletions'
  BY <1>6 DEF InsertTask
<1>7. ASSUME NEW a \in Attempt, ReadPref(a) PROVE Deletions'
  BY <1>7 DEF ReadPref
<1>8. ASSUME NEW a \in Attempt, ReadKey(a) PROVE Deletions'
  BY <1>8 DEF ReadKey
<1>9. ASSUME NEW a \in Attempt, Publish(a) PROVE Deletions'
  BY <1>9 DEF Publish
<1>10. ASSUME NEW a \in Attempt, Unguarded(a) PROVE Deletions'
  BY <1>10 DEF Unguarded
<1>11. ASSUME NEW a \in Attempt, Refuse(a) PROVE Deletions'
  BY <1>11 DEF Refuse
<1>12. ASSUME NEW a \in Attempt, Unavailable(a) PROVE Deletions'
  BY <1>12 DEF Unavailable
<1>13. CASE Expire
  BY <1>13 DEF Expire
<1>14. CASE Edit
  <2>1. CASE \E k \in Key : AddKey(k)
    <3>1. PICK k \in Key : AddKey(k)
      BY <2>1
    <3>2. added' = Append(added, k)
      BY <3>1 DEF AddKey
    <3>3. added' \in Seq(Key) /\ Range(added) \subseteq Range(added')
      BY <3>2 DEF Range
    <3>4. QED
      BY <1>14, <3>1, <3>3 DEF Edit, AddKey
  <2>2. CASE \E k \in Key : DeleteKey(k)
    <3>1. PICK k \in Key : DeleteKey(k)
      BY <2>2
    <3>2. gone' = gone \union {k} /\ gone' \subseteq Range(added)
      BY <3>1 DEF DeleteKey, Rows
    <3>3. pref' \in Pref \union {NoPref}
      BY <3>1, NoKeyAssumption DEF DeleteKey, Pref, NoPref
    <3>4. QED
      BY <1>14, <3>1, <3>2, <3>3 DEF Edit, DeleteKey
  <2>3. CASE \E q \in Provider, k \in Key \union {AnyKey} : SetAgentPref(q, k)
    BY <1>14, <2>3 DEF Edit, SetAgentPref, Pref
  <2>4. CASE DeleteAgentPref
    BY <1>14, <2>4 DEF Edit, DeleteAgentPref
  <2>5. QED
    BY <1>14, <2>1, <2>2, <2>3, <2>4 DEF Edit, Settings
<1>15. CASE Crash
  BY <1>15 DEF Crash
<1>16. CASE OrchestratorDies
  BY <1>16 DEF OrchestratorDies, Calling
<1>17. CASE UNCHANGED vars
  BY <1>17 DEF vars
<1>18. QED
  BY <1>1, <1>2, <1>3, <1>4, <1>5, <1>6, <1>7, <1>8, <1>9, <1>10, <1>11, <1>12, <1>13, <1>14, <1>15, <1>16, <1>17 DEF Next, Step, Fails

LEMMA ProgressNext == IInv /\ [Next]_vars => Progress'
<1> SUFFICES ASSUME IInv, [Next]_vars PROVE Progress'
  OBVIOUS
<1> USE GatewayAssumption, TypeParts DEF IInv, At, Answer, idempotency, resolver, stores, bounds, keyVars, ControlTypes, ResolverTypes, StoreTypes, Deletions, Progress, Waiting, Ended, Value, KeysOK
<1>1. ASSUME NEW a \in Attempt, Arrive(a) PROVE Progress'
  BY <1>1 DEF Arrive
<1>2. ASSUME NEW a \in Attempt, Lookup(a) PROVE Progress'
  BY <1>2 DEF Lookup
<1>3. ASSUME NEW a \in Attempt, Mark(a) PROVE Progress'
  BY <1>3 DEF Mark
<1>4. ASSUME NEW a \in Attempt, Store(a) PROVE Progress'
  BY <1>4 DEF Store
<1>5. ASSUME NEW a \in Attempt, InsertProject(a) PROVE Progress'
  BY <1>5 DEF InsertProject
<1>6. ASSUME NEW a \in Attempt, InsertTask(a) PROVE Progress'
  BY <1>6 DEF InsertTask
<1>7. ASSUME NEW a \in Attempt, ReadPref(a) PROVE Progress'
  BY <1>7 DEF ReadPref
<1>8. ASSUME NEW a \in Attempt, ReadKey(a) PROVE Progress'
  BY <1>8 DEF ReadKey
<1>9. ASSUME NEW a \in Attempt, Publish(a) PROVE Progress'
  BY <1>9 DEF Publish
<1>10. ASSUME NEW a \in Attempt, Unguarded(a) PROVE Progress'
  BY <1>10 DEF Unguarded
<1>11. ASSUME NEW a \in Attempt, Refuse(a) PROVE Progress'
  BY <1>11 DEF Refuse
<1>12. ASSUME NEW a \in Attempt, Unavailable(a) PROVE Progress'
  BY <1>12 DEF Unavailable
<1>13. CASE Expire
  BY <1>13 DEF Expire
<1>14. CASE Edit
  BY <1>14 DEF Edit
<1>15. CASE Crash
  BY <1>15 DEF Crash
<1>16. CASE OrchestratorDies
  BY <1>16 DEF OrchestratorDies, Calling
<1>17. CASE UNCHANGED vars
  BY <1>17 DEF vars
<1>18. QED
  BY <1>1, <1>2, <1>3, <1>4, <1>5, <1>6, <1>7, <1>8, <1>9, <1>10, <1>11, <1>12, <1>13, <1>14, <1>15, <1>16, <1>17 DEF Next, Step, Fails

LEMMA UnmarkedNext == IInv /\ [Next]_vars => Unmarked'
<1> SUFFICES ASSUME IInv, [Next]_vars PROVE Unmarked'
  OBVIOUS
<1> USE GatewayAssumption, TypeParts DEF IInv, At, Answer, idempotency, resolver, stores, bounds, keyVars, ControlTypes, ResolverTypes, StoreTypes, Deletions, Unmarked, RepeatsExplained
<1>1. ASSUME NEW a \in Attempt, Arrive(a) PROVE Unmarked'
  BY <1>1 DEF Arrive
<1>2. ASSUME NEW a \in Attempt, Lookup(a) PROVE Unmarked'
  BY <1>2 DEF Lookup
<1>3. ASSUME NEW a \in Attempt, Mark(a) PROVE Unmarked'
  BY <1>3 DEF Mark
<1>4. ASSUME NEW a \in Attempt, Store(a) PROVE Unmarked'
  BY <1>4 DEF Store
<1>5. ASSUME NEW a \in Attempt, InsertProject(a) PROVE Unmarked'
  BY <1>5 DEF InsertProject
<1>6. ASSUME NEW a \in Attempt, InsertTask(a) PROVE Unmarked'
  BY <1>6 DEF InsertTask
<1>7. ASSUME NEW a \in Attempt, ReadPref(a) PROVE Unmarked'
  BY <1>7 DEF ReadPref
<1>8. ASSUME NEW a \in Attempt, ReadKey(a) PROVE Unmarked'
  BY <1>8 DEF ReadKey
<1>9. ASSUME NEW a \in Attempt, Publish(a) PROVE Unmarked'
  BY <1>9 DEF Publish
<1>10. ASSUME NEW a \in Attempt, Unguarded(a) PROVE Unmarked'
  BY <1>10 DEF Unguarded
<1>11. ASSUME NEW a \in Attempt, Refuse(a) PROVE Unmarked'
  BY <1>11 DEF Refuse
<1>12. ASSUME NEW a \in Attempt, Unavailable(a) PROVE Unmarked'
  BY <1>12 DEF Unavailable
<1>13. CASE Expire
  BY <1>13 DEF Expire
<1>14. CASE Edit
  BY <1>14 DEF Edit
<1>15. CASE Crash
  BY <1>15 DEF Crash
<1>16. CASE OrchestratorDies
  BY <1>16 DEF OrchestratorDies, Calling
<1>17. CASE UNCHANGED vars
  BY <1>17 DEF vars
<1>18. QED
  BY <1>1, <1>2, <1>3, <1>4, <1>5, <1>6, <1>7, <1>8, <1>9, <1>10, <1>11, <1>12, <1>13, <1>14, <1>15, <1>16, <1>17 DEF Next, Step, Fails

LEMMA ResolvedNext == IInv /\ [Next]_vars => Resolved'
<1> SUFFICES ASSUME IInv, [Next]_vars PROVE Resolved'
  OBVIOUS
<1> USE GatewayAssumption, TypeParts DEF IInv, At, Answer, idempotency, resolver, stores, bounds, keyVars, ControlTypes, ResolverTypes, StoreTypes, Deletions, Progress, Resolved, Fits, Waiting, Ended
<1>1. ASSUME NEW a \in Attempt, Arrive(a) PROVE Resolved'
  BY <1>1 DEF Arrive
<1>2. ASSUME NEW a \in Attempt, Lookup(a) PROVE Resolved'
  BY <1>2 DEF Lookup
<1>3. ASSUME NEW a \in Attempt, Mark(a) PROVE Resolved'
  BY <1>3 DEF Mark
<1>4. ASSUME NEW a \in Attempt, Store(a) PROVE Resolved'
  BY <1>4 DEF Store
<1>5. ASSUME NEW a \in Attempt, InsertProject(a) PROVE Resolved'
  BY <1>5 DEF InsertProject
<1>6. ASSUME NEW a \in Attempt, InsertTask(a) PROVE Resolved'
  BY <1>6 DEF InsertTask
<1>7. ASSUME NEW a \in Attempt, ReadPref(a) PROVE Resolved'
  <2>1. ~ (a \in sent)
    BY <1>7 DEF ReadPref
  <2>2. config'[a] = DefaultConfig \/ pc'[a] = "key"
    BY <1>7 DEF ReadPref
  <2>3. DefaultConfig.key = ServerKey
    BY DEF DefaultConfig
  <2>4. \A b \in Attempt \ {a} : pc'[b] = pc[b] /\ seen'[b] = seen[b] /\ config'[b] = config[b]
    BY <1>7 DEF ReadPref
  <2>5. UNCHANGED <<sent, goneAt>>
    BY <1>7 DEF ReadPref
  <2>6. QED
    BY <2>1, <2>2, <2>3, <2>4, <2>5
<1>8. ASSUME NEW a \in Attempt, ReadKey(a) PROVE Resolved'
  <2>1. PICK k \in {ResolveKey(seen[a]), ServerKey} :
          config' = [config EXCEPT ![a] = [provider |-> seen[a].provider, key |-> k]]
    BY <1>8 DEF ReadKey
  <2>2. config'[a].key = k /\ config'[a].provider = seen[a].provider
    BY <2>1
  <2>3. seen[a] \in Pref
    BY <1>8 DEF ReadKey
  <2>4. k # ServerKey => k \notin gone /\ (ProviderOf[k] = seen[a].provider \/ k = seen[a].key)
    BY <2>1, <2>3, ResolveKeyFinds DEF Rows
  <2>5. goneAt[a] \subseteq gone
    OBVIOUS
  <2>6. \A b \in Attempt \ {a} : pc'[b] = pc[b] /\ config'[b] = config[b]
    BY <1>8 DEF ReadKey
  <2>7. UNCHANGED <<sent, goneAt, seen>>
    BY <1>8 DEF ReadKey
  <2>8. Fits(a)'
    BY <2>2, <2>4, <2>5, <2>7
  <2>9. QED
    BY <2>6, <2>7, <2>8
<1>9. ASSUME NEW a \in Attempt, Publish(a) PROVE Resolved'
  BY <1>9 DEF Publish
<1>10. ASSUME NEW a \in Attempt, Unguarded(a) PROVE Resolved'
  BY <1>10 DEF Unguarded
<1>11. ASSUME NEW a \in Attempt, Refuse(a) PROVE Resolved'
  BY <1>11 DEF Refuse
<1>12. ASSUME NEW a \in Attempt, Unavailable(a) PROVE Resolved'
  BY <1>12 DEF Unavailable
<1>13. CASE Expire
  BY <1>13 DEF Expire
<1>14. CASE Edit
  BY <1>14 DEF Edit
<1>15. CASE Crash
  BY <1>15 DEF Crash
<1>16. CASE OrchestratorDies
  BY <1>16 DEF OrchestratorDies, Calling
<1>17. CASE UNCHANGED vars
  BY <1>17 DEF vars
<1>18. QED
  BY <1>1, <1>2, <1>3, <1>4, <1>5, <1>6, <1>7, <1>8, <1>9, <1>10, <1>11, <1>12, <1>13, <1>14, <1>15, <1>16, <1>17 DEF Next, Step, Fails

LEMMA InitIInv == Init => IInv
<1> SUFFICES ASSUME Init PROVE IInv
  OBVIOUS
<1> USE GatewayAssumption DEF Init, KeysInit
<1>1. ControlTypes /\ Holders
  BY DEF ControlTypes, Holders
<1>2. StoreTypes
  BY DEF StoreTypes
<1>3. ResolverTypes
  <2>1. DefaultConfig \in Config
    BY DEF DefaultConfig, Config
  <2>2. QED
    BY <2>1 DEF ResolverTypes
<1>4. Pool
  BY FS_EmptySet DEF Pool
<1>5. Deletions
  BY DEF Deletions, KeysOK
<1>6. Progress /\ Unmarked /\ Resolved
  BY DEF Progress, Unmarked, RepeatsExplained, Resolved
<1>7. QED
  BY <1>1, <1>2, <1>3, <1>4, <1>5, <1>6, TypeParts DEF IInv

LEMMA NextIInv == IInv /\ [Next]_vars => IInv'
<1> SUFFICES ASSUME IInv, [Next]_vars PROVE IInv'
  OBVIOUS
<1>1. ControlTypes' /\ StoreTypes' /\ ResolverTypes' /\ Holders' /\ Pool' /\ Deletions'
  BY ControlNext, StoresNext, ResolverNext, HoldersNext, PoolNext, DeletionsNext
<1>2. TypeOK' /\ IsFiniteSet(held')
  BY <1>1 DEF TypeOK, ControlTypes, StoreTypes, ResolverTypes, Holders, Pool, Deletions
<1>3. QED
  BY <1>2, ProgressNext, UnmarkedNext, ResolvedNext DEF IInv

LEMMA Invariant == Spec => []IInv
  BY InitIInv, NextIInv, PTL DEF Spec

-------------------------------------------------------------------------------

\* The attempts, the settings and the stores keep their types; exactly the resolvers
\* between their queries hold a connection, and never more than the pool has.
THEOREM TypeCorrect == Spec => []TypeOK
<1>1. IInv => TypeOK
  BY DEF IInv
<1>2. QED
  BY Invariant, <1>1, PTL

\* For any number of tries, crashes and expiries: who gets past the idempotency
\* check although another had marked the key was not checked.
THEOREM RepeatsExplainedHolds == Spec => []RepeatsExplained
<1>1. IInv => RepeatsExplained
  BY DEF IInv, Unmarked
<1>2. QED
  BY Invariant, <1>1, PTL

\* However the settings are edited between the two queries of the resolver, a task
\* is sent with a key that was not deleted before, of the provider it is sent with
\* or named by the preference.
THEOREM DispatchedKeyHolds == Spec => []DispatchedKey
<1>1. IInv => DispatchedKey
  BY DEF IInv, TypeOK, Resolved, Fits, DispatchedKey
<1>2. QED
  BY Invariant, <1>1, PTL

==============================================================================
