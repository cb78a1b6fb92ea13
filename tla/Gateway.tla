-------------------------------- MODULE Gateway --------------------------------
(***************************************************************************)
(* POST /v1/projects, from the gateway's middlewares (rate limit,          *)
(* idempotency, CSRF, JWT) to the orchestrator's CreateProject and back.   *)
(* The attempts are one client's tries at one project: they come from one  *)
(* address, and carry one X-Idempotency-Key or none.  Each command to      *)
(* Redis, to the database or to Kafka is a step, and may fail.             *)
(*                                                                         *)
(* JWTAuth runs after the rate limiter and the idempotency check, so both  *)
(* find no user_id: the first counts by address, the second keys by the    *)
(* header alone.                                                           *)
(***************************************************************************)
EXTENDS KeyStore, FiniteSets

CONSTANTS
  Attempt,    \* the client's tries
  MaxConns,   \* connections in the orchestrator's pool
  MaxEdits,   \* bound on changes to the user's settings
  MaxCrashes  \* bound on crashes, of the gateway and of the orchestrator

ASSUME GatewayAssumption ==
  /\ MaxConns \in Nat \ {0} /\ MaxEdits \in Nat /\ MaxCrashes \in Nat

VARIABLES
  pc,       \* pc[a]: the next step of attempt a
  answer,   \* answer[a]: what its client was, or is about to be, told
  idem,     \* the idempotency key's value, or "absent"
  guarded,  \* attempts that marked the key
  before,   \* before[a]: those that had marked it when a got past the look-up (history)
  unchecked, \* attempts let through without a look-up or a mark (history)
  held,     \* attempts holding a connection while they ask for another
  seen,     \* seen[a]: the preference a read
  config,   \* config[a]: the configuration a resolved
  goneAt,   \* goneAt[a]: the keys deleted before a was sent (history)
  projects, \* attempts whose row of projects was inserted
  tasks,    \* attempts whose planning task was inserted
  sent,     \* attempts whose task was published
  edits,    \* changes of settings so far
  crashes   \* crashes so far

idempotency == <<idem, guarded, before, unchecked>>
resolver == <<held, seen, config>>
stores == <<projects, tasks, sent>>
bounds == <<edits, crashes>>
vars == <<keyVars, pc, answer, idempotency, resolver, goneAt, stores, bounds>>

Unanswered == "none"
Ended == {"done", "lost"}
Waiting == {"lookup", "mark", "enter", "project", "task", "pref", "key", "publish", "store"}
Value == {"PENDING", "COMPLETED", "FAILED"}

TypeOK ==
  /\ KeysOK
  /\ pc \in [Attempt -> {"idle"} \union Waiting \union Ended]
  /\ answer \in [Attempt -> {Unanswered, "limited", "conflict", "hit", "forbidden",
                             "refused", "unavailable", "accepted"}]
  /\ idem \in Value \union {"absent"}
  /\ guarded \subseteq Attempt /\ before \in [Attempt -> SUBSET Attempt]
  /\ unchecked \subseteq Attempt
  /\ held = {a \in Attempt : pc[a] = "key"} /\ Cardinality(held) <= MaxConns
  /\ seen \in [Attempt -> Pref \union {NoPref}]
  /\ config \in [Attempt -> Config]
  /\ goneAt \in [Attempt -> SUBSET Key] /\ \A a \in Attempt : goneAt[a] \subseteq gone
  /\ sent \subseteq tasks /\ tasks \subseteq projects /\ projects \subseteq Attempt
  /\ \A a \in Attempt : pc[a] = "idle" => answer[a] = Unanswered
  /\ edits \in 0..MaxEdits /\ crashes \in 0..MaxCrashes

Init ==
  /\ KeysInit
  /\ pc = [a \in Attempt |-> "idle"]
  /\ answer = [a \in Attempt |-> Unanswered]
  /\ idem = "absent" /\ guarded = {} /\ before = [a \in Attempt |-> {}] /\ unchecked = {}
  /\ held = {}
  /\ seen = [a \in Attempt |-> NoPref]
  /\ config = [a \in Attempt |-> DefaultConfig]
  /\ goneAt = [a \in Attempt |-> {}]
  /\ projects = {} /\ tasks = {} /\ sent = {}
  /\ edits = 0 /\ crashes = 0

At(a, from, to) == pc[a] = from /\ pc' = [pc EXCEPT ![a] = to]

(***************************************************************************)
(* The answer is set; it reaches the client once the middlewares that      *)
(* still run after the handler have run: Idempotency's, if a marked.       *)
(***************************************************************************)
Answer(a, from, what) ==
  /\ At(a, from, IF a \in guarded THEN "store" ELSE "done")
  /\ answer' = [answer EXCEPT ![a] = what]
  /\ UNCHANGED <<keyVars, idempotency, goneAt, bounds>>

--------------------------------------------------------------------------------
(***************************************************************************)
(* The rate limiter, whose counters no property is about: it refuses, or   *)
(* lets the attempt pass, as it does when Redis fails.                     *)
(***************************************************************************)
Arrive(a) ==
  /\ \/ At(a, "idle", "lookup") /\ UNCHANGED answer
     \/ At(a, "idle", "done") /\ answer' = [answer EXCEPT ![a] = "limited"]
  /\ goneAt' = [goneAt EXCEPT ![a] = gone]
  /\ UNCHANGED <<keyVars, idempotency, resolver, stores, bounds>>

\* Mutant of Lookup: it waits while the key is pending.
LookupUntilDone(a) ==
  /\ idem # "PENDING"
  /\ At(a, "lookup", IF idem = "absent" THEN "mark" ELSE "done")
  /\ before' = IF idem = "absent" THEN [before EXCEPT ![a] = guarded] ELSE before
  /\ answer' = IF idem = "absent" THEN answer ELSE [answer EXCEPT ![a] = "hit"]
  /\ UNCHANGED <<keyVars, idem, guarded, unchecked, resolver, goneAt, stores, bounds>>

(***************************************************************************)
(* Idempotency, before the handler.                                        *)
(***************************************************************************)
Lookup(a) ==
  /\ \/ /\ idem = "absent"
        /\ At(a, "lookup", "mark")
        /\ before' = [before EXCEPT ![a] = guarded]
        /\ UNCHANGED answer
     \/ /\ idem # "absent"
        /\ At(a, "lookup", "done")
        /\ answer' = [answer EXCEPT ![a] = IF idem = "PENDING" THEN "conflict" ELSE "hit"]
        /\ UNCHANGED before
  /\ UNCHANGED <<keyVars, idem, guarded, unchecked, resolver, goneAt, stores, bounds>>

Mark(a) ==
  /\ At(a, "mark", "enter")
  /\ idem' = "PENDING"
  /\ guarded' = guarded \union {a}
  /\ UNCHANGED <<keyVars, answer, before, unchecked, resolver, goneAt, stores, bounds>>

(***************************************************************************)
(* A request without a key, and one whose look-up fails, goes on whatever  *)
(* the key's value; one whose mark fails has found it absent.              *)
(***************************************************************************)
Unguarded(a) ==
  /\ \/ At(a, "lookup", "enter") /\ before' = [before EXCEPT ![a] = guarded]
     \/ At(a, "mark", "enter") /\ UNCHANGED before
  /\ unchecked' = unchecked \union {a}
  /\ UNCHANGED <<keyVars, answer, idem, guarded, resolver, goneAt, stores, bounds>>

\* Mutant of Store: only a success is remembered.
StoreUnlessFailed(a) ==
  /\ At(a, "store", "done")
  /\ idem' = IF answer[a] = "accepted" THEN "COMPLETED" ELSE "absent"
  /\ UNCHANGED <<keyVars, answer, guarded, before, unchecked, resolver, goneAt, stores, bounds>>

(***************************************************************************)
(* And after it.  Only the CSRF check returns an error; a handler writes   *)
(* its status, 503 included, and returns nil.  A failed Set is ignored.    *)
(***************************************************************************)
Store(a) ==
  /\ At(a, "store", "done")
  /\ idem' \in {IF answer[a] = "forbidden" THEN "FAILED" ELSE "COMPLETED", idem}
  /\ UNCHANGED <<keyVars, answer, guarded, before, unchecked, resolver, goneAt, stores, bounds>>

(***************************************************************************)
(* 403 of the CSRF check, or 401 of JWTAuth and 400 of the handler.        *)
(***************************************************************************)
Refuse(a) ==
  /\ \E what \in {"forbidden", "refused"} : Answer(a, "enter", what)
  /\ UNCHANGED <<resolver, stores>>

--------------------------------------------------------------------------------
(***************************************************************************)
(* The orchestrator's CreateProject.  The gateway calls it with no         *)
(* deadline, so it waits for a connection as long as it takes.             *)
(***************************************************************************)
Free == Cardinality(held) < MaxConns

InsertProject(a) ==
  /\ Free
  /\ At(a, "enter", "task")
  /\ projects' = projects \union {a}
  /\ UNCHANGED <<keyVars, answer, idempotency, resolver, goneAt, tasks, sent, bounds>>

InsertTask(a) ==
  /\ Free
  /\ At(a, "task", "pref")
  /\ tasks' = tasks \union {a}
  /\ UNCHANGED <<keyVars, answer, idempotency, resolver, goneAt, projects, sent, bounds>>

(***************************************************************************)
(* ResolveForAgent.  Its rows stay open, hence their connection taken,     *)
(* until it returns, past the second query.                                *)
(***************************************************************************)
ReadPref(a) ==
  /\ Free
  /\ \/ /\ pref # NoPref
        /\ At(a, "pref", "key")
        /\ seen' = [seen EXCEPT ![a] = pref]
        /\ held' = held \union {a}
        /\ UNCHANGED config
     \/ /\ At(a, "pref", "publish")   \* no row, or the query failed
        /\ config' = [config EXCEPT ![a] = DefaultConfig]
        /\ UNCHANGED <<seen, held>>
  /\ UNCHANGED <<keyVars, answer, idempotency, goneAt, stores, bounds>>

\* Mutant of ReadKey: the rows are never closed.
ReadKeyLeaks(a) ==
  /\ Free
  /\ At(a, "key", "publish")
  /\ config' = [config EXCEPT ![a] = [provider |-> seen[a].provider, key |-> ResolveKey(seen[a])]]
  /\ UNCHANGED <<keyVars, answer, idempotency, held, seen, goneAt, stores, bounds>>

ReadKey(a) ==
  /\ Free
  /\ At(a, "key", "publish")
  /\ \E k \in {ResolveKey(seen[a]), ServerKey} :   \* ServerKey also if the query failed
       config' = [config EXCEPT ![a] = [provider |-> seen[a].provider, key |-> k]]
  /\ held' = held \ {a}
  /\ UNCHANGED <<keyVars, answer, idempotency, seen, goneAt, stores, bounds>>

(***************************************************************************)
(* The task's id is new, so it is never leased yet: the lease is set, its  *)
(* error ignored, and the task published.                                  *)
(***************************************************************************)
Publish(a) ==
  /\ Answer(a, "publish", "accepted")
  /\ sent' = sent \union {a}
  /\ UNCHANGED <<resolver, projects, tasks>>

(***************************************************************************)
(* An insert or the publication fails: what was stored stays, and the      *)
(* gateway answers 503.                                                    *)
(***************************************************************************)
Unavailable(a) ==
  /\ \E from \in {"enter", "task", "publish"} : Answer(a, from, "unavailable")
  /\ UNCHANGED <<resolver, stores>>

--------------------------------------------------------------------------------
Step(a) ==
  \/ Lookup(a) \/ Mark(a) \/ Store(a) \/ InsertProject(a) \/ InsertTask(a)
  \/ ReadPref(a) \/ ReadKey(a) \/ Publish(a)

Fails(a) == Unguarded(a) \/ Refuse(a) \/ Unavailable(a)

(***************************************************************************)
(* The key's TTL has passed since it was last set.                         *)
(***************************************************************************)
Expire ==
  /\ idem # "absent"
  /\ \A a \in Attempt : pc[a] \notin Waiting
  /\ idem' = "absent"
  /\ guarded' = {}
  /\ UNCHANGED <<keyVars, pc, answer, before, unchecked, resolver, goneAt, stores, bounds>>

Edit ==
  /\ edits < MaxEdits
  /\ Settings
  /\ edits' = edits + 1
  /\ UNCHANGED <<pc, answer, idempotency, resolver, goneAt, stores, crashes>>

(***************************************************************************)
(* The gateway dies: its requests end unanswered, and their calls to the   *)
(* orchestrator are cancelled where they are.                              *)
(***************************************************************************)
Crash ==
  /\ crashes < MaxCrashes
  /\ crashes' = crashes + 1
  /\ pc' = [a \in Attempt |-> IF pc[a] \in Waiting THEN "lost" ELSE pc[a]]
  /\ held' = {}
  /\ UNCHANGED <<keyVars, answer, idempotency, seen, config, goneAt, stores, edits>>

(***************************************************************************)
(* The orchestrator dies: its connections are gone, and the calls it was   *)
(* serving, whichever statement they were at, come back as errors.         *)
(***************************************************************************)
Calling == {"task", "pref", "key", "publish"}

OrchestratorDies ==
  /\ crashes < MaxCrashes
  /\ crashes' = crashes + 1
  /\ pc' = [a \in Attempt |-> IF pc[a] \notin Calling THEN pc[a]
                              ELSE IF a \in guarded THEN "store" ELSE "done"]
  /\ answer' = [a \in Attempt |-> IF pc[a] \in Calling THEN "unavailable" ELSE answer[a]]
  /\ held' = {}
  /\ UNCHANGED <<keyVars, idempotency, seen, config, goneAt, stores, edits>>

Next ==
  \/ \E a \in Attempt : Arrive(a) \/ Step(a) \/ Fails(a)
  \/ Expire \/ Edit \/ Crash \/ OrchestratorDies

Spec == Init /\ [][Next]_vars

(***************************************************************************)
(* A goroutine goes on with the request it serves, whether or not one of   *)
(* its calls fails.                                                        *)
(***************************************************************************)
FairSpec == Spec /\ \A a \in Attempt : WF_vars(Step(a))
--------------------------------------------------------------------------------
(***************************************************************************)
(* An attempt gets past the idempotency check though another had marked    *)
(* the key only if it was not checked (no key, or Redis failed).  So of    *)
(* two tries that both made a project, one was let through unchecked, or   *)
(* the key expired between them, or neither had marked it when the other   *)
(* looked; that the first was refused, failed or died is no reason.        *)
(***************************************************************************)
RepeatsExplained == \A a \in Attempt : before[a] # {} => a \in unchecked

(***************************************************************************)
(* A task is dispatched with a key the user had not deleted when the       *)
(* request came, and of the provider it is sent with unless the preference *)
(* named it, though both may be edited between the two queries.            *)
(***************************************************************************)
DispatchedKey ==
  \A a \in sent : config[a].key # ServerKey =>
    /\ config[a].key \notin goneAt[a]
    /\ ProviderOf[config[a].key] = config[a].provider \/ seen[a].key = config[a].key

(***************************************************************************)
(* A request is answered, or lost in a crash, unless every connection of   *)
(* the orchestrator's pool is held by a resolver waiting for one more.     *)
(***************************************************************************)
AnsweredUnlessStarved ==
  \A a \in Attempt : pc[a] \in Waiting ~> (pc[a] \in Ended \/ ~Free)
================================================================================
