------------------------------- MODULE ModelCalls -------------------------------
(***************************************************************************)
(* The model calls of the planning phases: the CEO and the CTO agents of   *)
(* the engine's process ask a model for a plan and for a design and for a  *)
(* critique of each (call_llm, self_critique), through a cache of answers  *)
(* to similar prompts (SemanticCache).                                     *)
(*                                                                         *)
(* Providers and embeddings are called in the threads of the event loop's  *)
(* default pool.  A provider's answer is awaited for a minute, after which *)
(* its thread goes on alone; an embedding is awaited without a limit.  The *)
(* Gemini clients are built without a timeout, so that a thread may wait   *)
(* for an answer for ever.                                                 *)
(*                                                                         *)
(* Projects are planned side by side.  Prompts of two projects at the same *)
(* stage may be similar enough for the cache.  The budget gate is that of  *)
(* AgentRuntime: here it lets a call through or raises.                    *)
(***************************************************************************)
EXTENDS Naturals, Sequences, FiniteSets, SequencesExt

CONSTANTS
  Project,
  Workers,     \* threads of the default pool
  MaxAttempts  \* attempts of one model call

ASSUME CallsAssumption == Workers \in Nat \ {0} /\ MaxAttempts \in Nat \ {0}

VARIABLES
  stage,    \* stage[p]: what p is asking for, or "planned"
  pc,       \* pc[p]: where its call is
  attempt,  \* attempt[p]: attempts begun
  answer,   \* answer[p]: the answer in hand and the stage it was given for
  draft,    \* draft[p]: what the agent's critique is about
  plan,     \* plan[p]: memory.business_plan
  design,   \* design[p]: memory.architecture
  cache,    \* cache[s]: the answers stored for prompts of stage s
  queue,    \* jobs no thread has taken yet
  running,  \* jobs in a thread
  hung      \* those of them that will never be answered

call == <<pc, attempt, answer>>
memory == <<draft, plan, design>>
pool == <<queue, running, hung>>
callsVars == <<stage, call, memory, cache, pool>>

Stage == {"plan", "plan critique", "design", "design critique"}
Critique == {"plan critique", "design critique"}

\* An answer has no text; is not JSON; is JSON, but no object or one with a field the
\* agent cannot work with; or is as asked for.  A critique may be anything.
Kind == {"empty", "text", "unusable", "object"}
KindsOf(s) == IF s \in Critique THEN {"object"} ELSE Kind

Nothing == "nothing"
NoAnswer == [of |-> "planned", kind |-> Nothing]

Job == [by : Project, for : Stage, what : {"lookup", "ask", "store"}, n : 0..MaxAttempts]
Doing(p) == CASE pc[p] = "looking" -> "lookup" [] pc[p] = "asking" -> "ask" [] OTHER -> "store"

\* The job p waits for, if it waits for one.
Awaited(p) == [by |-> p, for |-> stage[p], what |-> Doing(p), n |-> attempt[p]]
Waiting == {"looking", "asking", "storing"}

CallsTypeOK ==
  /\ stage \in [Project -> Stage \union {"planned"}]
  /\ pc \in [Project -> {"idle", "gate", "backoff", "answered", "raised"} \union Waiting]
  /\ attempt \in [Project -> 0..MaxAttempts]
  /\ answer \in [Project -> [of : Stage, kind : Kind] \union {NoAnswer}]
  /\ draft \in [Project -> {"unusable", "object", Nothing}]
  /\ plan \in [Project -> {"unusable", "object", Nothing}]
  /\ design \in [Project -> {"unusable", "object", Nothing}]
  /\ cache \in [Stage -> SUBSET Kind]
  /\ queue \in Seq(Job)
  /\ running \subseteq Job /\ Cardinality(running) <= Workers /\ hung \subseteq running
  /\ \A p \in Project : pc[p] \in Waiting => Awaited(p) \in ToSet(queue) \union running

CallsInit ==
  /\ stage = [p \in Project |-> "plan"]
  /\ pc = [p \in Project |-> "idle"]
  /\ attempt = [p \in Project |-> 0]
  /\ answer = [p \in Project |-> NoAnswer]
  /\ draft = [p \in Project |-> Nothing]
  /\ plan = [p \in Project |-> Nothing]
  /\ design = [p \in Project |-> Nothing]
  /\ cache = [s \in Stage |-> {}]
  /\ queue = <<>>
  /\ running = {}
  /\ hung = {}

Goto(p, to) == pc' = [pc EXCEPT ![p] = to]

Submit(p, what, n) ==
  queue' = Append(queue, [by |-> p, for |-> stage[p], what |-> what, n |-> n])

--------------------------------------------------------------------------------
(* call_llm *)

\* The cache embeds the prompt first; without its store or its embedding there is
\* no lookup.
BeginCall(p) ==
  /\ pc[p] = "idle" /\ stage[p] # "planned"
  /\ \/ Submit(p, "lookup", 0) /\ Goto(p, "looking")
     \/ Goto(p, "gate") /\ UNCHANGED queue
  /\ UNCHANGED <<stage, attempt, answer, memory, cache, running, hung>>

\* The budget gate.
Gate(p) ==
  /\ pc[p] = "gate"
  /\ \/ Submit(p, "ask", 1) /\ attempt' = [attempt EXCEPT ![p] = 1] /\ Goto(p, "asking")
     \/ Goto(p, "raised") /\ UNCHANGED <<attempt, queue>>
  /\ UNCHANGED <<stage, answer, memory, cache, running, hung>>

\* Mutant of AttemptFails: the attempts have no end.
AttemptFailsOnAndOn(p) == Goto(p, "backoff") /\ attempt' = [attempt EXCEPT ![p] = 0]

\* _execute_provider is tried again after a while, or gives up.
AttemptFails(p) ==
  IF attempt[p] < MaxAttempts THEN Goto(p, "backoff") /\ UNCHANGED attempt
  ELSE Goto(p, "raised") /\ attempt' = [attempt EXCEPT ![p] = 0]

\* wait_for gives up: a job still in the queue is cancelled, a thread is not.
TimesOut(p) ==
  /\ pc[p] = "asking"
  /\ AttemptFails(p)
  /\ queue' = RemoveFirst(queue, Awaited(p))
  /\ UNCHANGED <<stage, answer, memory, cache, running, hung>>

Retry(p) ==
  /\ pc[p] = "backoff"
  /\ attempt' = [attempt EXCEPT ![p] = @ + 1]
  /\ Submit(p, "ask", attempt[p] + 1)
  /\ Goto(p, "asking")
  /\ UNCHANGED <<stage, answer, memory, cache, running, hung>>

--------------------------------------------------------------------------------
(* The threads. *)

ThreadTakes ==
  /\ queue # <<>> /\ Cardinality(running) < Workers
  /\ running' = running \union {Head(queue)}
  /\ queue' = Tail(queue)
  /\ UNCHANGED <<stage, call, memory, cache, hung>>

ThreadHangs(j) ==
  /\ j \in running \ hung
  /\ hung' = hung \union {j}
  /\ UNCHANGED <<stage, call, memory, cache, queue, running>>

Answers(p, s, k) == answer' = [answer EXCEPT ![p] = [of |-> s, kind |-> k]]

\* The nearest stored answer, unless none is near enough or the search fails.
Searched(p) ==
  /\ UNCHANGED <<attempt, queue, cache>>
  /\ \/ \E k \in cache[stage[p]] : Answers(p, stage[p], k) /\ Goto(p, "answered")
     \/ Goto(p, "gate") /\ UNCHANGED answer

\* The provider has answered: the call is counted and the cache embeds the prompt to
\* store the answer; or the provider has failed.
Asked(p, s) ==
  /\ UNCHANGED cache
  /\ \/ /\ \E k \in KindsOf(s) : Answers(p, s, k)
        /\ attempt' = [attempt EXCEPT ![p] = 0]
        /\ \/ Submit(p, "store", 0) /\ Goto(p, "storing")
           \/ Goto(p, "answered") /\ UNCHANGED queue
     \/ AttemptFails(p) /\ UNCHANGED <<answer, queue>>

\* The answer is stored, or could not be, which is only logged.  An empty one may be
\* stored, but is never a hit.
Stored(p) ==
  /\ Goto(p, "answered")
  /\ \/ /\ answer[p].kind # "empty"
        /\ cache' = [cache EXCEPT ![answer[p].of] = @ \union {answer[p].kind}]
     \/ UNCHANGED cache
  /\ UNCHANGED <<attempt, answer, queue>>

\* A job ends.  What nobody waits for any more is dropped.
ThreadEnds(j) ==
  LET p == j.by IN
  /\ j \in running \ hung
  /\ running' = running \ {j}
  /\ IF pc[p] \in Waiting /\ j = Awaited(p)
     THEN CASE j.what = "lookup" -> Searched(p)
            [] j.what = "ask" -> Asked(p, j.for)
            [] j.what = "store" -> Stored(p)
     ELSE UNCHANGED <<call, cache, queue>>
  /\ UNCHANGED <<stage, memory, hung>>

--------------------------------------------------------------------------------
(* The agents and the engine. *)

\* p's call is over, and p goes on at stage s.
Proceed(p, s) ==
  /\ stage' = [stage EXCEPT ![p] = s]
  /\ pc' = [pc EXCEPT ![p] = "idle"]
  /\ attempt' = [attempt EXCEPT ![p] = 0]
  /\ answer' = [answer EXCEPT ![p] = NoAnswer]
  /\ UNCHANGED <<cache, pool>>

\* What is not JSON is replaced by the agent's template.
PlanTemplate == "object"
ParsedPlan(k) == IF k = "text" THEN PlanTemplate ELSE k

ArchitectureTemplate == "object"
ParsedDesign(k) == IF k = "text" THEN ArchitectureTemplate ELSE k

\* self_critique writes the critique into what it is about, which has to be an object.
\* An answer that is no critique, or none, is one that approves.
Annotates(d) == d = "object"

\* _validate_cost reads the cost and the services of the design.
Costed(d) == d = "object"

\* What the engine takes when an agent raised.
EnginePlan == "object"
EngineArchitecture == "object"

\* The call raised, or parsing its answer does.
Raises(p) == pc[p] = "raised" \/ (pc[p] = "answered" /\ answer[p].kind = "empty")
Drafts(p) == pc[p] = "answered" /\ answer[p].kind # "empty"

\* CEOAgent.run: the draft is criticised whatever it is.
PlanDrafted(p) ==
  /\ stage[p] = "plan" /\ Drafts(p)
  /\ draft' = [draft EXCEPT ![p] = ParsedPlan(answer[p].kind)]
  /\ Proceed(p, "plan critique")
  /\ UNCHANGED <<plan, design>>

\* The engine takes its own plan when the agent raised.
PlanRaised(p) ==
  /\ stage[p] = "plan" /\ Raises(p)
  /\ plan' = [plan EXCEPT ![p] = EnginePlan]
  /\ Proceed(p, "design")
  /\ UNCHANGED <<draft, design>>

\* Mutant of PlanCriticised: nothing looks into the plan before run returns it.
PlanCriticisedUnread(p) ==
  /\ stage[p] = "plan critique" /\ pc[p] \in {"answered", "raised"}
  /\ plan' = [plan EXCEPT ![p] = draft[p]]
  /\ draft' = [draft EXCEPT ![p] = Nothing]
  /\ Proceed(p, "design")
  /\ UNCHANGED design

\* With or without a critique, self_critique raises on what it cannot annotate, and run
\* when it logs how many features there are: the engine then takes its own plan.
PlanCriticised(p) ==
  /\ stage[p] = "plan critique" /\ pc[p] \in {"answered", "raised"}
  /\ plan' = [plan EXCEPT ![p] = IF Annotates(draft[p]) THEN draft[p] ELSE EnginePlan]
  /\ draft' = [draft EXCEPT ![p] = Nothing]
  /\ Proceed(p, "design")
  /\ UNCHANGED design

\* CTOAgent.run: _validate_cost raises on what is no object and on odd fields.
DesignDrafted(p) ==
  /\ stage[p] = "design" /\ Drafts(p)
  /\ LET d == ParsedDesign(answer[p].kind) IN
     IF Costed(d)
     THEN /\ draft' = [draft EXCEPT ![p] = d]
          /\ Proceed(p, "design critique")
          /\ UNCHANGED design
     ELSE /\ design' = [design EXCEPT ![p] = EngineArchitecture]
          /\ Proceed(p, "planned")
          /\ UNCHANGED draft
  /\ UNCHANGED plan

DesignRaised(p) ==
  /\ stage[p] = "design" /\ Raises(p)
  /\ design' = [design EXCEPT ![p] = EngineArchitecture]
  /\ Proceed(p, "planned")
  /\ UNCHANGED <<draft, plan>>

DesignCriticised(p) ==
  /\ stage[p] = "design critique" /\ pc[p] \in {"answered", "raised"}
  /\ design' = [design EXCEPT ![p] = draft[p]]
  /\ draft' = [draft EXCEPT ![p] = Nothing]
  /\ Proceed(p, "planned")
  /\ UNCHANGED plan

--------------------------------------------------------------------------------

Calls(p) == BeginCall(p) \/ Gate(p) \/ TimesOut(p) \/ Retry(p)
Agents(p) ==
  \/ PlanDrafted(p) \/ PlanRaised(p) \/ PlanCriticised(p)
  \/ DesignDrafted(p) \/ DesignRaised(p) \/ DesignCriticised(p)

CallsNext ==
  \/ \E p \in Project : Calls(p) \/ Agents(p)
  \/ ThreadTakes
  \/ \E j \in running : ThreadHangs(j) \/ ThreadEnds(j)

\* Coroutines go on, timers fire, and a thread ends unless it hangs for ever.
CallsFairness ==
  /\ \A p \in Project : WF_callsVars(Calls(p) \/ Agents(p))
  /\ WF_callsVars(ThreadTakes)
  /\ \A j \in Job : WF_callsVars(ThreadEnds(j))

CallsSpec == CallsInit /\ [][CallsNext]_callsVars /\ CallsFairness

--------------------------------------------------------------------------------

\* Whatever the model answers, and wherever its answer comes from, the plan that the
\* CTO agent and the engine read fields of is an object they can read, and so is the
\* design: what is not is replaced before it gets to memory.
PlanUsable ==
  \A p \in Project :
    /\ stage[p] \notin {"plan", "plan critique"} => plan[p] = "object"
    /\ stage[p] = "planned" => design[p] = "object"

\* What p awaits without a limit will never come: it hangs itself, or no thread is
\* left to take it.
Blocked(p) ==
  /\ pc[p] \in {"looking", "storing"}
  /\ Awaited(p) \in hung \/ Cardinality(hung) = Workers

\* Threads that are given up delay the calls behind them, and providers may hang: every
\* project is planned, from templates if need be, but one that comes to embed a prompt
\* when the embedding hangs, or when hung threads fill the pool, and stays there.
PlannedUnlessBlocked == \A p \in Project : <>(stage[p] = "planned") \/ <>[]Blocked(p)
================================================================================
