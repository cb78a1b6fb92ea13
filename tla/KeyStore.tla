------------------------------- MODULE KeyStore -------------------------------
(***************************************************************************)
(* The language-model keys of one user and the user's preference for one   *)
(* role (user_llm_keys, agent_model_prefs, settings_handler.go), and the   *)
(* two queries by which the orchestrator resolves them at dispatch         *)
(* (keystore.go).  Each statement is one step of the database.             *)
(***************************************************************************)
EXTENDS Naturals, Sequences, SequencesExt

CONSTANTS
  Key,         \* the ids of the keys' rows
  Provider,    \* the providers the user chooses among
  ProviderOf   \* ProviderOf[k]: the provider key k was added for

ASSUME KeyAssumption == ProviderOf \in [Key -> Provider]

AnyKey == "any key"          \* key_id is NULL
ServerKey == "server's key"  \* the environment's key

ASSUME NoKeyAssumption == {AnyKey, ServerKey} \intersect Key = {} /\ "none" \notin Provider

NoPref == [provider |-> "none", key |-> AnyKey]  \* no row

VARIABLES
  added,  \* the ids of the rows inserted, ORDER BY created_at
  gone,   \* those of the rows deleted since
  pref    \* the row of agent_model_prefs, or NoPref

keyVars == <<added, gone, pref>>

Rows == Range(added) \ gone   \* of user_llm_keys

Pref == [provider : Provider, key : Key \union {AnyKey}]
Config == [provider : Provider \union {"default"}, key : Key \union {ServerKey}]

KeysOK ==
  /\ added \in Seq(Key)
  /\ gone \subseteq Range(added)
  /\ pref \in Pref \union {NoPref}

KeysInit == added = <<>> /\ gone = {} /\ pref = NoPref

(***************************************************************************)
(* A row's id is never used again.                                         *)
(***************************************************************************)
AddKey(k) ==
  /\ k \notin Range(added)
  /\ added' = Append(added, k)
  /\ UNCHANGED <<gone, pref>>

(***************************************************************************)
(* The preference's foreign key is ON DELETE SET NULL.                     *)
(***************************************************************************)
DeleteKey(k) ==
  /\ k \in Rows
  /\ gone' = gone \union {k}
  /\ pref' = IF pref.key = k THEN [pref EXCEPT !.key = AnyKey] ELSE pref
  /\ UNCHANGED added

(***************************************************************************)
(* The upsert takes any provider with any key that has a row; one that has *)
(* none is refused by the foreign key.                                     *)
(***************************************************************************)
SetAgentPref(p, k) ==
  /\ k \in Rows \union {AnyKey}
  /\ pref' = [provider |-> p, key |-> k]
  /\ UNCHANGED <<added, gone>>

DeleteAgentPref ==
  /\ pref # NoPref
  /\ pref' = NoPref
  /\ UNCHANGED <<added, gone>>

Settings ==
  \/ \E k \in Key : AddKey(k) \/ DeleteKey(k)
  \/ \E p \in Provider, k \in Key \union {AnyKey} : SetAgentPref(p, k)
  \/ DeleteAgentPref

Oldest(some) == added[Min({i \in DOMAIN added : added[i] \in some})]

\* Mutant of ResolveKey: the oldest key, of whichever provider.
ResolveOldest(p) ==
  IF Rows = {} THEN ServerKey ELSE IF p.key = AnyKey THEN Oldest(Rows) ELSE p.key

(***************************************************************************)
(* resolveKey: the named key's row, else the provider's oldest, else none, *)
(* for which the caller takes the server's key.  is_valid is true in every *)
(* row: no route marks a key invalid.                                      *)
(***************************************************************************)
ResolveKey(p) ==
  LET found == IF p.key = AnyKey THEN {k \in Rows : ProviderOf[k] = p.provider}
               ELSE Rows \intersect {p.key}
  IN  IF found = {} THEN ServerKey ELSE Oldest(found)

DefaultConfig == [provider |-> "default", key |-> ServerKey]
================================================================================
