------------------------------ MODULE Routing -------------------------------
(***************************************************************************)
(* The registries of models and prompts, the route of /ai/route and        *)
(* /ai/generate through them, and the fallback from model to model with    *)
(* the artifact, the run and the audit record that an answer leaves        *)
(* (service/app/main.py, ollama.py, audit.py).                             *)
(*                                                                         *)
(* A registry is a sequence of rows in the order of its SELECT, the last   *)
(* registered first.  The tenant of the defaults is modelled; for another  *)
(* there are no seeds, and the built-in rows stand in until it registers   *)
(* something.  Texts are left out.                                         *)
(***************************************************************************)
EXTENDS Naturals, FiniteSets, Sequences, SequencesExt

CONSTANTS
  Callers,
  Local,        \* settings.ollama_model
  SeedModels,   \* the rows of _seed_ai_registry_defaults, in their order,
  SeedPrompts,  \* and the built-in rows
  Models,       \* models and prompts that an operator registers
  Prompts,
  Requests,     \* what is asked
  NoVersion, NoModel, NoRun,
  MaxRegistered,  \* bound on registrations
  MaxTroubles   \* bound on failing statements and restarts

ModelRows == Models \cup ToSet(SeedModels)
PromptRows == Prompts \cup ToSet(SeedPrompts)
IsSequence(s) == s \in Seq(ToSet(s))

(* What a registry is unique in: the name, with the version of a prompt. *)
Key(row) == IF "version" \in DOMAIN row THEN <<row.name, row.version>> ELSE <<row.name>>

(* The seeds are told apart by their keys, as the settings name two models. *)
ASSUME RoutingAssumption ==
  /\ IsSequence(SeedModels) /\ IsSequence(SeedPrompts)
  /\ \A seeds \in {SeedModels, SeedPrompts} : \A i, j \in DOMAIN seeds : Key(seeds[i]) = Key(seeds[j]) => i = j
  /\ \A row \in ModelRows : "version" \notin DOMAIN row /\ IsSequence(row.fallbacks)
  /\ \A a \in Requests : IsSequence(a.fallbacks)
  /\ MaxRegistered \in Nat /\ MaxTroubles \in Nat

VARIABLES
  models,       \* model_registry
  prompts,      \* prompt_registry
  place, request,
  modelRows, promptRows,  \* what a request has read
  route,        \* what _resolve_ai_route made of it
  tried,        \* the models that were tried
  output,       \* the validation status of the text
  artifacts,    \* the models of its rows of ai_output_artifacts
  run,          \* its row of ai_route_runs
  audit,        \* its row of audits
  answer,
  registered, troubles

registries == <<models, prompts>>
records == <<artifacts, run, audit>>
bounds == <<registered, troubles>>
routingVars == <<registries, place, request, modelRows, promptRows, route, tried, output, records, answer, bounds>>

Modes == {"deterministic", "creative"}

-----------------------------------------------------------------------------
(* The elements of a sequence at some of its places, in their order. *)
Kept(s, I) ==
  [n \in 1..Cardinality(I) |-> s[CHOOSE i \in I : Cardinality({j \in I : j <= i}) = n]]

(* The first row of the first choice that has one.  A choice is a set of places. *)
First(rows, choices, otherwise) ==
  LET given == {k \in DOMAIN choices : choices[k] # {}}
  IN IF given = {} THEN otherwise ELSE rows[Min(choices[Min(given)])]

(* _model_supports_action *)
Chatty == {"chat", "text_generation", "fallback_chat", "summarize", "retrieve_answer"}
Conversing == {"fallback_chat", "assistant", "summarize", "retrieve_answer"}

(* Mutant of Supports: in every mode. *)
SupportsAnyMode(row, a) ==
  IF a.action = "embed" THEN "embeddings" \in row.capabilities
  ELSE a.action \in row.capabilities \/ row.capabilities \cap Chatty # {}

Supports(row, a) ==
  /\ row.modes # {} => a.mode \in row.modes
  /\ IF a.action = "embed" THEN "embeddings" \in row.capabilities
     ELSE \/ a.action \in row.capabilities
          \/ a.action \in Conversing /\ row.capabilities \cap Chatty # {}
          \/ row.capabilities \cap {"chat", "text_generation"} # {}

(* _select_prompt_row *)
SelectPrompt(rows, a) ==
  LET Named(n) == {i \in DOMAIN rows : rows[i].name = n}
      Versioned(I) == {i \in I : rows[i].version = a.version}
      preferred == Named(a.action)
      fallback == Named("fallback_chat")
  IN First(rows,
           <<Versioned(preferred), {i \in preferred : rows[i].mode = a.mode}, preferred,
             Versioned(fallback), fallback>>,
           [name |-> "fallback_chat", version |-> "phase3.v1", compatible |-> {Local}, mode |-> a.mode])

(* The model of _resolve_ai_route. *)
Candidates(rows, a) == {i \in DOMAIN rows : Supports(rows[i], a)}
SettingsModel == [name |-> Local, capabilities |-> {"chat"}, modes |-> {}, default |-> FALSE, fallbacks |-> <<>>]

SelectModel(rows, a, prompt) ==
  LET candidates == Candidates(rows, a)
  IN First(rows,
           <<{i \in candidates : rows[i].name = a.model},
             {i \in candidates : rows[i].name \in prompt.compatible},
             {i \in candidates : rows[i].default}, candidates>>,
           SettingsModel)

(* Fallbacks that are declared need not support the action. *)
Fallbacks(rows, a, selected) ==
  LET others == {i \in Candidates(rows, a) : rows[i].name # selected.name}
  IN IF a.fallbacks # <<>> THEN a.fallbacks
     ELSE IF selected.fallbacks # <<>> THEN selected.fallbacks
     ELSE Kept([i \in DOMAIN rows |-> rows[i].name], others)

(* Each name once. *)
Attempts(rows, a, selected) ==
  LET names == <<selected.name>> \o Fallbacks(rows, a, selected)
  IN Kept(names, {i \in DOMAIN names : \A j \in 1..(i - 1) : names[j] # names[i]})

Resolve(a, mrows, prows) ==
  LET prompt == SelectPrompt(prows, a)
      selected == SelectModel(mrows, a, prompt)
  IN [prompt |-> prompt, model |-> selected.name, attempts |-> Attempts(mrows, a, selected)]

-----------------------------------------------------------------------------
(* A row that is stored, or stored again, is the last one updated. *)
Upserted(rows, row) == <<row>> \o Kept(rows, {i \in DOMAIN rows : Key(rows[i]) # Key(row)})

(* _seed_ai_registry_defaults stores one after the other, but for the      *)
(* statements that are lost; the last comes first.                         *)
SeededAgain(rows, seeds, lost) ==
  LET latest == Reverse(seeds)
      stored == {i \in DOMAIN latest : latest[i] \notin lost}
  IN Kept(latest, stored)
     \o Kept(rows, {i \in DOMAIN rows : \A j \in stored : Key(latest[j]) # Key(rows[i])})

Seeds == ToSet(SeedModels) \cup ToSet(SeedPrompts)
NoRoute == [prompt |-> [name |-> "fallback_chat", version |-> NoVersion, compatible |-> {}, mode |-> "deterministic"],
            model |-> NoModel, attempts |-> <<>>]
Nothing == [action |-> "fallback_chat", mode |-> "deterministic", model |-> NoModel, fallbacks |-> <<>>,
            version |-> NoVersion, schema |-> FALSE, generate |-> FALSE]

RoutingInit ==
  /\ models = SeededAgain(<<>>, SeedModels, {})
  /\ prompts = SeededAgain(<<>>, SeedPrompts, {})
  /\ place = [c \in Callers |-> "idle"] /\ request = [c \in Callers |-> Nothing]
  /\ modelRows = [c \in Callers |-> <<>>] /\ promptRows = [c \in Callers |-> <<>>]
  /\ route = [c \in Callers |-> NoRoute] /\ tried = [c \in Callers |-> <<>>]
  /\ output = [c \in Callers |-> "none"]
  /\ artifacts = [c \in Callers |-> <<>>]
  /\ run = [c \in Callers |-> NoRun] /\ audit = [c \in Callers |-> "none"]
  /\ answer = [c \in Callers |-> "none"]
  /\ registered = 0 /\ troubles = 0

Statement(ok) ==
  /\ ok \/ troubles < MaxTroubles
  /\ troubles' = IF ok THEN troubles ELSE troubles + 1
  /\ UNCHANGED registered

Step(c, from, to) ==
  /\ place[c] = from
  /\ place' = [place EXCEPT ![c] = to]
  /\ UNCHANGED <<request, registries>>

Return(c, from, what) ==
  /\ Step(c, from, "idle")
  /\ answer' = [answer EXCEPT ![c] = what]

(* A request forgets the last one. *)
Begin(c, a) ==
  /\ place[c] = "idle"
  /\ place' = [place EXCEPT ![c] = "models"]
  /\ request' = [request EXCEPT ![c] = a]
  /\ modelRows' = [modelRows EXCEPT ![c] = <<>>] /\ promptRows' = [promptRows EXCEPT ![c] = <<>>]
  /\ route' = [route EXCEPT ![c] = NoRoute] /\ tried' = [tried EXCEPT ![c] = <<>>]
  /\ output' = [output EXCEPT ![c] = "none"]
  /\ artifacts' = [artifacts EXCEPT ![c] = <<>>]
  /\ run' = [run EXCEPT ![c] = NoRun] /\ audit' = [audit EXCEPT ![c] = "none"]
  /\ answer' = [answer EXCEPT ![c] = "none"]
  /\ UNCHANGED <<registries, bounds>>

(* _fetch_model_rows and _fetch_prompt_rows: without rows, or without an   *)
(* answer, those built in.                                                 *)
Fetched(rows, builtIn, ok) == IF ok /\ rows # <<>> THEN rows ELSE builtIn

FetchModels(c, ok) ==
  /\ Step(c, "models", "prompts")
  /\ Statement(ok)
  /\ modelRows' = [modelRows EXCEPT ![c] = Fetched(models, SeedModels, ok)]
  /\ UNCHANGED <<promptRows, route, tried, output, records, answer>>

FetchPrompts(c, ok) ==
  LET rows == Fetched(prompts, SeedPrompts, ok)
  IN /\ IF request[c].generate
        THEN Step(c, "prompts", "try") /\ UNCHANGED answer
        ELSE Return(c, "prompts", "routed")
     /\ Statement(ok)
     /\ promptRows' = [promptRows EXCEPT ![c] = rows]
     /\ route' = [route EXCEPT ![c] = Resolve(request[c], modelRows[c], rows)]
     /\ UNCHANGED <<modelRows, tried, output, records>>

-----------------------------------------------------------------------------
(* One round of the loop of ai_generate: Ollama answers or it does not.    *)
(* A text that is a JSON number raises in _validate_json when the schema   *)
(* requires fields ("scalar"), and nothing catches that.                   *)
Untried(c) == Len(route[c].attempts) - Len(tried[c])

Generate(c, text) ==
  /\ Untried(c) > 0
  /\ tried' = [tried EXCEPT ![c] = Append(@, route[c].attempts[Len(@) + 1])]
  /\ CASE text = "unreachable" -> /\ Step(c, "try", IF Untried(c) = 1 THEN "runFailed" ELSE "try")
                                  /\ UNCHANGED <<output, answer>>
       [] text = "scalar" /\ request[c].schema -> Return(c, "try", "raised") /\ UNCHANGED output
       [] OTHER -> /\ Step(c, "try", "store")
                   /\ output' = [output EXCEPT ![c] = IF request[c].schema THEN text ELSE "not_requested"]
                   /\ UNCHANGED answer
  /\ UNCHANGED <<modelRows, promptRows, route, records, bounds>>

(* Mutant of Broken: every exception tries the next model. *)
BrokenIntoNext(c, from) ==
  Step(c, from, IF Untried(c) > 0 THEN "try" ELSE "runFailed") /\ UNCHANGED answer

(* An exception of the database is no OllamaError. *)
Broken(c, from) == Return(c, from, "raised")

Store(c, ok) ==
  /\ IF ok THEN Step(c, "store", "run") /\ UNCHANGED answer ELSE Broken(c, "store")
  /\ Statement(ok)
  /\ artifacts' = [artifacts EXCEPT ![c] = IF ok THEN Append(@, Last(tried[c])) ELSE @]
  /\ UNCHANGED <<modelRows, promptRows, route, tried, output, run, audit>>

(* _record_ai_route_run, whose failure nobody notices.  A run that failed  *)
(* says that no fallback was used, since the first model that was tried is *)
(* the selected one.                                                       *)
RecordRun(c, ok) ==
  /\ Step(c, "run", "audit")
  /\ Statement(ok)
  /\ run' = [run EXCEPT ![c] =
       IF ok THEN [status |-> "completed", model |-> Last(tried[c]), attempted |-> tried[c],
                   fallback |-> Len(tried[c]) > 1] ELSE @]
  /\ UNCHANGED <<modelRows, promptRows, route, tried, output, artifacts, audit, answer>>

RecordFailedRun(c, ok) ==
  /\ Step(c, "runFailed", "auditFailed")
  /\ Statement(ok)
  /\ run' = [run EXCEPT ![c] =
       IF ok THEN [status |-> "failed", model |-> route[c].model, attempted |-> tried[c],
                   fallback |-> Head(tried[c]) # route[c].model] ELSE @]
  /\ UNCHANGED <<modelRows, promptRows, route, tried, output, artifacts, audit, answer>>

(* write_audit, which raises. *)
WriteAudit(c, ok) ==
  /\ IF ok THEN Return(c, "audit", "text") ELSE Broken(c, "audit")
  /\ Statement(ok)
  /\ audit' = [audit EXCEPT ![c] = IF ok THEN "allow" ELSE @]
  /\ UNCHANGED <<modelRows, promptRows, route, tried, output, artifacts, run>>

WriteFailedAudit(c, ok) ==
  /\ Return(c, "auditFailed", IF ok THEN "unavailable" ELSE "raised")
  /\ Statement(ok)
  /\ audit' = [audit EXCEPT ![c] = IF ok THEN "deny" ELSE @]
  /\ UNCHANGED <<modelRows, promptRows, route, tried, output, artifacts, run>>

-----------------------------------------------------------------------------
Register ==
  /\ registered < MaxRegistered /\ registered' = registered + 1
  /\ UNCHANGED <<place, request, modelRows, promptRows, route, tried, output, records, answer, troubles>>

RegisterModel(row) ==
  /\ Register
  /\ models' = Upserted(models, row)
  /\ UNCHANGED prompts

RegisterPrompt(row) ==
  /\ Register
  /\ prompts' = Upserted(prompts, row)
  /\ UNCHANGED models

(* The requests are lost, and the seeds are stored again, over what an     *)
(* operator made of them and in front of the rest.                         *)
StartAgain(lost) ==
  /\ troubles < MaxTroubles /\ troubles' = troubles + 1
  /\ models' = SeededAgain(models, SeedModels, lost)
  /\ prompts' = SeededAgain(prompts, SeedPrompts, lost)
  /\ place' = [c \in Callers |-> "idle"]
  /\ answer' = [c \in Callers |-> IF place[c] = "idle" THEN answer[c] ELSE "lost"]
  /\ UNCHANGED <<request, modelRows, promptRows, route, tried, output, records, registered>>

RoutingNext ==
  \/ \E c \in Callers :
       \/ \E a \in Requests : Begin(c, a)
       \/ \E ok \in BOOLEAN :
            \/ FetchModels(c, ok) \/ FetchPrompts(c, ok) \/ Store(c, ok)
            \/ RecordRun(c, ok) \/ RecordFailedRun(c, ok)
            \/ WriteAudit(c, ok) \/ WriteFailedAudit(c, ok)
       \/ \E text \in {"valid", "invalid_json", "invalid_schema", "scalar", "unreachable"} : Generate(c, text)
  \/ \E row \in Models : RegisterModel(row)
  \/ \E row \in Prompts : RegisterPrompt(row)
  \/ \E lost \in SUBSET Seeds : StartAgain(lost)

RoutingSpec == RoutingInit /\ [][RoutingNext]_routingVars

-----------------------------------------------------------------------------
RoutingTypeOK ==
  /\ models \in Seq(ModelRows) /\ prompts \in Seq(PromptRows)
  /\ place \in [Callers -> {"idle", "models", "prompts", "try", "store", "run", "audit", "runFailed", "auditFailed"}]
  /\ request \in [Callers -> Requests \cup {Nothing}]
  /\ modelRows \in [Callers -> Seq(ModelRows)] /\ promptRows \in [Callers -> Seq(PromptRows)]
  /\ audit \in [Callers -> {"none", "allow", "deny"}]
  /\ answer \in [Callers -> {"none", "routed", "text", "unavailable", "raised", "lost"}]
  /\ registered \in 0..MaxRegistered /\ troubles \in 0..MaxTroubles

(* The model that a route selects can do what is asked, in the mode that   *)
(* is asked, if any model that was read can; then none that can is         *)
(* preferred to it by the request, by the prompt of the route or by the    *)
(* registry, in this order.  Nothing is tried beyond it but the fallbacks  *)
(* that somebody declared, or models that can do it as well.  The prompt   *)
(* is one of the action, if there is one.                                  *)
Serving(action) ==
  IF action = "embed" THEN {"embeddings"}
  ELSE {action, "chat", "text_generation"} \cup (IF action \in Conversing THEN Chatty ELSE {})

Able(row, a) == (row.modes = {} \/ a.mode \in row.modes) /\ row.capabilities \cap Serving(a.action) # {}

Rank(row, a, prompt) ==
  IF row.name = a.model THEN 3 ELSE IF row.name \in prompt.compatible THEN 2 ELSE IF row.default THEN 1 ELSE 0

RouteIsBest ==
  \A c \in Callers :
    route[c] # NoRoute =>
      LET a == request[c]
          prompt == route[c].prompt
          able == {row \in ToSet(modelRows[c]) : Able(row, a)}
          chosen == {row \in able : row.name = route[c].model}
          declared == ToSet(a.fallbacks) \cup UNION {ToSet(row.fallbacks) : row \in chosen}
      IN /\ able # {} => chosen # {}
         /\ \A row \in chosen : \A other \in able : Rank(other, a, prompt) <= Rank(row, a, prompt)
         /\ Head(route[c].attempts) = route[c].model
         /\ ToSet(route[c].attempts)
              \subseteq {route[c].model} \cup (IF declared # {} THEN declared ELSE {row.name : row \in able})
         /\ (\E row \in ToSet(promptRows[c]) : row.name = a.action) => prompt.name = a.action

(* Models are tried in the order of the route, and no text is stored twice *)
(* or for nothing: a text that is answered has one artifact, of the last   *)
(* model tried, and is audited as allowed; a request that is refused as    *)
(* unavailable has tried every model, left no artifact and is audited as   *)
(* denied; one that broke off left one at most.  What the run says, if it  *)
(* could be stored, is what happened.                                      *)
AnswerIsRecorded ==
  \A c \in Callers :
    /\ IsPrefix(tried[c], route[c].attempts)
    /\ Len(artifacts[c]) <= 1
    /\ artifacts[c] # <<>> => artifacts[c] = <<Last(tried[c])>>
    /\ run[c] # NoRun =>
         /\ run[c].attempted = tried[c]
         /\ run[c].status = "completed" <=> artifacts[c] # <<>>
         /\ run[c].status = "completed" => run[c].model = artifacts[c][1]
    /\ answer[c] = "text" => artifacts[c] # <<>> /\ audit[c] = "allow"
    /\ answer[c] = "unavailable" =>
         artifacts[c] = <<>> /\ audit[c] = "deny" /\ tried[c] = route[c].attempts
=============================================================================
