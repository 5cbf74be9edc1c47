------------------------------- MODULE AiRoutes -------------------------------
(***************************************************************************)
(* The AI centre: providers with their models, one route with its steps,   *)
(* and the executions that try the candidates of the route in turn.        *)
(*                                                                         *)
(* A worker executes a route in its own transaction, which it commits      *)
(* whatever comes of it; the administrator's test is a coroutine that      *)
(* holds the event loop and is rolled back when it fails.  The requests of *)
(* the administrator are steps.                                            *)
(***************************************************************************)
EXTENDS Integers, Sequences, FiniteSets, FiniteSetsExt

CONSTANTS
    Providers,      \* ids of ai_provider_configs
    Models,         \* model ids
    AnyModel,           \* no model: the provider's own list is tried
    Executors,      \* who executes the route
    Testers,        \* those of them that are the administrator's test
    Profiles,       \* bound: route profiles that are saved
    Requests,       \* bound: sequences of steps that are asked for
    Payloads,       \* bound: lists of models that are saved
    MaxSteps,       \* bound: rows of ai_route_steps
    MaxAttempts,    \* bound: max_attempts of the route
    Cooldown,       \* cooldown_seconds, in ticks
    MaxAiTicks,     \* bound: ticks of the clock
    MaxAiOps        \* bound: requests of the administrator

StepIds    == 1..MaxSteps
ProfileRow == [enabled: BOOLEAN, attempts: 1..MaxAttempts, manual: BOOLEAN,
               sameProvider: BOOLEAN, crossProvider: BOOLEAN]
StepAsked  == [id: 0..MaxSteps, provider: Providers, model: Models \cup {AnyModel},
               enabled: BOOLEAN]
ModelsSent == [models: SUBSET Models, on: SUBSET Models, preferred: SUBSET Models]

(* What a request may ask for: a payload flags one model as preferred at   *)
(* most (_save_provider_models takes the first that it flags).             *)
ASSUME AiAssumption ==
    /\ Providers # {} /\ IsFiniteSet(Providers) /\ IsFiniteSet(Models)
    /\ AnyModel \notin Models /\ Testers \subseteq Executors
    /\ Profiles \subseteq ProfileRow /\ Requests \subseteq Seq(StepAsked)
    /\ \A payload \in Payloads :
         /\ payload \in ModelsSent /\ Cardinality(payload.preferred) <= 1
         /\ payload.on \subseteq payload.models
         /\ payload.preferred \subseteq payload.models
    /\ MaxSteps \in Nat /\ MaxAttempts \in Nat \ {0} /\ Cooldown \in Nat
    /\ MaxAiTicks \in Nat /\ MaxAiOps \in Nat

VARIABLES
    providers,  \* rows of ai_provider_configs
    listed,     \* models of each provider
    offered,    \* those of them that are enabled
    preferred,  \* those flagged as preferred
    route,      \* the route profile
    steps,      \* rows of ai_route_steps, by id
    stepIds,    \* ids given out
    executions, \* what each executor has loaded and tried
    legacy,     \* the old settings hold a provider
    aiTick,     \* the clock
    aiOps       \* history: requests of the administrator

aiVars == <<providers, listed, offered, preferred, route, steps, stepIds, executions,
            legacy, aiTick, aiOps>>

Health     == [status: {"unknown", "healthy", "degraded"}, fails: Nat, until: Nat]
Unknown    == [status |-> "unknown", fails |-> 0, until |-> 0]   \* 0: no cooldown_until
NoProvider == [made |-> FALSE, enabled |-> FALSE, default |-> FALSE, usable |-> FALSE,
               health |-> Unknown]
NoStep     == [made |-> FALSE, index |-> 0, provider |-> CHOOSE p \in Providers : TRUE,
               model |-> AnyModel, enabled |-> FALSE]
Candidate  == [step: StepIds, index: Nat, provider: Providers, model: Models \cup {AnyModel}]
ProviderRow == [made: BOOLEAN, enabled: BOOLEAN, default: BOOLEAN, usable: BOOLEAN,
                health: Health]
StepRow    == [made: BOOLEAN, index: Nat, provider: Providers, model: Models \cup {AnyModel},
               enabled: BOOLEAN]
Execution  == [pc: {"idle", "calling"}, left: SUBSET Candidate, inTurn: BOOLEAN,
               attempts: 0..MaxAttempts, failed: SUBSET Providers,
               called: SUBSET Candidate, loaded: [Providers -> Health]]
Idle       == [pc |-> "idle", left |-> {}, inTurn |-> FALSE, attempts |-> 0,
               failed |-> {}, called |-> {}, loaded |-> [p \in Providers |-> Unknown]]

Made == {p \in Providers : providers[p].made}

AiTypeOK ==
    /\ providers \in [Providers -> ProviderRow]
    /\ \A f \in {listed, offered, preferred} : f \in [Providers -> SUBSET Models]
    /\ route \in ProfileRow /\ steps \in [StepIds -> StepRow]
    /\ stepIds \in 0..MaxSteps
    /\ executions \in [Executors -> Execution]
    /\ \A e \in Executors : executions[e].pc = "calling" => executions[e].attempts > 0
    /\ legacy \in BOOLEAN /\ aiTick \in 0..MaxAiTicks /\ aiOps \in 0..MaxAiOps

AiInit ==
    /\ providers = [p \in Providers |-> NoProvider]
    /\ listed = [p \in Providers |-> {}] /\ offered = listed /\ preferred = listed
    /\ route = [enabled |-> TRUE, attempts |-> MaxAttempts, manual |-> FALSE,
                sameProvider |-> TRUE, crossProvider |-> TRUE]
    /\ steps = [s \in StepIds |-> NoStep] /\ stepIds = 0
    /\ executions = [e \in Executors |-> Idle]
    /\ legacy \in BOOLEAN /\ aiTick = 0 /\ aiOps = 0

(***************************************************************************)
(* The administrator's requests                                            *)
(***************************************************************************)
First(S) == CHOOSE m \in S : TRUE

Seeded == legacy => Made # {}

(* A request: while the test runs, the event loop serves no other.         *)
AiOp ==
    /\ Seeded /\ aiOps < MaxAiOps /\ aiOps' = aiOps + 1
    /\ \A e \in Testers : executions[e].pc = "idle"

(* _migrate_legacy_resource_ops_provider_if_needed, with which every       *)
(* request and every execution begins.                                     *)
MigrateLegacy(p, m) ==
    /\ ~Seeded /\ stepIds < MaxSteps
    /\ providers' = [providers EXCEPT ![p] =
            [made |-> TRUE, enabled |-> TRUE, default |-> TRUE, usable |-> TRUE,
             health |-> Unknown]]
    /\ LET ms == {m} \ {AnyModel} IN
       /\ listed' = [listed EXCEPT ![p] = ms] /\ offered' = [offered EXCEPT ![p] = ms]
       /\ preferred' = [preferred EXCEPT ![p] = ms]
    /\ steps' = [steps EXCEPT ![stepIds + 1] =
            [made |-> TRUE, index |-> 1, provider |-> p, model |-> m, enabled |-> TRUE]]
    /\ stepIds' = stepIds + 1
    /\ UNCHANGED <<route, executions, legacy, aiTick, aiOps>>

(* _ensure_preferred_provider_model: a preferred one among the enabled     *)
(* models, if there are any.                                               *)
Ensured(known, on, pref) ==
    IF known = {} \/ pref \cap on # {} THEN pref
    ELSE IF on # {} THEN {First(on)}
    ELSE IF pref # {} THEN {First(pref)} ELSE {First(known)}

(* _save_provider_models: what is not in the payload is disabled.          *)
SavesModels(p, payload) ==
    LET known == listed[p] \cup payload.models IN
    /\ listed' = [listed EXCEPT ![p] = known]
    /\ offered' = [offered EXCEPT ![p] = payload.on]
    /\ preferred' = [preferred EXCEPT ![p] = Ensured(known, payload.on, payload.preferred)]

KeepsModels == UNCHANGED <<listed, offered, preferred>>

(* A default provider is the only one (_set_provider_default).             *)
WithDefault(p, row) ==
    [q \in Providers |-> IF q = p THEN row
                         ELSE [providers[q] EXCEPT !.default = @ /\ ~row.default]]

SaveProvider(p, enabled, default, usable) ==
    /\ AiOp
    /\ providers' = WithDefault(p, [made |-> TRUE, enabled |-> enabled, default |-> default,
                                    usable |-> usable, health |-> providers[p].health])
    /\ UNCHANGED <<route, steps, stepIds, executions, legacy, aiTick>>

(* The rows an execution has recorded a call for are locked until it       *)
(* commits, and deleting them then fails on what it has recorded.          *)
Recorded == UNION {executions[e].called : e \in Executors}

DeleteProvider(p) ==
    /\ AiOp /\ p \in Made /\ \A c \in Recorded : c.provider # p
    /\ LET others == {q \in Made \ {p} : providers[q].enabled}
           gone   == [providers EXCEPT ![p] = NoProvider] IN
       IF providers[p].default /\ others # {}
       THEN \E q \in others : providers' = [gone EXCEPT ![q].default = TRUE]
       ELSE providers' = gone
    /\ listed' = [listed EXCEPT ![p] = {}] /\ offered' = [offered EXCEPT ![p] = {}]
    /\ preferred' = [preferred EXCEPT ![p] = {}]
    /\ steps' = [s \in StepIds |-> IF steps[s].provider = p THEN NoStep ELSE steps[s]]
    /\ UNCHANGED <<route, stepIds, executions, legacy, aiTick>>

Healthy == [status |-> "healthy", fails |-> 0, until |-> 0]

RefreshModels(p, found) ==
    /\ AiOp /\ p \in Made /\ providers[p].usable /\ found # {}
    /\ LET known == listed[p] \cup found
           on    == offered[p] \cup (found \ listed[p])
           first == IF preferred[p] # {} THEN First(preferred[p]) ELSE First(found)
           pref  == (preferred[p] \ found) \cup ({first} \cap found) IN
       /\ listed' = [listed EXCEPT ![p] = known] /\ offered' = [offered EXCEPT ![p] = on]
       /\ preferred' = [preferred EXCEPT ![p] = Ensured(known, on, pref)]
    /\ providers' = [providers EXCEPT ![p].health = Healthy]
    /\ UNCHANGED <<route, steps, stepIds, executions, legacy, aiTick>>

TestProvider(p) ==
    /\ AiOp /\ p \in Made /\ providers[p].usable
    /\ providers' = [providers EXCEPT ![p].health = Healthy]
    /\ KeepsModels /\ UNCHANGED <<route, steps, stepIds, executions, legacy, aiTick>>

(* Sensitivity: the steps that are not asked for keep their places.        *)
SetAsideAsIs(s) == [steps[s] EXCEPT !.enabled = FALSE]

(* Out of the way of the new places, and disabled unless asked for.        *)
SetAside(s) ==
    LET places == {steps[t].index : t \in StepIds}
        before == {t \in StepIds : steps[t].made /\ steps[t].index < steps[s].index} IN
    [steps[s] EXCEPT !.index = Max(places) + 100 + Cardinality(before), !.enabled = FALSE]

(* save_ai_route: asked[i] is an id of a step of the route or 0, the last  *)
(* of several counts.                                                      *)
SaveRoute(profile, asked) ==
    LET n       == Len(asked)
        new(i)  == asked[i].id = 0 \/ ~steps[asked[i].id].made
        fresh(i) == stepIds + Cardinality({j \in 1..i : new(j)})
        idOf(i) == IF new(i) THEN fresh(i) ELSE asked[i].id
        at(s)   == {i \in 1..n : idOf(i) = s} IN
    /\ AiOp /\ \A i \in 1..n : asked[i].provider \in Made
    /\ \A c \in Recorded : ~steps[c.step].made
    /\ stepIds + Cardinality({i \in 1..n : new(i)}) <= MaxSteps
    /\ stepIds' = stepIds + Cardinality({i \in 1..n : new(i)})
    /\ route' = profile
    /\ steps' = [s \in StepIds |->
            IF at(s) # {}
            THEN LET i == Max(at(s)) IN
                 [made |-> TRUE, index |-> i, provider |-> asked[i].provider,
                  model |-> asked[i].model, enabled |-> asked[i].enabled]
            ELSE IF steps[s].made THEN SetAside(s) ELSE NoStep]
    /\ KeepsModels /\ UNCHANGED <<providers, executions, legacy, aiTick>>

(***************************************************************************)
(* Executing the route                                                     *)
(***************************************************************************)
(* _build_route_candidates: the models a step stands for.  One that is     *)
(* named is called, enabled or not.                                        *)
ModelsOf(s) ==
    LET p == steps[s].provider IN
    IF steps[s].model # AnyModel THEN {steps[s].model}
    ELSE IF offered[p] = {} THEN {AnyModel}
    ELSE IF ~route.manual /\ route.sameProvider THEN offered[p]
    ELSE IF preferred[p] \cap offered[p] = {} THEN {First(offered[p])}
    ELSE {First(preferred[p] \cap offered[p])}

IsCalled(s) ==
    LET p == steps[s].provider IN
    /\ steps[s].made /\ steps[s].enabled
    /\ providers[p].enabled /\ providers[p].usable
    /\ providers[p].health.until <= aiTick

(* A provider and model once, for the first of the steps that name them.   *)
RouteCandidates ==
    LET at(s, m) == [step |-> s, index |-> steps[s].index, provider |-> steps[s].provider,
                     model |-> m]
        all == UNION {{at(s, m) : m \in ModelsOf(s)} : s \in {t \in StepIds : IsCalled(t)}} IN
    {c \in all : \A d \in all :
        d.provider = c.provider /\ d.model = c.model => c.index <= d.index}

Begin(e) ==
    /\ Seeded /\ executions[e].pc = "idle" /\ route.enabled /\ RouteCandidates # {}
    /\ e \in Testers => \A t \in Testers : executions[t].pc = "idle"
    /\ executions' = [executions EXCEPT ![e] =
            [Idle EXCEPT !.pc = "calling", !.left = RouteCandidates, !.attempts = route.attempts,
                         !.inTurn = route.manual \/ ~route.crossProvider,
                         !.loaded = [p \in Providers |-> providers[p].health]]]
    /\ KeepsModels /\ UNCHANGED <<providers, route, steps, stepIds, legacy, aiTick, aiOps>>

(* The ORM writes those columns that differ from what was loaded.          *)
Marked(p, loaded, new) ==
    LET now == providers[p].health IN
    [status |-> IF new.status # loaded.status THEN new.status ELSE now.status,
     fails  |-> IF new.fails # loaded.fails THEN new.fails ELSE now.fails,
     until  |-> IF new.until # loaded.until THEN new.until ELSE now.until]

(* _mark_provider_success and _mark_provider_failure, for what was tried.  *)
MarksTried(ex, failed, answered) ==
    providers' = [p \in Providers |->
        IF p \in answered
        THEN [providers[p] EXCEPT !.health = Marked(p, ex.loaded[p], Healthy)]
        ELSE IF p \in failed
        THEN [providers[p] EXCEPT !.health = Marked(p, ex.loaded[p],
                [status |-> "degraded", fails |-> ex.loaded[p].fails + 1,
                 until |-> IF Cooldown > 0 THEN aiTick + Cooldown ELSE 0])]
        ELSE providers[p]]

(* The next candidate: in the order of the steps, or by a score of which   *)
(* nothing is assumed.                                                     *)
IsNext(ex, c) ==
    /\ ex.pc = "calling" /\ c \in ex.left
    /\ ex.inTurn => \A d \in ex.left : c.index <= d.index

(* A call is recorded unless its provider or step is gone, on which the    *)
(* transaction fails and takes the execution with it.                      *)
CanRecord(c) == providers[c.provider].made /\ steps[c.step].made

Answers(e, c) ==
    LET ex == executions[e] IN
    /\ IsNext(ex, c) /\ CanRecord(c)
    /\ executions' = [executions EXCEPT ![e] = Idle]
    /\ MarksTried(ex, ex.failed, {c.provider})
    /\ KeepsModels /\ UNCHANGED <<route, steps, stepIds, legacy, aiTick, aiOps>>

(* Sensitivity: max_attempts is not looked at.                             *)
FailsOn(e, c) ==
    LET ex     == executions[e]
        failed == ex.failed \cup {c.provider} IN
    /\ IsNext(ex, c) /\ CanRecord(c)
    /\ IF ex.left # {c}
       THEN /\ executions' = [executions EXCEPT ![e] =
                    [ex EXCEPT !.left = @ \ {c}, !.attempts = @ - 1, !.failed = failed,
                               !.called = @ \cup {c}]]
            /\ UNCHANGED providers
       ELSE /\ executions' = [executions EXCEPT ![e] = Idle]
            /\ IF e \in Testers THEN UNCHANGED providers ELSE MarksTried(ex, failed, {})
    /\ KeepsModels /\ UNCHANGED <<route, steps, stepIds, legacy, aiTick, aiOps>>

Fails(e, c) ==
    LET ex     == executions[e]
        failed == ex.failed \cup {c.provider} IN
    /\ IsNext(ex, c) /\ CanRecord(c)
    /\ IF ex.attempts > 1 /\ ex.left # {c}
       THEN /\ executions' = [executions EXCEPT ![e] =
                    [ex EXCEPT !.left = @ \ {c}, !.attempts = @ - 1, !.failed = failed,
                               !.called = @ \cup {c}]]
            /\ UNCHANGED providers
       ELSE /\ executions' = [executions EXCEPT ![e] = Idle]
            /\ IF e \in Testers THEN UNCHANGED providers ELSE MarksTried(ex, failed, {})
    /\ KeepsModels /\ UNCHANGED <<route, steps, stepIds, legacy, aiTick, aiOps>>

BreaksOff(e, c) ==
    /\ IsNext(executions[e], c) /\ ~CanRecord(c)
    /\ executions' = [executions EXCEPT ![e] = Idle]
    /\ KeepsModels
    /\ UNCHANGED <<providers, route, steps, stepIds, legacy, aiTick, aiOps>>

AiTickPasses ==
    /\ aiTick < MaxAiTicks /\ aiTick' = aiTick + 1
    /\ KeepsModels /\ UNCHANGED <<providers, route, steps, stepIds, executions, legacy, aiOps>>

(***************************************************************************)
(* Specification                                                           *)
(***************************************************************************)
Administers ==
    \/ \E p \in Providers :
         \/ \E enabled, default, usable \in BOOLEAN :
              /\ SaveProvider(p, enabled, default, usable)
              /\ KeepsModels \/ \E payload \in Payloads : SavesModels(p, payload)
         \/ DeleteProvider(p) \/ TestProvider(p)
         \/ \E found \in SUBSET Models : RefreshModels(p, found)
         \/ \E m \in Models \cup {AnyModel} : MigrateLegacy(p, m)
    \/ \E profile \in Profiles, asked \in Requests : SaveRoute(profile, asked)

Executes(e) ==
    \/ Begin(e)
    \/ \E c \in executions[e].left : Answers(e, c) \/ Fails(e, c) \/ BreaksOff(e, c)

AiNext == Administers \/ (\E e \in Executors : Executes(e)) \/ AiTickPasses

AiSpec == AiInit /\ [][AiNext]_aiVars

(***************************************************************************)
(* Properties                                                              *)
(***************************************************************************)
(* One provider at most is the default, whatever is saved and deleted      *)
(* (_set_provider_default, delete_ai_provider).                            *)
OneDefault ==
    \A p, q \in Made : providers[p].default /\ providers[q].default => p = q

(* A provider that has models prefers one of them, and an enabled one if   *)
(* it has any (_ensure_preferred_provider_model).                          *)
PreferredIsOne ==
    \A p \in Made :
        /\ listed[p] # {} => Cardinality(preferred[p]) = 1
        /\ offered[p] # {} => preferred[p] \subseteq offered[p]

(* No two steps of the route have the same place, as their table demands,  *)
(* and every step names a provider that exists (save_ai_route,             *)
(* delete_ai_provider).                                                    *)
StepsAreOrdered ==
    /\ \A s, t \in StepIds :
         steps[s].made /\ steps[t].made /\ steps[s].index = steps[t].index => s = t
    /\ \A s \in StepIds : steps[s].made => providers[steps[s].provider].made

RoutesAreWhole == OneDefault /\ PreferredIsOne /\ StepsAreOrdered
=============================================================================
