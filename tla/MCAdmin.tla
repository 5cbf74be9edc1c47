------------------------------- MODULE MCAdmin -------------------------------
(* Accounts and the AI centre share nothing that they change: one of them  *)
(* moves in a behaviour, and its bounds are those of its part.             *)
EXTENDS AccountSessions, AiRoutes, TLC

CONSTANTS a1, a2, a3, p1, p2, m1, m2

VARIABLE part

vars == <<part, accountVars, aiVars>>

(* Another account than the first may be any of them.                      *)
Symmetric == Permutations({a2, a3})

Profile(n) == [enabled |-> TRUE, attempts |-> n, manual |-> TRUE,
               sameProvider |-> TRUE, crossProvider |-> TRUE]
SomeProfiles == {Profile(1), Profile(2)}
Asked(id, p, m) == [id |-> id, provider |-> p, model |-> m, enabled |-> TRUE]
SomeRequests == {<<Asked(0, p1, AnyModel)>>, <<Asked(1, p2, m1)>>,
                 <<Asked(0, p2, AnyModel), Asked(1, p1, AnyModel)>>}
Sent(ms, on, pref) == [models |-> ms, on |-> on, preferred |-> pref]
SomePayloads == {Sent({m1, m2}, {m2}, {m1}), Sent({m1}, {m1}, {})}

SomePolicy == [limit |-> 1, exempt |-> FALSE, admits |-> TRUE, window |-> 1, ttl |-> 3]

Init ==
    /\ part \in {"sessions", "seats", "providers", "routes"}
    /\ AccountInit /\ AiInit
    /\ part # "providers" => legacy
    /\ IF part = "sessions" THEN policy.limit = 1 ELSE policy = SomePolicy

AccountPart == UNCHANGED <<part, aiVars>>
AiPart      == UNCHANGED <<part, accountVars>>

(* Sessions of an administrator and a user, with a thread that answers     *)
(* beside them.                                                            *)
SessionsPart ==
    /\ part = "sessions" /\ AccountPart
    /\ \/ Signing \/ Answering \/ Bootstrap \/ TickPasses
       \/ accountOps < 2 /\ (Administering \/ SavingPolicy)
    /\ accounts'[a3] = NoAccount /\ accounts'[a2].role = "user" /\ policy'.admits

(* Administrators and seats of three.                                      *)
SeatsPart ==
    /\ part = "seats" /\ AccountPart
    /\ \/ Signing \/ Administering \/ SavingPolicy \/ Admitting \/ Bootstrap
       \/ tick = 0 /\ TickPasses
    /\ \A a \in Accounts : accounts'[a].override = 0
    /\ policy'.window = 1 /\ policy'.ttl = 3
    /\ \A s \in SessionIds : sessions'[s].client = NoClient

ProvidersPart == part = "providers" /\ AiPart /\ Administers
RoutesPart    ==
    /\ part = "routes" /\ AiPart
    /\ (aiOps < 2 /\ Administers) \/ (\E e \in Executors : Executes(e)) \/ AiTickPasses

Next == SessionsPart \/ SeatsPart \/ ProvidersPart \/ RoutesPart
Spec == Init /\ [][Next]_vars

(* The variables of the part that moves have their types.                  *)
AdminTypeOK ==
    /\ part \in {"sessions", "seats"}   => AccountTypeOK
    /\ part \in {"providers", "routes"} => AiTypeOK
=============================================================================
