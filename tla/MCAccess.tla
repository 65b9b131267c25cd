------------------------------ MODULE MCAccess ------------------------------
(* Model-checking instances of how machines and people get in: the grant    *)
(* behind the managed CA (Broker), passkeys and read grants (Passkeys), and *)
(* that what CertRotation retires is revoked in the end.  A behaviour is    *)
(* one of one of them.                                                      *)
EXTENDS Broker, Passkeys, CertRotation, TLC

CONSTANTS o1, o2, q, r

VARIABLE part

accessVars == <<brokerVars, keyVars, vars, part>>

-----------------------------------------------------------------------------
BrokerPlan(connected, rotating, links, disconnects, ages, fts) ==
  [connected |-> connected, rotating |-> rotating, links |-> links, disconnects |-> disconnects, ages |-> ages, faults |-> fts]

MCBrokerPlans ==
  \* a first connection, a second one, a disconnection and a refresh
  {BrokerPlan(FALSE, FALSE, 2, 0, 1, {}), BrokerPlan(TRUE, TRUE, 1, 1, 1, {}), BrokerPlan(TRUE, TRUE, 1, 0, 1, {}),
  \* refusals, lost answers, an eviction
   BrokerPlan(TRUE, TRUE, 0, 0, 1, {"refuse"}), BrokerPlan(TRUE, TRUE, 0, 0, 2, {"evict"}),
   BrokerPlan(TRUE, TRUE, 0, 0, 2, {"lost", "outage"}), BrokerPlan(TRUE, FALSE, 0, 0, 2, {"narrow", "lost"}),
   BrokerPlan(TRUE, FALSE, 0, 1, 1, {"withdraw"}), BrokerPlan(TRUE, FALSE, 0, 2, 1, {"lost"})}

-----------------------------------------------------------------------------
Ceremony(kind, device, m) == [kind |-> kind, device |-> device, mint |-> m]

KeyPlan(enrolled, ceremonies, counting, out, ages, revokes, fts) ==
  [enrolled |-> enrolled, ceremonies |-> ceremonies, counting |-> counting, signsOut |-> out, ages |-> ages,
   revokes |-> revokes, faults |-> fts]

Registers(device) == Ceremony("register", device, "m")
SignsInWith(device) == Ceremony("auth", device, "m")

MCKeyPlans ==
  \* two devices set up at once, and one that signs in
  {KeyPlan({}, <<Registers("d"), Registers("e"), SignsInWith("d")>>, TRUE, FALSE, FALSE, FALSE, {"twice"}),
   KeyPlan({"d"}, <<Registers("e"), SignsInWith("d"), SignsInWith("e")>>, TRUE, TRUE, FALSE, FALSE, {"die"}),
  \* sign-ins beside an approval
   KeyPlan({"d"}, <<SignsInWith("d"), SignsInWith("d"), Ceremony("grant", "d", "m")>>, TRUE, FALSE, FALSE, FALSE, {"slow"}),
   KeyPlan({"d"}, <<SignsInWith("d"), Ceremony("grant", "d", "m")>>, FALSE, TRUE, FALSE, TRUE, {"twice"}),
  \* two approvals, of one run of the client or of two
   KeyPlan({"d"}, <<Ceremony("grant", "d", "m"), Ceremony("grant", "d", "m")>>, TRUE, FALSE, TRUE, FALSE, {"twice", "die"}),
   KeyPlan({"d", "e"}, <<Ceremony("grant", "d", "m"), Ceremony("grant", "e", "n")>>, TRUE, FALSE, TRUE, TRUE, {"lost", "slow"})}

-----------------------------------------------------------------------------
MCCertPlans ==
  [id : {TRUE}, admin : {FALSE}, renewals : {2}, swaps : {0}, edits : {0}, handles : {{}}, faults : {{"crash"}, {"unclear"}, {"reject"}}]

-----------------------------------------------------------------------------
AccessInit ==
  /\ part \in {"broker", "keys", "certs"}
  /\ BrokerInit /\ KeyInit /\ Init
  /\ part # "broker" => ~bplan.connected
  /\ part # "keys" => kplan.enrolled = {}
  /\ part # "certs" => plan.faults = {"crash"}

AccessNext ==
  /\ UNCHANGED part
  /\ \/ part = "broker" /\ BrokerNext /\ UNCHANGED <<keyVars, vars>>
     \/ part = "keys" /\ KeyNext /\ UNCHANGED <<brokerVars, vars>>
     \/ part = "certs" /\ Next /\ UNCHANGED <<brokerVars, keyVars>>

(* The fairness of each module, in its part.                                *)
AccessFairness ==
  /\ WF_brokerVars(part = "broker" /\ MutexStep) /\ WF_brokerVars(part = "broker" /\ OpStep)
  /\ WF_keyVars(part = "keys" /\ PresentStep) /\ WF_keyVars(part = "keys" /\ MintStep)
  /\ WF_vars(part = "certs" /\ Serving) /\ WF_vars(part = "certs" /\ (Pruning \/ Settling(Prune)))
  /\ WF_vars(part = "certs" /\ Age) /\ WF_vars(part = "certs" /\ \E c \in Certs : Finish(c))

AccessSpec == AccessInit /\ [][AccessNext]_accessVars /\ AccessFairness

-----------------------------------------------------------------------------
(* The counter kept for a passkey never falls; every request of the CA and  *)
(* every run of the client is answered, and a retired certificate is        *)
(* revoked or reinstated (webauthn.ts, cloudflare-oauth.ts, auth.py,        *)
(* certs.ts).                                                               *)
AccessIsServed ==
  /\ CountersRise
  /\ <>[](/\ part = "broker" => OpsAreOver
          /\ part = "keys" => MintsAreOver
          /\ part = "certs" => AllRevoked)
=============================================================================
