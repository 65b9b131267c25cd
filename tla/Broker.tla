------------------------------- MODULE Broker -------------------------------
(***************************************************************************)
(* The broker of the hub's OAuth grant for the managed CA                  *)
(* (hub/src/auth/cloudflare-oauth.ts): one durable object that keeps the   *)
(* grant, renews its access token for the requests that need it, and is    *)
(* connected and disconnected by a person.                                 *)
(*                                                                         *)
(* The object runs one step at a time, a step being what it does between   *)
(* two calls to the outside: its storage is read and written within one.   *)
(* What changes the grant - a refresh, the exchange of a code, a           *)
(* disconnection - queues for a mutex; the requests that find the token    *)
(* due share one refresh.  The provider, the CA and the person are         *)
(* external.  The provider may rotate refresh tokens, and time passes when *)
(* the plan lets it.                                                       *)
(***************************************************************************)
EXTENDS Naturals, Sequences, FiniteSets

CONSTANTS CertOps,      \* certificate requests of the hub
          MaxLinks,     \* bound: authorizations a person starts
          BrokerPlans   \* bound: rotation, links, disconnections, tokens that age and faults of a behaviour

BrokerFaults == {"evict",     \* the object dies, with its queue and its promises
                 "lost",      \* the provider's answer is lost, what it did is not
                 "outage",    \* the provider fails and does nothing
                 "narrow",    \* it answers without the scope that is needed
                 "refuse",    \* the CA refuses a token that has not expired
                 "withdraw"}  \* the person withdraws the grant at the provider

ASSUME BrokerAssumption ==
  /\ MaxLinks \in Nat
  /\ BrokerPlans \subseteq [connected : BOOLEAN, rotating : BOOLEAN, links : 0..MaxLinks, disconnects : Nat, ages : Nat,
                           faults : SUBSET BrokerFaults]

VARIABLES grant,      \* the stored grant
          pendingLink,\* the stored authorization a person has yet to complete
          lineup,     \* refreshes, exchanges and disconnections, the first of which has the mutex
          certOp,     \* certificate requests
          provider,   \* what the provider knows
          link,       \* authorizations, as the person sees them
          dropped,    \* history: lineages that were disconnected
          bplan,      \* the behaviour's plan: each of its faults may strike once
          bspent,     \* links, disconnections and ages so far
          bfaults     \* faults that have struck

brokerVars == <<grant, pendingLink, lineup, certOp, provider, link, dropped, bplan, bspent, bfaults>>

-----------------------------------------------------------------------------
(* A lineage is what a code begins: the tokens that descend from it.        *)
Lineages == 0..MaxLinks

NoToken == <<>>

Missing == [state |-> "missing", access |-> NoToken, renew |-> NoToken, fresh |-> FALSE]

Granted(access, renew) == [state |-> "authorized", access |-> access, renew |-> renew, fresh |-> TRUE]

NoLink == [link |-> 0, fresh |-> FALSE]

NewOp == [at |-> "new", token |-> NoToken, refused |-> NoToken, out |-> "none"]

BrokerInit ==
  /\ bplan \in BrokerPlans
  /\ grant = IF bplan.connected THEN Granted(<<0, 1>>, <<0, 1>>) ELSE Missing
  /\ pendingLink = NoLink /\ lineup = <<>> /\ dropped = {} /\ bfaults = {}
  /\ certOp = [o \in CertOps |-> NewOp]
  /\ provider = [serial |-> [l \in Lineages |-> IF l = 0 /\ bplan.connected THEN 1 ELSE 0], dead |-> {},
                 live |-> IF bplan.connected THEN {<<0, 1>>} ELSE {}, due |-> {}, codes |-> {}]
  /\ link = [n \in 1..MaxLinks |-> "none"]
  /\ bspent = [links |-> 0, disconnects |-> 0, ages |-> 0]

BrokerFault(kind) == kind \in bplan.faults \ bfaults /\ bfaults' = bfaults \cup {kind}

-----------------------------------------------------------------------------
(* accessToken: the stored token while it is good for another minute, or    *)
(* else the outcome of the refresh under way, which the first to need it    *)
(* puts in the queue.                                                       *)

Refreshing == \E i \in 1..Len(lineup) : lineup[i].kind = "refresh"

MutexJob(kind, mode, code) ==
  [kind |-> kind, mode |-> mode, code |-> code, at |-> "queued", renew |-> NoToken, access |-> NoToken, answer |-> "none"]

OpEnds(op, out) == [op EXCEPT !.at = "done", !.token = NoToken, !.out = out]

OpCalls(op, token) == [op EXCEPT !.at = "calling", !.token = token]

Usable(mode) == mode = "cached" /\ grant.fresh

AccessToken(o, op, mode) ==
  \/ /\ grant.state # "authorized"
     /\ certOp' = [certOp EXCEPT ![o] = OpEnds(op, grant.state)] /\ UNCHANGED lineup
  \/ /\ grant.state = "authorized" /\ Usable(mode)
     /\ certOp' = [certOp EXCEPT ![o] = OpCalls(op, grant.access)] /\ UNCHANGED lineup
  \/ /\ grant.state = "authorized" /\ ~Usable(mode)
     /\ certOp' = [certOp EXCEPT ![o] = [op EXCEPT !.at = "waiting", !.token = NoToken]]
     /\ lineup' = IF Refreshing THEN lineup ELSE Append(lineup, MutexJob("refresh", mode, 0))

(* cloudflareClientCertificateRequest *)
OpBegins(o) ==
  /\ certOp[o].at = "new" /\ AccessToken(o, certOp[o], "cached")
  /\ UNCHANGED <<grant, pendingLink, provider, link, dropped, bplan, bspent, bfaults>>

(* The CA takes any token that has neither expired nor been revoked.        *)
CaAnswers(o) ==
  /\ certOp[o].at = "calling"
  /\ certOp' = [certOp EXCEPT ![o].at = IF certOp[o].token \in provider.live THEN "accepted" ELSE "turned down"]
  /\ UNCHANGED <<grant, pendingLink, lineup, provider, link, dropped, bplan, bspent, bfaults>>

(* clientCertificate: one more try, with a token made for it.               *)
OpGoesOn(o) ==
  /\ \/ certOp[o].at = "accepted" /\ certOp' = [certOp EXCEPT ![o] = OpEnds(@, "served")] /\ UNCHANGED lineup
     \/ /\ certOp[o].at = "turned down" /\ certOp[o].refused # NoToken
        /\ certOp' = [certOp EXCEPT ![o] = OpEnds(@, "refused")] /\ UNCHANGED lineup
     \/ /\ certOp[o].at = "turned down" /\ certOp[o].refused = NoToken
        /\ AccessToken(o, [certOp[o] EXCEPT !.refused = certOp[o].token], "force_refresh")
  /\ UNCHANGED <<grant, pendingLink, provider, link, dropped, bplan, bspent, bfaults>>

-----------------------------------------------------------------------------
(* The mutex of the grant.                                                  *)

(* Mutant: a change of the grant does not wait for the one before it. *)
HoldersAll == 1..Len(lineup)

(* withGrantMutation *)
Holders == IF lineup = <<>> THEN {} ELSE {1}

JobLeaves(i) == lineup' = [j \in 1..(Len(lineup) - 1) |-> IF j < i THEN lineup[j] ELSE lineup[j + 1]]

(* What became of a refresh is what becomes of all who wait for it.         *)
RefreshGives(token) ==
  certOp' = [o \in CertOps |-> IF certOp[o].at = "waiting" THEN OpCalls(certOp[o], token) ELSE certOp[o]]

RefreshFails(reason) ==
  certOp' = [o \in CertOps |-> IF certOp[o].at = "waiting" THEN OpEnds(certOp[o], reason) ELSE certOp[o]]

(* The job has the mutex: it reads the grant again and calls the provider,  *)
(* if there is still something to do.                                       *)
JobBegins(i) ==
  /\ i \in Holders /\ lineup[i].at = "queued"
  /\ \/ /\ lineup[i].kind = "refresh" /\ grant.state # "authorized"
        /\ RefreshFails(grant.state) /\ JobLeaves(i)
     \/ /\ lineup[i].kind = "refresh" /\ grant.state = "authorized" /\ Usable(lineup[i].mode)
        /\ RefreshGives(grant.access) /\ JobLeaves(i)
     \/ /\ lineup[i].kind = "disconnect" /\ grant.state = "missing"
        /\ JobLeaves(i) /\ UNCHANGED certOp
     \/ /\ \/ lineup[i].kind = "refresh" /\ grant.state = "authorized" /\ ~Usable(lineup[i].mode)
           \/ lineup[i].kind = "disconnect" /\ grant.state # "missing"
           \/ lineup[i].kind = "exchange"
        /\ lineup' = [lineup EXCEPT ![i].at = "sent", ![i].renew = grant.renew] /\ UNCHANGED certOp
  /\ UNCHANGED <<grant, pendingLink, provider, link, dropped, bplan, bspent, bfaults>>

-----------------------------------------------------------------------------
(* The provider.                                                            *)

(* A rotated refresh token is good once.                                    *)
Honoured(renew) ==
  renew[1] \notin provider.dead /\ (bplan.rotating => renew[2] = provider.serial[renew[1]])

(* What a lineage was given is good no longer.                              *)
Withdrawn(l) == [provider EXCEPT !.dead = @ \cup {l}, !.live = {t \in @ : t[1] # l}]

Issued(l) == <<l, provider.serial[l] + 1>>

Issuing(l) == [provider EXCEPT !.serial[l] = @ + 1, !.live = @ \cup {Issued(l)}]

(* A job is granted what it asks for, and revoking a stale token succeeds.  *)
Grantable(job) == IF job.kind = "exchange" THEN job.code \in provider.codes
                  ELSE job.kind = "disconnect" \/ Honoured(job.renew)

ProviderDoes(job) ==
  provider' =
    CASE job.kind = "exchange" /\ Grantable(job) -> [Issuing(job.code) EXCEPT !.codes = @ \ {job.code}]
      [] job.kind = "refresh" /\ Grantable(job) -> Issuing(job.renew[1])
      [] job.kind = "disconnect" /\ Honoured(job.renew) -> Withdrawn(job.renew[1])
      [] OTHER -> provider

(* The tokens of the answer: without a refresh token the old one stays.     *)
Answered(job) ==
  LET l == IF job.kind = "exchange" THEN job.code ELSE job.renew[1]
  IN  [job EXCEPT !.at = "answered",
         !.answer = IF Grantable(job) THEN "granted" ELSE IF job.kind = "refresh" THEN "invalid_grant" ELSE "failed",
         !.access = IF Grantable(job) /\ job.kind # "disconnect" THEN Issued(l) ELSE NoToken,
         !.renew = IF Grantable(job) /\ (job.kind = "exchange" \/ (job.kind = "refresh" /\ bplan.rotating))
                     THEN Issued(l) ELSE @]

Failed(job) == [job EXCEPT !.at = "answered", !.answer = "failed"]

ProviderAnswers(i) ==
  /\ i \in Holders /\ lineup[i].at = "sent"
  /\ \/ /\ ProviderDoes(lineup[i]) /\ UNCHANGED bfaults
        /\ lineup' = [lineup EXCEPT ![i] = Answered(lineup[i])]
     \/ /\ BrokerFault("lost") /\ ProviderDoes(lineup[i])
        /\ lineup' = [lineup EXCEPT ![i] = Failed(lineup[i])]
     \/ /\ BrokerFault("narrow") /\ lineup[i].kind # "disconnect" /\ ProviderDoes(lineup[i])
        /\ lineup' = [lineup EXCEPT ![i] = Failed(lineup[i])]
     \/ /\ BrokerFault("outage") /\ UNCHANGED provider
        /\ lineup' = [lineup EXCEPT ![i] = Failed(lineup[i])]
  /\ UNCHANGED <<grant, pendingLink, certOp, link, dropped, bplan, bspent>>

-----------------------------------------------------------------------------
(* What the object makes of the answer: refresh, callback and disconnect.   *)

GrantBy(job) ==
  IF job.kind = "disconnect" THEN Missing
  ELSE IF job.answer = "granted" THEN Granted(job.access, job.renew)
  ELSE [state |-> "reauthorization_required", access |-> NoToken, renew |-> job.renew, fresh |-> FALSE]

JobEnds(i) ==
  /\ i \in Holders /\ lineup[i].at = "answered"
  /\ LET job == lineup[i]
     IN  /\ grant' = IF job.answer = "failed" THEN grant ELSE GrantBy(job)
         /\ dropped' = IF job.kind = "disconnect" /\ job.answer = "granted" THEN dropped \cup {job.renew[1]} ELSE dropped
         /\ IF job.kind # "refresh" THEN UNCHANGED certOp
            ELSE IF job.answer = "granted" THEN RefreshGives(job.access)
            ELSE RefreshFails(IF job.answer = "invalid_grant" THEN "reauthorization_required" ELSE "refresh_failed")
         /\ JobLeaves(i)
  /\ UNCHANGED <<pendingLink, provider, link, bplan, bspent, bfaults>>

-----------------------------------------------------------------------------
(* The person.                                                              *)

(* authorize: the latest link is the one that counts.                       *)
Authorize ==
  /\ bspent.links < bplan.links
  /\ LET n == bspent.links + 1
     IN  /\ pendingLink' = [link |-> n, fresh |-> TRUE]
         /\ link' = [link EXCEPT ![n] = "open"]
         /\ bspent' = [bspent EXCEPT !.links = n]
  /\ UNCHANGED <<grant, lineup, certOp, provider, dropped, bplan, bfaults>>

Consent(n) ==
  /\ link[n] = "open"
  /\ \/ link' = [link EXCEPT ![n] = "consented"] /\ provider' = [provider EXCEPT !.codes = @ \cup {n}]
     \/ link' = [link EXCEPT ![n] = "denied"] /\ UNCHANGED provider
  /\ UNCHANGED <<grant, pendingLink, lineup, certOp, dropped, bplan, bspent, bfaults>>

(* callback: the person comes back, and perhaps comes back once more.  Only *)
(* the link that is waiting is taken, and only once.                        *)
Callback(n) ==
  /\ link[n] \in {"consented", "denied"} /\ pendingLink.link # 0
  /\ ~pendingLink.fresh \/ pendingLink.link = n
  /\ pendingLink' = NoLink
  /\ lineup' = IF ~pendingLink.fresh \/ link[n] = "denied" THEN lineup
               ELSE Append(lineup, MutexJob("exchange", "cached", n))
  /\ UNCHANGED <<grant, certOp, provider, link, dropped, bplan, bspent, bfaults>>

(* disconnect *)
Disconnect ==
  /\ bspent.disconnects < bplan.disconnects
  /\ bspent' = [bspent EXCEPT !.disconnects = @ + 1]
  /\ lineup' = Append(lineup, MutexJob("disconnect", "cached", 0))
  /\ UNCHANGED <<grant, pendingLink, certOp, provider, link, dropped, bplan, bfaults>>

-----------------------------------------------------------------------------
(* Time, and what goes wrong.                                               *)

(* The stored token comes within a minute of its end, as those before it    *)
(* have, or an authorization past its five.                                 *)
TokenAges ==
  /\ grant.fresh /\ bspent.ages < bplan.ages
  /\ grant' = [grant EXCEPT !.fresh = FALSE] /\ bspent' = [bspent EXCEPT !.ages = @ + 1]
  /\ provider' = [provider EXCEPT !.due = provider.live \ {lineup[i].access : i \in 1..Len(lineup)}]
  /\ UNCHANGED <<pendingLink, lineup, certOp, link, dropped, bplan, bfaults>>

LinkAges ==
  /\ pendingLink.fresh /\ bspent.ages < bplan.ages
  /\ pendingLink' = [pendingLink EXCEPT !.fresh = FALSE] /\ bspent' = [bspent EXCEPT !.ages = @ + 1]
  /\ UNCHANGED <<grant, lineup, certOp, provider, link, dropped, bplan, bfaults>>

TokenEnds(token) ==
  /\ token \in provider.live \cap provider.due
  /\ provider' = [provider EXCEPT !.live = @ \ {token}]
  /\ UNCHANGED <<grant, pendingLink, lineup, certOp, link, dropped, bplan, bspent, bfaults>>

Refuse ==
  /\ BrokerFault("refuse") /\ grant.fresh
  /\ provider' = [provider EXCEPT !.live = @ \ {grant.access}]
  /\ UNCHANGED <<grant, pendingLink, lineup, certOp, link, dropped, bplan, bspent>>

WithdrawGrant ==
  /\ BrokerFault("withdraw") /\ grant.state = "authorized"
  /\ provider' = Withdrawn(grant.renew[1])
  /\ UNCHANGED <<grant, pendingLink, lineup, certOp, link, dropped, bplan, bspent>>

(* The object dies: what it had promised is never answered.                 *)
Evict ==
  /\ BrokerFault("evict")
  /\ lineup' = <<>>
  /\ certOp' = [o \in CertOps |-> IF certOp[o].at \in {"new", "done"} THEN certOp[o] ELSE OpEnds(certOp[o], "gone")]
  /\ UNCHANGED <<grant, pendingLink, provider, link, dropped, bplan, bspent>>

-----------------------------------------------------------------------------
MutexStep == \E i \in 1..Len(lineup) : JobBegins(i) \/ ProviderAnswers(i) \/ JobEnds(i)

OpStep == \E o \in CertOps : OpBegins(o) \/ CaAnswers(o) \/ OpGoesOn(o)

BrokerNext ==
  \/ MutexStep \/ OpStep
  \/ Authorize \/ Disconnect \/ TokenAges \/ LinkAges \/ Refuse \/ WithdrawGrant \/ Evict
  \/ \E n \in 1..MaxLinks : Consent(n) \/ Callback(n)
  \/ \E token \in provider.live : TokenEnds(token)

BrokerSpec == BrokerInit /\ [][BrokerNext]_brokerVars /\ WF_brokerVars(MutexStep) /\ WF_brokerVars(OpStep)

-----------------------------------------------------------------------------
BrokerTokens == Lineages \X Nat

(* The grant is whole: a token for now and one for later, or neither.       *)
BrokerTypeOK ==
  /\ grant.state \in {"missing", "authorized", "reauthorization_required"} /\ grant.fresh \in BOOLEAN
  /\ (grant.access \in BrokerTokens) <=> (grant.state = "authorized")
  /\ (grant.renew \in BrokerTokens) <=> (grant.state # "missing")
  /\ grant.fresh => grant.state = "authorized"
  /\ pendingLink.link \in 0..MaxLinks
  /\ Cardinality({i \in 1..Len(lineup) : lineup[i].kind = "refresh"}) <= 1
  /\ \A o \in CertOps : (certOp[o].at = "waiting") => Refreshing
  /\ \A o \in CertOps : (certOp[o].token = NoToken) <=> certOp[o].at \in {"new", "waiting", "done"}

BStruck(kinds) == bfaults \cap kinds # {}

(* Nobody is asked to connect again without need: a grant is declared void  *)
(* only when the person withdrew it, an answer that rotated or revoked it   *)
(* never reached the broker, or lacked the scope.                           *)
ReauthorizationIsEarned ==
  grant.state = "reauthorization_required" =>
    BStruck({"withdraw"}) \/ (BStruck({"lost", "evict", "narrow"}) /\ (bplan.rotating \/ bplan.disconnects > 0))

(* A disconnection stands: no refresh that was under way brings the grant   *)
(* back, and the provider honours none of its tokens, unless the broker had *)
(* missed the last of them.                                                 *)
DisconnectIsFinal ==
  /\ grant.state # "missing" => grant.renew[1] \notin dropped
  /\ ~BStruck({"lost", "evict", "narrow"}) => dropped \subseteq provider.dead

(* While the grant stands, the retry covers a token that ends on its way:   *)
(* a request is served.                                                     *)
GrantServes ==
  bplan.connected /\ bplan.disconnects = 0 /\ bfaults \subseteq {"refuse"} /\ bspent.ages + Cardinality(bfaults) <= 1 =>
    \A o \in CertOps : certOp[o].at = "done" => certOp[o].out = "served"

BrokerIsTrue == ReauthorizationIsEarned /\ DisconnectIsFinal /\ GrantServes

(* The grant has the shape that its handlers keep, and what a disconnection *)
(* and a refresh promise holds (cloudflare-oauth.ts).                       *)
BrokerIsSound == BrokerTypeOK /\ BrokerIsTrue

(* Every request is answered.                                               *)
OpsAreOver == \A o \in CertOps : certOp[o].at \in {"new", "done"}
=============================================================================
