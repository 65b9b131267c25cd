------------------------------ MODULE Passkeys ------------------------------
(***************************************************************************)
(* How a person and a person's tools get in: passkeys and the viewer's     *)
(* session (hub/src/auth/webauthn.ts, session.ts), and the read grants a   *)
(* person approves with a passkey for the command line client              *)
(* (hub/src/auth/read-grants.ts, client/src/agent_sessions_client).        *)
(*                                                                         *)
(* A ceremony asks for a challenge, has a device sign it, and presents the *)
(* signature, perhaps twice.  A request that presents one makes several    *)
(* calls to D1, each of which is an action.  A grant's ceremony leaves a   *)
(* code that the client, which listens for it, exchanges for a token and   *)
(* caches.  Devices, the browser and the person are external.              *)
(***************************************************************************)
EXTENDS Integers, Sequences, FiniteSets

CONSTANTS Devices,     \* authenticators
          Mints,       \* runs of the client's auth command
          KeyPlans     \* bound: enrolled devices, ceremonies, and faults of a behaviour

KeyFaults == {"twice",   \* a signature is presented again
              "slow",    \* a challenge or a code runs out
              "die",     \* a request dies between two of its calls
              "lost"}    \* the client never gets the token

(* A behaviour enrolls a device at most once: another passkey of the same   *)
(* authenticator is another member of Devices.                              *)
ASSUME KeyAssumption ==
  \A pl \in KeyPlans :
    /\ pl \in [enrolled : SUBSET Devices, counting : BOOLEAN, signsOut : BOOLEAN, ages : BOOLEAN,
               revokes : BOOLEAN, faults : SUBSET KeyFaults,
               ceremonies : Seq([kind : {"register", "auth", "grant"}, device : Devices, mint : Mints])]
    /\ \A i, j \in DOMAIN pl.ceremonies :
         /\ pl.ceremonies[i].kind = "register" /\ pl.ceremonies[j].kind = "register"
         /\ pl.ceremonies[i].device = pl.ceremonies[j].device
         => i = j

VARIABLES counters,   \* credentials: the stored counter of an enrolled device
          challenges, \* ceremonies whose challenge can be consumed
          ceremony,   \* ceremonies, as the browser sees them
          signed,     \* signatures each device has made
          present,    \* requests that present a signature
          signedIn,   \* the browser has a session
          codes,      \* read_grant_codes: ceremonies whose code can be exchanged
          readGrants, \* read_grants
          mint,       \* runs of the client
          cached,     \* the token in the client's cache
          unattended, \* history: devices enrolled without a session
          kplan,      \* the behaviour's plan: each of its faults may strike once
          kfaults     \* faults that have struck

hubKeyVars == <<counters, challenges, signedIn, codes, readGrants>>
clientKeyVars == <<mint, cached>>
keyVars == <<hubKeyVars, clientKeyVars, ceremony, signed, present, unattended, kplan, kfaults>>

-----------------------------------------------------------------------------
NotEnrolled == -1
NoGrant == 0

Ceremonies == DOMAIN kplan.ceremonies

Kind(i) == kplan.ceremonies[i].kind
DeviceOf(i) == kplan.ceremonies[i].device
MintOf(i) == kplan.ceremonies[i].mint

Presents == Ceremonies \X {1, 2}

IdlePresent == [at |-> "none", authorized |-> FALSE, seen |-> 0]

KeyInit ==
  /\ kplan \in KeyPlans
  /\ counters = [d \in Devices |-> IF d \in kplan.enrolled THEN 0 ELSE NotEnrolled]
  /\ ceremony = [i \in Ceremonies |-> [at |-> "idle", count |-> 0]]
  /\ signed = [d \in Devices |-> 0]
  /\ present = [p \in Presents |-> IdlePresent]
  /\ signedIn = (kplan.enrolled # {})
  /\ mint = [m \in Mints |-> [at |-> "idle", code |-> NoGrant]]
  /\ challenges = {} /\ codes = {} /\ readGrants = {} /\ cached = NoGrant
  /\ unattended = {} /\ kfaults = {}

KeyFault(kind) == kind \in kplan.faults \ kfaults /\ kfaults' = kfaults \cup {kind}

Enrolled == {d \in Devices : counters[d] # NotEnrolled}

-----------------------------------------------------------------------------
(* The options of a ceremony.                                               *)

(* authorizeRegistration: the setup token until there is a passkey.         *)
MayEnroll == Enrolled = {} \/ signedIn

(* registerOptions: a device is not enrolled twice.                         *)
MayRegister(i) == Kind(i) = "register" /\ MayEnroll /\ DeviceOf(i) \notin Enrolled

(* authOptions *)
MaySignIn(i) == Kind(i) = "auth" /\ DeviceOf(i) \in Enrolled

(* freshAuthenticationOptions, on the page a client has opened.             *)
MayApprove(i) == Kind(i) = "grant" /\ DeviceOf(i) \in Enrolled /\ mint[MintOf(i)].at # "idle"

(* storeChallenge *)
Offer(i) ==
  /\ ceremony[i].at = "idle"
  /\ MayRegister(i) \/ MaySignIn(i) \/ MayApprove(i)
  /\ ceremony' = [ceremony EXCEPT ![i].at = "offered"]
  /\ challenges' = challenges \cup {i}
  /\ UNCHANGED <<counters, signedIn, codes, readGrants, clientKeyVars, signed, present, unattended, kplan, kfaults>>

(* A device counts what it signs, or never counts.                          *)
SignChallenge(i) ==
  /\ ceremony[i].at = "offered"
  /\ signed' = IF kplan.counting THEN [signed EXCEPT ![DeviceOf(i)] = @ + 1] ELSE signed
  /\ ceremony' = [ceremony EXCEPT ![i] = [at |-> "signed", count |-> signed'[DeviceOf(i)]]]
  /\ present' = [present EXCEPT ![<<i, 1>>].at = "sent"]
  /\ UNCHANGED <<hubKeyVars, clientKeyVars, unattended, kplan, kfaults>>

PresentAgain(i) ==
  /\ ceremony[i].at = "signed" /\ present[<<i, 2>>].at = "none" /\ KeyFault("twice")
  /\ present' = [present EXCEPT ![<<i, 2>>].at = "sent"]
  /\ UNCHANGED <<hubKeyVars, clientKeyVars, ceremony, signed, unattended, kplan>>

ChallengeEnds(i) ==
  /\ i \in challenges /\ KeyFault("slow") /\ challenges' = challenges \ {i}
  /\ UNCHANGED <<counters, signedIn, codes, readGrants, clientKeyVars, ceremony, signed, present, unattended, kplan>>

-----------------------------------------------------------------------------
(* A signature is presented: registerVerify, authVerify, /grant/verify.     *)

PresentGoes(p, at) == present' = [present EXCEPT ![p].at = at]

ReadsSession(p) ==
  /\ present[p].at = "sent" /\ Kind(p[1]) = "register"
  /\ present' = [present EXCEPT ![p].at = "identified", ![p].authorized = signedIn]
  /\ UNCHANGED <<hubKeyVars, clientKeyVars, ceremony, signed, unattended, kplan, kfaults>>

(* Mutant: the challenge is looked up and pruned when it has expired. *)
LeftAfterLookup(i) == challenges

(* consumeChallenge: a conditional DELETE.                                  *)
LeftAfter(i) == challenges \ {i}

Consumes(p) ==
  /\ present[p].at = IF Kind(p[1]) = "register" THEN "identified" ELSE "sent"
  /\ PresentGoes(p, IF p[1] \in challenges THEN "consumed" ELSE "refused")
  /\ challenges' = LeftAfter(p[1])
  /\ UNCHANGED <<counters, signedIn, codes, readGrants, clientKeyVars, ceremony, signed, unattended, kplan, kfaults>>

(* With a session any passkey may be added, without one only the first.     *)
Enrollable(p) == present[p].authorized \/ Enrolled = {}

Enroll(p) ==
  /\ present[p].at = "consumed" /\ Kind(p[1]) = "register"
  /\ PresentGoes(p, IF Enrollable(p) THEN "verified" ELSE "refused")
  /\ counters' = IF Enrollable(p) THEN [counters EXCEPT ![DeviceOf(p[1])] = ceremony[p[1]].count] ELSE counters
  /\ unattended' = IF Enrollable(p) /\ ~present[p].authorized THEN unattended \cup {DeviceOf(p[1])} ELSE unattended
  /\ UNCHANGED <<challenges, signedIn, codes, readGrants, clientKeyVars, ceremony, signed, kplan, kfaults>>

ReadsCredential(p) ==
  /\ present[p].at = "consumed" /\ Kind(p[1]) # "register"
  /\ present' = [present EXCEPT ![p].at = "read", ![p].seen = counters[DeviceOf(p[1])]]
  /\ UNCHANGED <<hubKeyVars, clientKeyVars, ceremony, signed, unattended, kplan, kfaults>>

(* The verifier turns down a counter that has not risen, unless there is    *)
(* none.                                                                    *)
Verified(p) == ceremony[p[1]].count > present[p].seen \/ (ceremony[p[1]].count = 0 /\ present[p].seen = 0)

(* Mutant: the counter is written as it comes. *)
CounterAfterAny(d, count) == count

(* Of two that were verified at once the lower counter does not win.        *)
CounterAfter(d, count) == IF counters[d] < count THEN count ELSE counters[d]

StampsCounter(p) ==
  /\ present[p].at = "read"
  /\ LET d == DeviceOf(p[1])
     IN  /\ PresentGoes(p, IF Verified(p) THEN "stamped" ELSE "refused")
         /\ counters' = IF Verified(p) THEN [counters EXCEPT ![d] = CounterAfter(d, ceremony[p[1]].count)] ELSE counters
  /\ UNCHANGED <<challenges, signedIn, codes, readGrants, clientKeyVars, ceremony, signed, unattended, kplan, kfaults>>

(* createSession *)
SignsIn(p) ==
  /\ present[p].at = "stamped" /\ Kind(p[1]) = "auth"
  /\ PresentGoes(p, "verified") /\ signedIn' = TRUE
  /\ UNCHANGED <<counters, challenges, codes, readGrants, clientKeyVars, ceremony, signed, unattended, kplan, kfaults>>

WritesCode(p) ==
  /\ present[p].at = "stamped" /\ Kind(p[1]) = "grant"
  /\ PresentGoes(p, "coded") /\ codes' = codes \cup {p[1]}
  /\ UNCHANGED <<counters, challenges, signedIn, readGrants, clientKeyVars, ceremony, signed, unattended, kplan, kfaults>>

PresentDies(p) ==
  /\ present[p].at \in {"identified", "consumed", "read", "stamped"} /\ KeyFault("die")
  /\ PresentGoes(p, "dead")
  /\ UNCHANGED <<hubKeyVars, clientKeyVars, ceremony, signed, unattended, kplan>>

(* destroySession *)
SignOut ==
  /\ signedIn /\ kplan.signsOut /\ signedIn' = FALSE
  /\ UNCHANGED <<counters, challenges, codes, readGrants, clientKeyVars, ceremony, signed, present, unattended, kplan, kfaults>>

-----------------------------------------------------------------------------
(* The client's auth command: mint_grant and save_grant.                    *)

MintGoes(m, at) == mint' = [mint EXCEPT ![m].at = at]

Listens(m) ==
  /\ mint[m].at = "idle" /\ MintGoes(m, "listening")
  /\ UNCHANGED <<hubKeyVars, cached, ceremony, signed, present, unattended, kplan, kfaults>>

(* The browser goes to the loopback address, where the client may listen.   *)
Delivers(p) ==
  /\ present[p].at = "coded" /\ PresentGoes(p, "verified")
  /\ LET m == MintOf(p[1])
     IN  mint' = IF mint[m].at = "listening" THEN [mint EXCEPT ![m] = [at |-> "coded", code |-> p[1]]] ELSE mint
  /\ UNCHANGED <<hubKeyVars, cached, ceremony, signed, unattended, kplan, kfaults>>

Denies(m) ==
  /\ mint[m].at = "listening" /\ MintGoes(m, "failed")
  /\ UNCHANGED <<hubKeyVars, cached, ceremony, signed, present, unattended, kplan, kfaults>>

CodeEnds(i) ==
  /\ i \in codes /\ KeyFault("slow") /\ codes' = codes \ {i}
  /\ UNCHANGED <<counters, challenges, signedIn, readGrants, clientKeyVars, ceremony, signed, present, unattended, kplan>>

(* readGrantApiRoute: the code is deleted, and then there is a grant.       *)
Redeems(m) ==
  /\ mint[m].at = "coded"
  /\ MintGoes(m, IF mint[m].code \in codes THEN "redeemed" ELSE "failed")
  /\ codes' = codes \ {mint[m].code}
  /\ UNCHANGED <<counters, challenges, signedIn, readGrants, cached, ceremony, signed, present, unattended, kplan, kfaults>>

ReadGrant(i) == [id |-> i, mint |-> MintOf(i), life |-> "fresh", revoked |-> FALSE]

Issues(m) ==
  /\ mint[m].at = "redeemed"
  /\ \/ readGrants' = readGrants \cup {ReadGrant(mint[m].code)} /\ MintGoes(m, "granted") /\ UNCHANGED kfaults
     \/ readGrants' = readGrants \cup {ReadGrant(mint[m].code)} /\ MintGoes(m, "failed") /\ KeyFault("lost")
     \/ UNCHANGED readGrants /\ MintGoes(m, "failed") /\ KeyFault("die")
  /\ UNCHANGED <<counters, challenges, signedIn, codes, cached, ceremony, signed, present, unattended, kplan>>

Saves(m) ==
  /\ mint[m].at = "granted" /\ MintGoes(m, "saved") /\ cached' = mint[m].code
  /\ UNCHANGED <<hubKeyVars, ceremony, signed, present, unattended, kplan, kfaults>>

-----------------------------------------------------------------------------
(* The life of a grant.                                                     *)

Changed(g, new) == readGrants' = (readGrants \ {g}) \cup {new}

(* It expires, whatever the client is about.                                *)
GrantAges(g) ==
  /\ kplan.ages /\ g.life = "fresh" /\ Changed(g, [g EXCEPT !.life = "over"])
  /\ UNCHANGED <<counters, challenges, signedIn, codes, clientKeyVars, ceremony, signed, present, unattended, kplan, kfaults>>

(* settingsPage *)
Listed(g) == ~g.revoked /\ g.life # "over"

(* A person who is signed in revokes one of those the settings list.        *)
RevokeGrant(g) ==
  /\ kplan.revokes /\ signedIn /\ Listed(g) /\ Changed(g, [g EXCEPT !.revoked = TRUE])
  /\ UNCHANGED <<counters, challenges, signedIn, codes, clientKeyVars, ceremony, signed, present, unattended, kplan, kfaults>>

-----------------------------------------------------------------------------
PresentStep ==
  \E p \in Presents :
    \/ ReadsSession(p) \/ Consumes(p) \/ Enroll(p) \/ ReadsCredential(p) \/ StampsCounter(p)
    \/ SignsIn(p) \/ WritesCode(p) \/ Delivers(p)

(* The client's deadline comes, whether the person answers or not.          *)
MintStep == \E m \in Mints : Denies(m) \/ Redeems(m) \/ Issues(m) \/ Saves(m)

KeyNext ==
  \/ PresentStep \/ MintStep \/ SignOut
  \/ \E i \in Ceremonies : Offer(i) \/ SignChallenge(i) \/ PresentAgain(i) \/ ChallengeEnds(i) \/ CodeEnds(i)
  \/ \E p \in Presents : PresentDies(p)
  \/ \E m \in Mints : Listens(m)
  \/ \E g \in readGrants : GrantAges(g) \/ RevokeGrant(g)

KeySpec == KeyInit /\ [][KeyNext]_keyVars /\ WF_keyVars(PresentStep) /\ WF_keyVars(MintStep)

-----------------------------------------------------------------------------
(* Rows, codes and challenges belong to ceremonies that got that far.       *)
KeyTypeOK ==
  /\ counters \in [Devices -> {NotEnrolled} \cup 0..Len(kplan.ceremonies)]
  /\ challenges \subseteq {i \in Ceremonies : ceremony[i].at # "idle"}
  /\ \A i \in codes : Kind(i) = "grant" /\ i \notin challenges
  /\ \A d \in Enrolled : counters[d] <= signed[d]
  /\ cached # NoGrant => \E g \in readGrants : g.id = cached
  /\ \A m \in Mints : mint[m].at \in {"granted", "saved"} => \E g \in readGrants : g.id = mint[m].code

(* The setup token enrolls one passkey, whatever ceremonies were begun      *)
(* while there was none.                                                    *)
SetupIsOnce == Cardinality(unattended) <= 1

(* What one touch of a passkey approves is used once: however often its     *)
(* signature or its code is presented, one session, one code or one grant   *)
(* comes of it, and the grant is the client's that asked.                   *)
TouchIsOnce ==
  /\ \A i \in Ceremonies :
       Cardinality({p \in Presents : p[1] = i /\ present[p].at \in {"consumed", "read", "stamped", "coded", "verified"}}) <= 1
  /\ \A g \in readGrants : g.id \notin codes /\ \A h \in readGrants : g.id = h.id => g = h
  /\ \A m \in Mints : Cardinality({g \in readGrants : g.mint = m /\ ~g.revoked}) <= 1

(* The counter kept for a passkey never falls, though two tabs sign in at   *)
(* once and their requests overtake one another.                            *)
CountersRise == [][\A d \in Devices : counters'[d] >= counters[d]]_keyVars

(* The auth command ends.                                                   *)
MintsAreOver == \A m \in Mints : mint[m].at \in {"idle", "saved", "failed"}

KeysAreTrue == SetupIsOnce /\ TouchIsOnce

(* Rows, codes and challenges are where their handlers leave them, and what *)
(* a setup and a touch of a passkey promise holds (webauthn.ts,             *)
(* read-grants.ts).                                                         *)
KeysAreSound == KeyTypeOK /\ KeysAreTrue
=============================================================================
