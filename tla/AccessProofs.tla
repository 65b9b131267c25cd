---------------------------- MODULE AccessProofs ----------------------------
(* Proofs about how people and machines get in: Passkeys and Broker, for    *)
(* any devices, runs of the client, requests, links and plans, and          *)
(* CertRotation, for any number of certificates, concurrent renewals and    *)
(* plans.                                                                   *)
EXTENDS Passkeys, Broker, CertRotation, FiniteSetTheorems, TLAPS

-----------------------------------------------------------------------------
(* Passkeys.                                                                *)

PresentPcs == {"none", "sent", "identified", "consumed", "read", "stamped", "coded", "verified", "refused", "dead"}
MintPcs    == {"idle", "listening", "coded", "redeemed", "granted", "saved", "failed"}
Lives      == {"fresh", "over"}

GrantRows == [id : Ceremonies, mint : Mints, life : Lives, revoked : BOOLEAN]

KeyRowsTyped ==
  /\ kplan \in KeyPlans
  /\ counters \in [Devices -> {NotEnrolled} \cup Nat] /\ signed \in [Devices -> Nat]
  /\ ceremony \in [Ceremonies -> [at : {"idle", "offered", "signed"}, count : Nat]]
  /\ challenges \subseteq Ceremonies /\ codes \subseteq Ceremonies
  /\ present \in [Presents -> [at : PresentPcs, authorized : BOOLEAN, seen : {NotEnrolled} \cup Nat]]
  /\ signedIn \in BOOLEAN /\ unattended \subseteq Devices

KeyGrantsTyped ==
  /\ readGrants \subseteq GrantRows
  /\ mint \in [Mints -> [at : MintPcs, code : Ceremonies \cup {NoGrant}]]
  /\ cached \in Ceremonies \cup {NoGrant}

KeyTyped == KeyRowsTyped /\ KeyGrantsTyped

(* A signature that took its challenge, and has not failed since.           *)
Taken(p) == present[p].at \in {"consumed", "read", "stamped", "coded", "verified"}

(* A challenge is there until one signature takes it.                       *)
ChallengesAreTakenOnce ==
  /\ \A p \in Presents : present[p].at # "none" => ceremony[p[1]].at = "signed"
  /\ \A i \in challenges : ceremony[i].at # "idle" /\ \A p \in Presents : p[1] = i => ~Taken(p)
  /\ \A p, q \in Presents : p[1] = q[1] /\ Taken(p) /\ Taken(q) => p = q

SignaturesOf(d) == {i \in Ceremonies : ceremony[i].at = "signed" /\ DeviceOf(i) = d}

(* A counter never runs ahead of its device.                                *)
CountersFollow ==
  /\ \A i \in Ceremonies : ceremony[i].count <= signed[DeviceOf(i)]
  /\ \A d \in Devices : counters[d] <= signed[d] /\ signed[d] <= Cardinality(SignaturesOf(d))

(* A device is enrolled by the plan or by its one registration.             *)
EnrollmentIsOnce ==
  /\ kplan.enrolled \subseteq Enrolled
  /\ \A i \in Ceremonies : ceremony[i].at # "idle" =>
       (Kind(i) = "register" => DeviceOf(i) \notin kplan.enrolled)
  /\ \A d \in Enrolled \ kplan.enrolled :
       \E p \in Presents : Kind(p[1]) = "register" /\ DeviceOf(p[1]) = d /\ present[p].at = "verified"
  /\ \A p \in Presents : present[p].at \in {"read", "stamped"} => Kind(p[1]) # "register"
  /\ \A i \in Ceremonies : ceremony[i].at # "idle" /\ Kind(i) # "register" => DeviceOf(i) \in Enrolled
  /\ unattended \subseteq Enrolled /\ \A d, e \in unattended : d = e

(* The ceremonies that ended in a code.                                     *)
Coded(i) == \E p \in Presents : p[1] = i /\ present[p].at \in {"coded", "verified"}

GrantedTo(m) == \E g \in readGrants : g.id = mint[m].code

MintIsSound(m) ==
  /\ mint[m].at \in {"idle", "listening"} => mint[m].code = NoGrant
  /\ mint[m].at \in {"coded", "redeemed", "granted", "saved"} => mint[m].code # NoGrant
  /\ mint[m].code # NoGrant => MintOf(mint[m].code) = m /\ Coded(mint[m].code)
  /\ mint[m].at \in {"redeemed", "granted", "saved"} => mint[m].code \notin codes
  /\ mint[m].at \in {"granted", "saved"} => GrantedTo(m)

(* A code is exchanged once, by the run of the client it was made for.      *)
CodesAreSpentOnce ==
  /\ \A i \in codes : Kind(i) = "grant" /\ Coded(i)
  /\ \A p \in Presents : present[p].at = "coded" => Kind(p[1]) = "grant"
  /\ \A m \in Mints : MintIsSound(m)

GrantsAreOnce ==
  /\ \A g \in readGrants :
       /\ g.mint = MintOf(g.id) /\ mint[g.mint].code = g.id /\ g.id \notin codes
       /\ mint[g.mint].at \in {"granted", "saved", "failed"}
  /\ \A g, h \in readGrants : g.id = h.id => g = h

(* What the client caches.                                                  *)
CacheIsOfGrants == cached # NoGrant => \E g \in readGrants : g.id = cached

KeyInv ==
  /\ KeyTyped /\ ChallengesAreTakenOnce /\ CountersFollow /\ EnrollmentIsOnce
  /\ CodesAreSpentOnce /\ GrantsAreOnce /\ CacheIsOfGrants

-----------------------------------------------------------------------------
(* What the assumption says of the behaviour's plan. *)
LEMMA KeyPlanShape ==
  ASSUME kplan \in KeyPlans
  PROVE  /\ Len(kplan.ceremonies) \in Nat /\ Ceremonies = 1..Len(kplan.ceremonies)
         /\ NoGrant \notin Ceremonies
         /\ \A i \in Ceremonies : /\ Kind(i) \in {"register", "auth", "grant"}
                                  /\ DeviceOf(i) \in Devices /\ MintOf(i) \in Mints
         /\ \A i, j \in Ceremonies :
              Kind(i) = "register" /\ Kind(j) = "register" /\ DeviceOf(i) = DeviceOf(j) => i = j
         /\ kplan.enrolled \subseteq Devices
<1> DEFINE C == [kind : {"register", "auth", "grant"}, device : Devices, mint : Mints]
<1>1. kplan.ceremonies \in Seq(C) /\ kplan.enrolled \subseteq Devices
  BY KeyAssumption
<1>2. Len(kplan.ceremonies) \in Nat /\ DOMAIN kplan.ceremonies = 1..Len(kplan.ceremonies)
  BY <1>1
<1>3. \A i \in Ceremonies : kplan.ceremonies[i] \in C
  <2> HIDE DEF C
  <2> QED BY <1>1, <1>2 DEF Ceremonies
<1>4. \A i, j \in Ceremonies :
        Kind(i) = "register" /\ Kind(j) = "register" /\ DeviceOf(i) = DeviceOf(j) => i = j
  BY KeyAssumption DEF Ceremonies, Kind, DeviceOf
<1> QED BY <1>1, <1>2, <1>3, <1>4 DEF Ceremonies, Kind, DeviceOf, MintOf, NoGrant

(* The plan is chosen once. *)
LEMMA KeyPlanIsFixed ==
  ASSUME [KeyNext]_keyVars
  PROVE  kplan' = kplan
BY DEF KeyNext, PresentStep, MintStep, ReadsSession, Consumes, Enroll, ReadsCredential, StampsCounter, SignsIn,
       WritesCode, Delivers, Denies, Redeems, Issues, Saves, SignOut, Offer, SignChallenge,
       PresentAgain, ChallengeEnds, CodeEnds, PresentDies, Listens, GrantAges, RevokeGrant, keyVars, hubKeyVars, clientKeyVars

(* The steps, one by one. *)
LEMMA KeySteps ==
  ASSUME [KeyNext]_keyVars
  PROVE  \/ \E p \in Presents : \/ ReadsSession(p) \/ Consumes(p) \/ Enroll(p) \/ ReadsCredential(p) \/ StampsCounter(p)
                                \/ SignsIn(p) \/ WritesCode(p) \/ Delivers(p) \/ PresentDies(p)
         \/ \E m \in Mints : Denies(m) \/ Redeems(m) \/ Issues(m) \/ Saves(m) \/ Listens(m)
         \/ \E i \in Ceremonies : Offer(i) \/ SignChallenge(i) \/ PresentAgain(i) \/ ChallengeEnds(i) \/ CodeEnds(i)
         \/ \E g \in readGrants : GrantAges(g) \/ RevokeGrant(g)
         \/ SignOut
         \/ UNCHANGED keyVars
BY DEF KeyNext, PresentStep, MintStep

(* The three ways a step touches the state of the presents. *)
LEMMA KeyRowsTypedStep ==
  ASSUME KeyTyped, [KeyNext]_keyVars
  PROVE  KeyRowsTyped'
<1> USE DEF KeyTyped, KeyRowsTyped, hubKeyVars, clientKeyVars, PresentGoes, PresentPcs, Presents, NotEnrolled
<1>0. kplan' = kplan /\ Ceremonies' = Ceremonies
  BY KeyPlanIsFixed DEF Ceremonies
<1> HIDE DEF Presents
<1>p. Presents' = Presents
  BY <1>0 DEF Presents
<1>s. \A i \in Ceremonies : DeviceOf(i) \in Devices
  BY KeyPlanShape
<1>t. \A p \in Presents : p[1] \in Ceremonies
  BY DEF Presents
<1>1. ASSUME NEW p \in Presents, ReadsSession(p) PROVE KeyRowsTyped'
  <2>1. present' \in [Presents -> [at : PresentPcs, authorized : BOOLEAN, seen : {NotEnrolled} \cup Nat]]
    BY ZenonT(40), <1>1 DEF ReadsSession
  <2> QED BY <1>0, <1>p, <1>1, <2>1 DEF ReadsSession
<1>2. ASSUME NEW p \in Presents, Consumes(p) PROVE KeyRowsTyped'
  BY <1>0, <1>p, <1>2 DEF Consumes, LeftAfter
<1>3. ASSUME NEW p \in Presents, Enroll(p) PROVE KeyRowsTyped'
  BY <1>0, <1>p, <1>s, <1>t, <1>3 DEF Enroll
<1>4. ASSUME NEW p \in Presents, ReadsCredential(p) PROVE KeyRowsTyped'
  BY ZenonT(40), <1>0, <1>p, <1>s, <1>t, <1>4 DEF ReadsCredential
<1>5. ASSUME NEW p \in Presents, StampsCounter(p) PROVE KeyRowsTyped'
  BY <1>0, <1>p, <1>s, <1>t, <1>5 DEF StampsCounter, CounterAfter
<1>6. ASSUME NEW p \in Presents, SignsIn(p) \/ WritesCode(p) \/ Delivers(p) \/ PresentDies(p) PROVE KeyRowsTyped'
  <2>1. CASE SignsIn(p) BY <1>0, <1>p, <2>1 DEF SignsIn
  <2>2. CASE WritesCode(p) BY <1>0, <1>p, <1>t, <2>2 DEF WritesCode
  <2>3. CASE Delivers(p) BY <1>0, <1>p, <2>3 DEF Delivers
  <2>4. CASE PresentDies(p) BY <1>0, <1>p, <2>4 DEF PresentDies
  <2> QED BY <1>6, <2>1, <2>2, <2>3, <2>4
<1>7. ASSUME NEW m \in Mints, Denies(m) \/ Redeems(m) \/ Issues(m) \/ Saves(m) \/ Listens(m) PROVE KeyRowsTyped'
  BY <1>0, <1>p, <1>7 DEF Denies, Redeems, Issues, Saves, Listens
<1>8. ASSUME NEW i \in Ceremonies, Offer(i) PROVE KeyRowsTyped'
  BY <1>0, <1>p, <1>8 DEF Offer
<1>9. ASSUME NEW i \in Ceremonies, SignChallenge(i) PROVE KeyRowsTyped'
  <2>1. signed' \in [Devices -> Nat]
    BY <1>9, <1>s DEF SignChallenge
  <2>2. ceremony' \in [Ceremonies -> [at : {"idle", "offered", "signed"}, count : Nat]]
    BY <1>9, <1>s, <2>1 DEF SignChallenge
  <2>3. present' \in [Presents -> [at : PresentPcs, authorized : BOOLEAN, seen : {NotEnrolled} \cup Nat]]
    BY <1>9 DEF SignChallenge
  <2> QED BY <1>0, <1>p, <1>9, <2>1, <2>2, <2>3 DEF SignChallenge
<1>10. ASSUME NEW i \in Ceremonies, PresentAgain(i) \/ ChallengeEnds(i) \/ CodeEnds(i) PROVE KeyRowsTyped'
  <2>1. CASE PresentAgain(i)
    <3>1. present' \in [Presents -> [at : PresentPcs, authorized : BOOLEAN, seen : {NotEnrolled} \cup Nat]]
      BY <2>1 DEF PresentAgain
    <3> QED BY <1>0, <1>p, <2>1, <3>1 DEF PresentAgain
  <2>2. CASE ChallengeEnds(i) BY <1>0, <1>p, <2>2 DEF ChallengeEnds
  <2>3. CASE CodeEnds(i) BY <1>0, <1>p, <2>3 DEF CodeEnds
  <2> QED BY <1>10, <2>1, <2>2, <2>3
<1>11. ASSUME NEW g \in readGrants, GrantAges(g) \/ RevokeGrant(g) PROVE KeyRowsTyped'
  BY <1>0, <1>p, <1>11 DEF GrantAges, RevokeGrant
<1>12. ASSUME SignOut \/ UNCHANGED keyVars PROVE KeyRowsTyped'
  BY <1>0, <1>p, <1>12 DEF SignOut, keyVars
<1> QED BY KeySteps, <1>1, <1>2, <1>3, <1>4, <1>5, <1>6, <1>7, <1>8, <1>9, <1>10, <1>11, <1>12

(* Every grant there is, and every one that a step changes or adds. *)
LEMMA KeyGrantsTypedStep ==
  ASSUME KeyTyped, CodesAreSpentOnce, [KeyNext]_keyVars
  PROVE  KeyGrantsTyped'
<1> USE DEF KeyTyped, KeyGrantsTyped, hubKeyVars, clientKeyVars, MintGoes, MintPcs, Lives
<1>0. kplan' = kplan /\ Ceremonies' = Ceremonies
  BY KeyPlanIsFixed DEF Ceremonies
<1>r. GrantRows' = GrantRows
  BY <1>0 DEF GrantRows
<1>s. \A i \in Ceremonies : MintOf(i) \in Mints
  BY KeyPlanShape DEF KeyRowsTyped
<1>t. \A p \in Presents : p[1] \in Ceremonies
  BY DEF Presents
<1>1. ASSUME NEW p \in Presents, ReadsSession(p) \/ Consumes(p) \/ Enroll(p) \/ ReadsCredential(p) \/ StampsCounter(p)
                                  \/ SignsIn(p) \/ WritesCode(p) \/ PresentDies(p)
      PROVE  KeyGrantsTyped'
  BY <1>0, <1>r, <1>1 DEF ReadsSession, Consumes, Enroll, ReadsCredential, StampsCounter, SignsIn, WritesCode, PresentDies
<1>2. ASSUME NEW p \in Presents, Delivers(p) PROVE KeyGrantsTyped'
  <2>1. mint' \in [Mints -> [at : MintPcs, code : Ceremonies \cup {NoGrant}]]
    BY <1>2, <1>s, <1>t DEF Delivers
  <2> QED BY <1>0, <1>r, <1>2, <2>1 DEF Delivers
<1>3. ASSUME NEW m \in Mints, Denies(m) \/ Redeems(m) \/ Saves(m) \/ Listens(m) PROVE KeyGrantsTyped'
  <2>1. mint' \in [Mints -> [at : MintPcs, code : Ceremonies \cup {NoGrant}]]
    BY <1>3 DEF Denies, Redeems, Saves, Listens
  <2> QED BY <1>0, <1>r, <1>3, <2>1 DEF Denies, Redeems, Saves, Listens
<1>4. ASSUME NEW m \in Mints, Issues(m) PROVE KeyGrantsTyped'
  <2>1. mint' \in [Mints -> [at : MintPcs, code : Ceremonies \cup {NoGrant}]]
    BY <1>4 DEF Issues
  <2>2. mint[m].code \in Ceremonies
    BY <1>4 DEF Issues, CodesAreSpentOnce, MintIsSound
  <2>3. ReadGrant(mint[m].code) \in GrantRows
    BY <2>2, <1>s DEF ReadGrant, GrantRows
  <2> QED BY <1>0, <1>r, <1>4, <2>1, <2>3 DEF Issues
<1>5. ASSUME NEW i \in Ceremonies, Offer(i) \/ SignChallenge(i) \/ PresentAgain(i) \/ ChallengeEnds(i) \/ CodeEnds(i)
      PROVE  KeyGrantsTyped'
  BY <1>0, <1>r, <1>5 DEF Offer, SignChallenge, PresentAgain, ChallengeEnds, CodeEnds
<1>6. ASSUME NEW g \in readGrants, GrantAges(g) \/ RevokeGrant(g) PROVE KeyGrantsTyped'
  <2>g. g \in GrantRows
    BY <1>6
  <2>e. \A life \in Lives, gone \in BOOLEAN : [g EXCEPT !.life = life] \in GrantRows /\ [g EXCEPT !.revoked = gone] \in GrantRows
    BY <2>g DEF GrantRows
  <2>1. readGrants' \subseteq GrantRows
    <3>1. CASE GrantAges(g) BY <3>1, <2>e DEF GrantAges, Changed
    <3>2. CASE RevokeGrant(g) BY <3>2, <2>e DEF RevokeGrant, Changed
    <3> QED BY <1>6, <3>1, <3>2
  <2> QED BY <1>0, <1>r, <1>6, <2>1 DEF GrantAges, RevokeGrant
<1>7. ASSUME SignOut \/ UNCHANGED keyVars PROVE KeyGrantsTyped'
  BY <1>0, <1>r, <1>7 DEF SignOut, keyVars
<1> QED BY KeySteps, <1>1, <1>2, <1>3, <1>4, <1>5, <1>6, <1>7


-----------------------------------------------------------------------------
(* The presents of a ceremony. *)
LEMMA PresentsOf ==
  /\ \A i \in Ceremonies : /\ <<i, 1>> \in Presents /\ <<i, 2>> \in Presents
                           /\ <<i, 1>>[1] = i /\ <<i, 2>>[1] = i
  /\ \A p \in Presents : p[1] \in Ceremonies
  /\ \A i \in Ceremonies, p \in Presents : p[1] = i => p = <<i, 1>> \/ p = <<i, 2>>
BY DEF Presents

(* One present goes on; it takes the challenge only as it is consumed. *)
LEMMA TakenOnceFrame ==
  ASSUME KeyTyped, ChallengesAreTakenOnce, [KeyNext]_keyVars, NEW p \in Presents, NEW new \in PresentPcs \ {"none"},
         present[p].at # "none", \A q \in Presents : present'[q].at = IF q = p THEN new ELSE present[q].at,
         ceremony' = ceremony, challenges' \subseteq challenges,
         new \in {"consumed", "read", "stamped", "coded", "verified"} =>
           Taken(p) \/ (p[1] \in challenges /\ p[1] \notin challenges')
  PROVE  ChallengesAreTakenOnce'
<1>0. kplan' = kplan /\ Ceremonies' = Ceremonies /\ Presents' = Presents
  BY KeyPlanIsFixed DEF Ceremonies, Presents
<1>1. (\A q \in Presents : present[q].at # "none" => ceremony[q[1]].at = "signed")'
  BY <1>0 DEF ChallengesAreTakenOnce
<1>2. (\A i \in challenges : ceremony[i].at # "idle" /\ \A q \in Presents : q[1] = i => ~Taken(q))'
  BY <1>0 DEF ChallengesAreTakenOnce, Taken
<1>3. (\A q, r \in Presents : q[1] = r[1] /\ Taken(q) /\ Taken(r) => q = r)'
  BY <1>0 DEF ChallengesAreTakenOnce, Taken
<1> QED BY <1>1, <1>2, <1>3 DEF ChallengesAreTakenOnce

LEMMA ChallengesStep ==
  ASSUME KeyTyped, ChallengesAreTakenOnce, [KeyNext]_keyVars
  PROVE  ChallengesAreTakenOnce'
<1>0. kplan' = kplan /\ Ceremonies' = Ceremonies /\ Presents' = Presents
  BY KeyPlanIsFixed DEF Ceremonies, Presents
<1>f. present \in [Presents -> [at : PresentPcs, authorized : BOOLEAN, seen : {NotEnrolled} \cup Nat]]
  BY DEF KeyTyped, KeyRowsTyped
<1>1. ASSUME NEW p \in Presents,
             ReadsSession(p) \/ Enroll(p) \/ ReadsCredential(p) \/ StampsCounter(p)
               \/ SignsIn(p) \/ WritesCode(p) \/ Delivers(p) \/ PresentDies(p)
      PROVE  ChallengesAreTakenOnce'
  <2> DEFINE new == present'[p].at
  <2>1. ceremony' = ceremony /\ challenges' = challenges /\ present[p].at # "none"
    BY <1>1 DEF ReadsSession, Enroll, ReadsCredential, StampsCounter, SignsIn, WritesCode, Delivers, PresentDies, hubKeyVars
  <2>2. /\ new \in PresentPcs \ {"none"}
        /\ \A q \in Presents : present'[q].at = IF q = p THEN new ELSE present[q].at
    BY <1>f, <1>1 DEF ReadsSession, Enroll, ReadsCredential, StampsCounter, SignsIn, WritesCode, Delivers, PresentDies,
                      PresentGoes, PresentPcs
  <2>3. new \in {"consumed", "read", "stamped", "coded", "verified"} => Taken(p)
    BY <1>f, <1>1 DEF ReadsSession, Enroll, ReadsCredential, StampsCounter, SignsIn, WritesCode, Delivers, PresentDies,
                      PresentGoes, Taken
  <2> HIDE DEF new
  <2> QED BY <2>1, <2>2, <2>3, TakenOnceFrame
<1>2. ASSUME NEW p \in Presents, Consumes(p) PROVE ChallengesAreTakenOnce'
  <2> DEFINE new == present'[p].at
  <2>1. ceremony' = ceremony /\ challenges' = challenges \ {p[1]} /\ present[p].at # "none"
    BY <1>2 DEF Consumes, LeftAfter
  <2>2. /\ new \in PresentPcs \ {"none"} /\ (new = "consumed" \/ new = "refused")
        /\ new = "consumed" => p[1] \in challenges
        /\ \A q \in Presents : present'[q].at = IF q = p THEN new ELSE present[q].at
    BY <1>f, <1>2 DEF Consumes, PresentGoes, PresentPcs
  <2> HIDE DEF new
  <2> QED BY <2>1, <2>2, TakenOnceFrame
<1>3. ASSUME NEW i \in Ceremonies, Offer(i) PROVE ChallengesAreTakenOnce'
  BY <1>0, <1>3, PresentsOf DEF Offer, ChallengesAreTakenOnce, Taken, KeyTyped, KeyRowsTyped
<1>4. ASSUME NEW i \in Ceremonies, SignChallenge(i) PROVE ChallengesAreTakenOnce'
  <2>1. \A q \in Presents : present'[q].at = IF q = <<i, 1>> THEN "sent" ELSE present[q].at
    BY <1>f, <1>4 DEF SignChallenge
  <2>2. \A j \in Ceremonies : ceremony'[j].at = IF j = i THEN "signed" ELSE ceremony[j].at
    BY <1>4 DEF SignChallenge, KeyTyped, KeyRowsTyped
  <2>3. challenges' = challenges /\ ceremony[i].at = "offered"
    BY <1>4 DEF SignChallenge, hubKeyVars
  <2>4. \A q \in Presents : Taken(q)' <=> Taken(q)
    BY <1>0, <2>1, <2>3, PresentsOf DEF ChallengesAreTakenOnce, Taken
  <2>5. (\A q \in Presents : present[q].at # "none" => ceremony[q[1]].at = "signed")'
    BY <1>0, <2>1, <2>2, PresentsOf DEF ChallengesAreTakenOnce
  <2>6. (\A j \in challenges : ceremony[j].at # "idle" /\ \A q \in Presents : q[1] = j => ~Taken(q))'
    BY <1>0, <2>2, <2>3, <2>4 DEF ChallengesAreTakenOnce, KeyTyped, KeyRowsTyped
  <2>7. (\A q, s \in Presents : q[1] = s[1] /\ Taken(q) /\ Taken(s) => q = s)'
    BY <1>0, <2>4 DEF ChallengesAreTakenOnce
  <2> QED BY <2>5, <2>6, <2>7 DEF ChallengesAreTakenOnce
<1>5. ASSUME NEW i \in Ceremonies, PresentAgain(i) PROVE ChallengesAreTakenOnce'
  <2>1. \A q \in Presents : present'[q].at = IF q = <<i, 2>> THEN "sent" ELSE present[q].at
    BY <1>f, <1>5 DEF PresentAgain
  <2>2. ceremony' = ceremony /\ challenges' = challenges /\ ceremony[i].at = "signed"
    BY <1>5 DEF PresentAgain, hubKeyVars
  <2> QED BY <1>0, <2>1, <2>2, PresentsOf DEF ChallengesAreTakenOnce, Taken, KeyTyped, KeyRowsTyped
<1>6. ASSUME NEW i \in Ceremonies, ChallengeEnds(i) PROVE ChallengesAreTakenOnce'
  BY <1>0, <1>6 DEF ChallengeEnds, ChallengesAreTakenOnce, Taken
<1>7. ASSUME UNCHANGED <<challenges, ceremony, present>> PROVE ChallengesAreTakenOnce'
  BY <1>0, <1>7 DEF ChallengesAreTakenOnce, Taken
<1>8. ASSUME \/ \E m \in Mints : Denies(m) \/ Redeems(m) \/ Issues(m) \/ Saves(m) \/ Listens(m)
             \/ \E i \in Ceremonies : CodeEnds(i)
             \/ \E g \in readGrants : GrantAges(g) \/ RevokeGrant(g)
             \/ SignOut \/ UNCHANGED keyVars
      PROVE  UNCHANGED <<challenges, ceremony, present>>
  BY <1>8 DEF Denies, Redeems, Issues, Saves, Listens, CodeEnds, GrantAges, RevokeGrant, SignOut, keyVars, hubKeyVars, clientKeyVars
<1> QED BY KeySteps, <1>1, <1>2, <1>3, <1>4, <1>5, <1>6, <1>7, <1>8

-----------------------------------------------------------------------------
(* The ceremonies of a behaviour are finitely many. *)
LEMMA SignaturesAreFinite ==
  ASSUME KeyTyped, NEW d \in Devices
  PROVE  /\ IsFiniteSet(SignaturesOf(d)) /\ Cardinality(SignaturesOf(d)) \in Nat
         /\ Cardinality(SignaturesOf(d)) <= Len(kplan.ceremonies)
<1>1. Len(kplan.ceremonies) \in Nat /\ Ceremonies = 1..Len(kplan.ceremonies)
  BY KeyPlanShape DEF KeyTyped, KeyRowsTyped
<1>2. IsFiniteSet(Ceremonies) /\ Cardinality(Ceremonies) = Len(kplan.ceremonies)
  BY <1>1, FS_Interval
<1>3. SignaturesOf(d) \subseteq Ceremonies
  BY DEF SignaturesOf
<1> QED BY <1>1, <1>2, <1>3, FS_Subset, FS_CardinalityType

(* What counts a ceremony's signature is counted once. *)
LEMMA CountersFrame ==
  ASSUME KeyTyped, CountersFollow, kplan' = kplan, signed' = signed,
         \A i \in Ceremonies : ceremony'[i].count = ceremony[i].count /\ (ceremony'[i].at = "signed" <=> ceremony[i].at = "signed"),
         \A d \in Devices : counters'[d] = counters[d] \/ \E i \in Ceremonies : DeviceOf(i) = d /\ counters'[d] = ceremony[i].count
  PROVE  CountersFollow'
<1>1. Ceremonies' = Ceremonies /\ \A i \in Ceremonies : DeviceOf(i)' = DeviceOf(i)
  BY DEF Ceremonies, DeviceOf
<1>2. \A d \in Devices : SignaturesOf(d)' = SignaturesOf(d)
  BY <1>1 DEF SignaturesOf
<1>3. (\A i \in Ceremonies : ceremony[i].count <= signed[DeviceOf(i)])'
  BY <1>1 DEF CountersFollow
<1>4. (\A d \in Devices : counters[d] <= signed[d] /\ signed[d] <= Cardinality(SignaturesOf(d)))'
  BY <1>2 DEF CountersFollow
<1> QED BY <1>3, <1>4 DEF CountersFollow

LEMMA CountersStep ==
  ASSUME KeyTyped, CountersFollow, [KeyNext]_keyVars
  PROVE  CountersFollow'
<1>0. kplan' = kplan /\ Ceremonies' = Ceremonies /\ \A i \in Ceremonies : DeviceOf(i)' = DeviceOf(i)
  BY KeyPlanIsFixed DEF Ceremonies, DeviceOf
<1>s. \A i \in Ceremonies : DeviceOf(i) \in Devices
  BY KeyPlanShape DEF KeyTyped, KeyRowsTyped
<1>t. \A p \in Presents : p[1] \in Ceremonies
  BY PresentsOf
<1>f. counters \in [Devices -> {NotEnrolled} \cup Nat] /\ signed \in [Devices -> Nat]
      /\ ceremony \in [Ceremonies -> [at : {"idle", "offered", "signed"}, count : Nat]]
  BY DEF KeyTyped, KeyRowsTyped
<1>1. ASSUME NEW p \in Presents, Enroll(p) PROVE CountersFollow'
  <2>1. ceremony' = ceremony /\ signed' = signed
    BY <1>1 DEF Enroll
  <2>2. \A d \in Devices : counters'[d] = counters[d] \/ (DeviceOf(p[1]) = d /\ counters'[d] = ceremony[p[1]].count)
    BY <1>1, <1>f DEF Enroll
  <2> QED BY <1>0, <1>t, <2>1, <2>2, CountersFrame
<1>2. ASSUME NEW p \in Presents, StampsCounter(p) PROVE CountersFollow'
  <2>1. ceremony' = ceremony /\ signed' = signed
    BY <1>2 DEF StampsCounter
  <2>2. \A d \in Devices : counters'[d] = counters[d] \/ (DeviceOf(p[1]) = d /\ counters'[d] = ceremony[p[1]].count)
    BY <1>2, <1>f DEF StampsCounter, CounterAfter
  <2> QED BY <1>0, <1>t, <2>1, <2>2, CountersFrame
<1>3. ASSUME NEW i \in Ceremonies, Offer(i) PROVE CountersFollow'
  <2>1. signed' = signed /\ counters' = counters
    BY <1>3 DEF Offer
  <2>2. \A j \in Ceremonies : ceremony'[j].count = ceremony[j].count /\ (ceremony'[j].at = "signed" <=> ceremony[j].at = "signed")
    BY <1>3, <1>f DEF Offer
  <2> QED BY <1>0, <2>1, <2>2, CountersFrame
<1>4. ASSUME NEW i \in Ceremonies, SignChallenge(i) PROVE CountersFollow'
  <2>d. PICK d \in Devices : d = DeviceOf(i)
    BY <1>s
  <2>1. /\ counters' = counters /\ ceremony[i].at # "signed"
        /\ ceremony'[i].at = "signed" /\ ceremony'[i].count = signed'[d]
        /\ \A j \in Ceremonies \ {i} : ceremony'[j] = ceremony[j]
    BY <1>4, <1>f, <2>d DEF SignChallenge, hubKeyVars
  <2>2. /\ signed'[d] \in {signed[d], signed[d] + 1}
        /\ \A e \in Devices \ {d} : signed'[e] = signed[e]
    BY <1>4, <1>f, <2>d DEF SignChallenge
  <2>3. SignaturesOf(d)' = SignaturesOf(d) \cup {i} /\ i \notin SignaturesOf(d)
    BY <1>0, <2>1, <2>d DEF SignaturesOf
  <2>4. \A e \in Devices \ {d} : SignaturesOf(e)' = SignaturesOf(e)
    BY <1>0, <2>1, <2>d DEF SignaturesOf
  <2>5. Cardinality(SignaturesOf(d)') = Cardinality(SignaturesOf(d)) + 1 /\ Cardinality(SignaturesOf(d)) \in Nat
    BY <1>s, <2>3, SignaturesAreFinite, FS_AddElement
  <2>6. (\A j \in Ceremonies : ceremony[j].count <= signed[DeviceOf(j)])'
    <3>1. \A j \in Ceremonies : ceremony'[j].count <= signed'[DeviceOf(j)]
      <4>1. \A e \in Devices : signed[e] \in Nat /\ signed'[e] >= signed[e] /\ signed'[e] \in Nat
        BY <1>f, <2>2
      <4> QED BY <1>f, <1>s, <2>1, <2>d, <4>1 DEF CountersFollow
    <3> QED BY <3>1, <1>0
  <2>7. (\A e \in Devices : counters[e] <= signed[e] /\ signed[e] <= Cardinality(SignaturesOf(e)))'
    <3>1. ASSUME NEW e \in Devices PROVE counters'[e] <= signed'[e] /\ signed'[e] <= Cardinality(SignaturesOf(e)')
      <4>1. CASE e = d
        <5>1. counters[d] \in Int /\ signed[d] \in Nat /\ counters[d] <= signed[d]
              /\ signed[d] <= Cardinality(SignaturesOf(d))
          BY <1>f, <1>s DEF CountersFollow, NotEnrolled
        <5> DEFINE k == Cardinality(SignaturesOf(d))
                   kk == Cardinality(SignaturesOf(d)')
        <5>2. kk = k + 1 /\ k \in Nat /\ signed[d] <= k
          BY <2>5, <5>1
        <5> HIDE DEF k, kk
        <5>3. signed'[d] <= kk /\ counters'[d] <= signed'[d]
          BY <5>1, <5>2, <2>1, <2>2
        <5> QED BY <4>1, <5>3 DEF kk
      <4>2. CASE e # d
        BY <4>2, <2>1, <2>2, <2>4 DEF CountersFollow
      <4> QED BY <4>1, <4>2
    <3> QED BY <3>1
  <2> QED BY <2>6, <2>7 DEF CountersFollow
<1>5. ASSUME UNCHANGED <<counters, ceremony, signed>> PROVE CountersFollow'
  BY <1>0, <1>5, CountersFrame
<1>6. ASSUME \/ \E p \in Presents : \/ ReadsSession(p) \/ Consumes(p) \/ ReadsCredential(p) \/ SignsIn(p)
                                    \/ WritesCode(p) \/ Delivers(p) \/ PresentDies(p)
             \/ \E m \in Mints : Denies(m) \/ Redeems(m) \/ Issues(m) \/ Saves(m) \/ Listens(m)
             \/ \E i \in Ceremonies : PresentAgain(i) \/ ChallengeEnds(i) \/ CodeEnds(i)
             \/ \E g \in readGrants : GrantAges(g) \/ RevokeGrant(g)
             \/ SignOut \/ UNCHANGED keyVars
      PROVE  UNCHANGED <<counters, ceremony, signed>>
  BY <1>6 DEF ReadsSession, Consumes, ReadsCredential, SignsIn, WritesCode, Delivers, PresentDies, Denies, Redeems, Issues,
              Saves, Listens, PresentAgain, ChallengeEnds, CodeEnds, GrantAges, RevokeGrant, SignOut, keyVars, hubKeyVars, clientKeyVars
<1> QED BY KeySteps, <1>1, <1>2, <1>3, <1>4, <1>5, <1>6

-----------------------------------------------------------------------------
(* Who is enrolled, and by which present. *)

Registered(d) == \E p \in Presents : Kind(p[1]) = "register" /\ DeviceOf(p[1]) = d /\ present[p].at = "verified"

(* No step but the end of a registration enrolls anybody. *)
LEMMA EnrollmentFrame ==
  ASSUME KeyTyped, EnrollmentIsOnce, kplan' = kplan, unattended' = unattended,
         \A d \in Devices : (counters'[d] = NotEnrolled) <=> (counters[d] = NotEnrolled),
         \A i \in Ceremonies : /\ ceremony'[i].at = "idle" => ceremony[i].at = "idle"
                               /\ ceremony[i].at = "idle" /\ ceremony'[i].at # "idle" =>
                                    MayRegister(i) \/ MaySignIn(i) \/ MayApprove(i),
         \A p \in Presents : /\ present[p].at = "verified" => present'[p].at = "verified"
                             /\ present'[p].at \in {"read", "stamped"} => present[p].at \in {"read", "stamped"} \/ Kind(p[1]) # "register"
  PROVE  EnrollmentIsOnce'
<1>0. Ceremonies' = Ceremonies /\ Presents' = Presents /\ \A i \in Ceremonies : Kind(i)' = Kind(i) /\ DeviceOf(i)' = DeviceOf(i)
  BY DEF Ceremonies, Presents, Kind, DeviceOf
<1>p. \A p \in Presents : p[1] \in Ceremonies
  BY PresentsOf
<1>s. \A i \in Ceremonies : DeviceOf(i) \in Devices /\ Kind(i) \in {"register", "auth", "grant"}
  BY KeyPlanShape DEF KeyTyped, KeyRowsTyped
<1>1. Enrolled' = Enrolled
  BY DEF Enrolled
<1>2. \A d \in Enrolled \ kplan.enrolled : Registered(d)'
  <2>1. \A d \in Enrolled \ kplan.enrolled : Registered(d)
    BY DEF EnrollmentIsOnce, Registered
  <2> QED BY <2>1, <1>0, <1>p DEF Registered
<1>3. \A i \in Ceremonies : ceremony'[i].at # "idle" =>
        /\ Kind(i) = "register" => DeviceOf(i) \notin kplan.enrolled
        /\ Kind(i) # "register" => DeviceOf(i) \in Enrolled
  BY DEF EnrollmentIsOnce, MayRegister, MaySignIn, MayApprove
<1>4. (\A p \in Presents : present[p].at \in {"read", "stamped"} => Kind(p[1]) # "register")'
  BY <1>0, <1>p DEF EnrollmentIsOnce
<1>5. (\A i \in Ceremonies : ceremony[i].at # "idle" =>
         /\ Kind(i) = "register" => DeviceOf(i) \notin kplan.enrolled
         /\ Kind(i) # "register" => DeviceOf(i) \in Enrolled)'
  BY <1>0, <1>1, <1>3
<1>6. (\A d \in Enrolled \ kplan.enrolled : Registered(d))'
  BY <1>1, <1>2
<1> QED BY <1>1, <1>4, <1>5, <1>6 DEF EnrollmentIsOnce, Registered

(* A registration that took its challenge finds its device not enrolled. *)
LEMMA EnrollsOnce ==
  ASSUME KeyTyped, ChallengesAreTakenOnce, EnrollmentIsOnce, NEW p \in Presents,
         present[p].at = "consumed", Kind(p[1]) = "register"
  PROVE  DeviceOf(p[1]) \in Devices /\ DeviceOf(p[1]) \notin Enrolled
<1>p. \A q \in Presents : q[1] \in Ceremonies
  BY PresentsOf
<1>1. DeviceOf(p[1]) \in Devices
  BY <1>p, KeyPlanShape DEF KeyTyped, KeyRowsTyped
<1>2. DeviceOf(p[1]) \notin kplan.enrolled
  BY <1>p DEF ChallengesAreTakenOnce, EnrollmentIsOnce
<1>3. ASSUME DeviceOf(p[1]) \in Enrolled PROVE FALSE
  <2>1. PICK q \in Presents : Kind(q[1]) = "register" /\ DeviceOf(q[1]) = DeviceOf(p[1]) /\ present[q].at = "verified"
    BY <1>2, <1>3 DEF EnrollmentIsOnce
  <2>2. q[1] = p[1]
    BY <2>1, <1>p, KeyPlanShape DEF KeyTyped, KeyRowsTyped
  <2>3. Taken(q) /\ Taken(p)
    BY <2>1 DEF Taken
  <2> QED BY <2>1, <2>2, <2>3 DEF ChallengesAreTakenOnce
<1> QED BY <1>1, <1>3

LEMMA EnrollmentStep ==
  ASSUME KeyTyped, ChallengesAreTakenOnce, EnrollmentIsOnce, [KeyNext]_keyVars
  PROVE  EnrollmentIsOnce'
<1>0. kplan' = kplan /\ Ceremonies' = Ceremonies /\ Presents' = Presents
      /\ \A i \in Ceremonies : Kind(i)' = Kind(i) /\ DeviceOf(i)' = DeviceOf(i)
  BY KeyPlanIsFixed DEF Ceremonies, Presents, Kind, DeviceOf
<1>s. \A i \in Ceremonies : DeviceOf(i) \in Devices
  BY KeyPlanShape DEF KeyTyped, KeyRowsTyped
<1>t. \A p \in Presents : p[1] \in Ceremonies
  BY PresentsOf
<1>f. /\ counters \in [Devices -> {NotEnrolled} \cup Nat]
      /\ ceremony \in [Ceremonies -> [at : {"idle", "offered", "signed"}, count : Nat]]
      /\ present \in [Presents -> [at : PresentPcs, authorized : BOOLEAN, seen : {NotEnrolled} \cup Nat]]
  BY DEF KeyTyped, KeyRowsTyped
<1>1. ASSUME NEW p \in Presents,
             ReadsSession(p) \/ Consumes(p) \/ ReadsCredential(p) \/ SignsIn(p) \/ WritesCode(p) \/ Delivers(p) \/ PresentDies(p)
      PROVE  EnrollmentIsOnce'
  <2>1. ceremony' = ceremony /\ counters' = counters /\ unattended' = unattended
    BY <1>1 DEF ReadsSession, Consumes, ReadsCredential, SignsIn, WritesCode, Delivers, PresentDies, hubKeyVars
  <2>2. \A q \in Presents : q # p => present'[q] = present[q]
    BY <1>1, <1>f DEF ReadsSession, Consumes, ReadsCredential, SignsIn, WritesCode, Delivers, PresentDies, PresentGoes
  <2>3. /\ present[p].at # "verified"
        /\ present'[p].at \in {"read", "stamped"} => present[p].at \in {"read", "stamped"} \/ Kind(p[1]) # "register"
    BY <1>1, <1>f DEF ReadsSession, Consumes, ReadsCredential, SignsIn, WritesCode, Delivers, PresentDies, PresentGoes
  <2>4. \A q \in Presents : /\ present[q].at = "verified" => present'[q].at = "verified"
                            /\ present'[q].at \in {"read", "stamped"} => present[q].at \in {"read", "stamped"} \/ Kind(q[1]) # "register"
    BY <2>2, <2>3
  <2> QED BY <1>0, <2>1, <2>4, EnrollmentFrame
<1>2. ASSUME NEW p \in Presents, StampsCounter(p) PROVE EnrollmentIsOnce'
  <2>1. ceremony' = ceremony /\ unattended' = unattended
    BY <1>2 DEF StampsCounter
  <2>2. DeviceOf(p[1]) \in Enrolled
    BY <1>2, <1>t DEF StampsCounter, ChallengesAreTakenOnce, EnrollmentIsOnce
  <2>3. \A d \in Devices : (counters'[d] = NotEnrolled) <=> (counters[d] = NotEnrolled)
    <3>1. ceremony[p[1]].count \in Nat
      BY <1>f, <1>t
    <3>2. counters[DeviceOf(p[1])] \in Nat
      BY <1>f, <2>2 DEF Enrolled
    <3> QED BY <1>2, <1>f, <3>1, <3>2 DEF StampsCounter, CounterAfter, NotEnrolled
  <2>4. \A q \in Presents : /\ present[q].at = "verified" => present'[q].at = "verified"
                            /\ present'[q].at \in {"read", "stamped"} => present[q].at \in {"read", "stamped"} \/ Kind(q[1]) # "register"
    BY <1>2, <1>f DEF StampsCounter, PresentGoes
  <2> QED BY <1>0, <2>1, <2>3, <2>4, EnrollmentFrame
<1>3. ASSUME NEW p \in Presents, Enroll(p), ~Enrollable(p) PROVE EnrollmentIsOnce'
  <2>1. ceremony' = ceremony /\ unattended' = unattended /\ counters' = counters
    BY <1>3 DEF Enroll
  <2>2. \A q \in Presents : /\ present[q].at = "verified" => present'[q].at = "verified"
                            /\ present'[q].at \in {"read", "stamped"} => present[q].at \in {"read", "stamped"} \/ Kind(q[1]) # "register"
    BY <1>3, <1>f DEF Enroll, PresentGoes
  <2> QED BY <1>0, <2>1, <2>2, EnrollmentFrame
<1>4. ASSUME NEW p \in Presents, Enroll(p), Enrollable(p) PROVE EnrollmentIsOnce'
  <2>d. PICK d \in Devices : d = DeviceOf(p[1])
    BY <1>s, <1>t
  <2>1. d \notin Enrolled
    BY <1>4, <2>d, EnrollsOnce DEF Enroll
  <2>2. /\ ceremony' = ceremony /\ Kind(p[1]) = "register"
        /\ present'[p].at = "verified" /\ \A q \in Presents \ {p} : present'[q] = present[q]
        /\ present[p].at = "consumed"
    BY <1>4, <1>f DEF Enroll, PresentGoes
  <2>3. counters' = [counters EXCEPT ![d] = ceremony[p[1]].count] /\ ceremony[p[1]].count \in Nat
    BY <1>4, <1>f, <1>t, <2>d DEF Enroll
  <2>4. Enrolled' = Enrolled \cup {d}
    BY <1>f, <2>3 DEF Enrolled, NotEnrolled
  <2>5. unattended' \subseteq Enrolled' /\ (\A e, f \in unattended : e = f)'
    BY <1>4, <2>1, <2>4, <2>d DEF Enroll, Enrollable, EnrollmentIsOnce
  <2>6. (\A e \in Enrolled \ kplan.enrolled : Registered(e))'
    <3>1. Registered(d)'
      BY <1>0, <1>t, <2>2, <2>d DEF Registered
    <3>2. \A e \in Enrolled \ kplan.enrolled : Registered(e)'
      BY <1>0, <1>t, <2>2 DEF Registered, EnrollmentIsOnce
    <3> QED BY <1>0, <2>4, <3>1, <3>2
  <2>7. (\A q \in Presents : present[q].at \in {"read", "stamped"} => Kind(q[1]) # "register")'
    BY <1>0, <1>t, <2>2 DEF EnrollmentIsOnce
  <2>8. (\A i \in Ceremonies : ceremony[i].at # "idle" =>
           /\ Kind(i) = "register" => DeviceOf(i) \notin kplan.enrolled
           /\ Kind(i) # "register" => DeviceOf(i) \in Enrolled)'
    BY <1>0, <2>2, <2>4 DEF EnrollmentIsOnce
  <2>9. (kplan.enrolled \subseteq Enrolled)'
    BY <1>0, <2>4 DEF EnrollmentIsOnce
  <2> QED BY <2>5, <2>6, <2>7, <2>8, <2>9 DEF EnrollmentIsOnce, Registered
<1>5. ASSUME NEW i \in Ceremonies, Offer(i) \/ SignChallenge(i) \/ PresentAgain(i) PROVE EnrollmentIsOnce'
  <2>1. counters' = counters /\ unattended' = unattended
    BY <1>5 DEF Offer, SignChallenge, PresentAgain, hubKeyVars
  <2>2. \A j \in Ceremonies : /\ ceremony'[j].at = "idle" => ceremony[j].at = "idle"
                              /\ ceremony[j].at = "idle" /\ ceremony'[j].at # "idle" =>
                                   MayRegister(j) \/ MaySignIn(j) \/ MayApprove(j)
    BY <1>5, <1>f DEF Offer, SignChallenge, PresentAgain
  <2>3. \A q \in Presents : present'[q].at = present[q].at \/ (present[q].at = "none" /\ present'[q].at = "sent")
    <3>1. CASE Offer(i)
      <4>1. present' = present
        BY <3>1 DEF Offer
      <4> QED BY <4>1
    <3>2. CASE SignChallenge(i)
      <4>1. present' = [present EXCEPT ![<<i, 1>>].at = "sent"] /\ ceremony[i].at # "signed"
        BY <3>2 DEF SignChallenge
      <4>2. <<i, 1>> \in Presents /\ present[<<i, 1>>].at = "none"
        BY <4>1, PresentsOf DEF ChallengesAreTakenOnce
      <4> QED BY <1>f, <4>1, <4>2
    <3>3. CASE PresentAgain(i)
      <4>1. present' = [present EXCEPT ![<<i, 2>>].at = "sent"] /\ present[<<i, 2>>].at = "none"
        BY <3>3 DEF PresentAgain
      <4> QED BY <1>f, <4>1, PresentsOf
    <3> QED BY <1>5, <3>1, <3>2, <3>3
  <2>4. \A q \in Presents : /\ present[q].at = "verified" => present'[q].at = "verified"
                            /\ present'[q].at \in {"read", "stamped"} => present[q].at \in {"read", "stamped"} \/ Kind(q[1]) # "register"
    BY <2>3
  <2> QED BY <1>0, <2>1, <2>2, <2>4, EnrollmentFrame
<1>6. ASSUME UNCHANGED <<counters, ceremony, present, unattended>> PROVE EnrollmentIsOnce'
  <2>1. \A i \in Ceremonies : ceremony[i].at = "idle" /\ ceremony'[i].at # "idle" =>
                                MayRegister(i) \/ MaySignIn(i) \/ MayApprove(i)
    BY <1>6
  <2> QED BY <1>0, <1>6, <2>1, EnrollmentFrame
<1>7. ASSUME \/ \E m \in Mints : Denies(m) \/ Redeems(m) \/ Issues(m) \/ Saves(m) \/ Listens(m)
             \/ \E i \in Ceremonies : ChallengeEnds(i) \/ CodeEnds(i)
             \/ \E g \in readGrants : GrantAges(g) \/ RevokeGrant(g)
             \/ SignOut \/ UNCHANGED keyVars
      PROVE  UNCHANGED <<counters, ceremony, present, unattended>>
  BY <1>7 DEF Denies, Redeems, Issues, Saves, Listens, ChallengeEnds, CodeEnds, GrantAges, RevokeGrant, SignOut, keyVars, hubKeyVars, clientKeyVars
<1> QED BY KeySteps, <1>1, <1>2, <1>3, <1>4, <1>5, <1>6, <1>7

-----------------------------------------------------------------------------
(* No step takes back that a ceremony ended in a code. *)
LEMMA CodedStays ==
  ASSUME KeyTyped, ChallengesAreTakenOnce, [KeyNext]_keyVars, NEW i \in Ceremonies, Coded(i)
  PROVE  Coded(i)'
<1>0. Presents' = Presents
  BY KeyPlanIsFixed DEF Ceremonies, Presents
<1>1. PICK p \in Presents : p[1] = i /\ present[p].at \in {"coded", "verified"}
  BY DEF Coded
<1>2. present \in [Presents -> [at : PresentPcs, authorized : BOOLEAN, seen : {NotEnrolled} \cup Nat]]
  BY DEF KeyTyped, KeyRowsTyped
<1>3. ceremony[i].at = "signed"
  BY <1>1 DEF ChallengesAreTakenOnce
<1>4. present'[p].at \in {"coded", "verified"}
  <2>1. ASSUME NEW q \in Presents,
               \/ ReadsSession(q) \/ Consumes(q) \/ Enroll(q) \/ ReadsCredential(q) \/ StampsCounter(q)
               \/ SignsIn(q) \/ WritesCode(q) \/ Delivers(q) \/ PresentDies(q)
        PROVE  present'[p].at \in {"coded", "verified"}
    BY <2>1, <1>1, <1>2 DEF ReadsSession, Consumes, Enroll, ReadsCredential, StampsCounter, SignsIn, WritesCode, Delivers,
                            PresentDies, PresentGoes
  <2>2. ASSUME NEW j \in Ceremonies, SignChallenge(j) \/ PresentAgain(j) PROVE present'[p].at \in {"coded", "verified"}
    <3>1. \/ ceremony[j].at = "offered" /\ present' = [present EXCEPT ![<<j, 1>>].at = "sent"]
          \/ present[<<j, 2>>].at = "none" /\ present' = [present EXCEPT ![<<j, 2>>].at = "sent"]
      BY <2>2 DEF SignChallenge, PresentAgain
    <3> QED BY <3>1, <1>1, <1>2, <1>3, PresentsOf
  <2>3. present' = present => present'[p].at \in {"coded", "verified"}
    BY <1>1
  <2>4. ASSUME \/ \E m \in Mints : Denies(m) \/ Redeems(m) \/ Issues(m) \/ Saves(m) \/ Listens(m)
               \/ \E j \in Ceremonies : Offer(j) \/ ChallengeEnds(j) \/ CodeEnds(j)
               \/ \E g \in readGrants : GrantAges(g) \/ RevokeGrant(g)
               \/ SignOut \/ UNCHANGED keyVars
        PROVE  present' = present
    BY <2>4 DEF Denies, Redeems, Issues, Saves, Listens, Offer, ChallengeEnds, CodeEnds, GrantAges, RevokeGrant, SignOut,
                keyVars, hubKeyVars, clientKeyVars
  <2> QED BY KeySteps, <2>1, <2>2, <2>3, <2>4
<1> QED BY <1>0, <1>1, <1>4 DEF Coded

(* Codes go, presents go on and grants keep their names. *)
LEMMA CodesFrame ==
  ASSUME KeyTyped, ChallengesAreTakenOnce, CodesAreSpentOnce, [KeyNext]_keyVars,
         codes' \subseteq codes, mint' = mint,
         \A p \in Presents : present'[p].at = "coded" => present[p].at = "coded",
         \A g \in readGrants : \E h \in readGrants' : h.id = g.id
  PROVE  CodesAreSpentOnce'
<1>0. kplan' = kplan /\ Ceremonies' = Ceremonies /\ Presents' = Presents
      /\ \A i \in Ceremonies : Kind(i)' = Kind(i) /\ MintOf(i)' = MintOf(i)
  BY KeyPlanIsFixed DEF Ceremonies, Presents, Kind, MintOf
<1>1. \A i \in Ceremonies : Coded(i) => Coded(i)'
  BY CodedStays
<1>2. codes \subseteq Ceremonies /\ \A m \in Mints : mint[m].code \in Ceremonies \cup {NoGrant}
  BY DEF KeyTyped, KeyRowsTyped, KeyGrantsTyped
<1>3. (\A i \in codes : Kind(i) = "grant" /\ Coded(i))'
  BY <1>0, <1>1, <1>2 DEF CodesAreSpentOnce
<1>4. (\A p \in Presents : present[p].at = "coded" => Kind(p[1]) = "grant")'
  BY <1>0, PresentsOf DEF CodesAreSpentOnce
<1>5. \A m \in Mints : GrantedTo(m) => GrantedTo(m)'
  BY DEF GrantedTo
<1>6. ASSUME NEW m \in Mints
      PROVE  MintIsSound(m)'
  <2>1. mint[m].code # NoGrant => MintOf(mint[m].code)' = m /\ Coded(mint[m].code)'
    BY <1>0, <1>1, <1>2 DEF CodesAreSpentOnce, MintIsSound
  <2> QED BY <1>5, <2>1 DEF CodesAreSpentOnce, MintIsSound
<1> QED BY <1>3, <1>4, <1>6 DEF CodesAreSpentOnce

(* Of the runs of the client one goes on. *)
LEMMA MintFrame ==
  ASSUME KeyTyped, ChallengesAreTakenOnce, CodesAreSpentOnce, [KeyNext]_keyVars, NEW m \in Mints, NEW code,
         codes' \subseteq codes, mint'[m].code = code,
         \A p \in Presents : present'[p].at = "coded" => present[p].at = "coded",
         readGrants \subseteq readGrants',
         \A n \in Mints \ {m} : mint'[n] = mint[n],
         mint'[m].at \in {"idle", "listening"} => code = NoGrant,
         mint'[m].at \in {"coded", "redeemed", "granted", "saved"} => code # NoGrant,
         code # NoGrant => code \in Ceremonies /\ MintOf(code) = m /\ Coded(code)',
         mint'[m].at \in {"redeemed", "granted", "saved"} => code \notin codes',
         mint'[m].at \in {"granted", "saved"} => \E g \in readGrants' : g.id = code
  PROVE  CodesAreSpentOnce'
<1>0. kplan' = kplan /\ Ceremonies' = Ceremonies /\ Presents' = Presents
      /\ \A i \in Ceremonies : Kind(i)' = Kind(i) /\ MintOf(i)' = MintOf(i)
  BY KeyPlanIsFixed DEF Ceremonies, Presents, Kind, MintOf
<1>1. \A i \in Ceremonies : Coded(i) => Coded(i)'
  BY CodedStays
<1>2. codes \subseteq Ceremonies /\ \A n \in Mints : mint[n].code \in Ceremonies \cup {NoGrant}
  BY DEF KeyTyped, KeyRowsTyped, KeyGrantsTyped
<1>3. (\A i \in codes : Kind(i) = "grant" /\ Coded(i))'
  BY <1>0, <1>1, <1>2 DEF CodesAreSpentOnce
<1>4. (\A p \in Presents : present[p].at = "coded" => Kind(p[1]) = "grant")'
  BY <1>0, PresentsOf DEF CodesAreSpentOnce
<1>6. ASSUME NEW n \in Mints \ {m}
      PROVE  MintIsSound(n)'
  <2>1. mint[n].code # NoGrant => MintOf(mint[n].code)' = n /\ Coded(mint[n].code)'
    BY <1>0, <1>1, <1>2 DEF CodesAreSpentOnce, MintIsSound
  <2>2. GrantedTo(n) => \E g \in readGrants' : g.id = mint[n].code
    BY DEF GrantedTo
  <2> QED BY <2>1, <2>2 DEF CodesAreSpentOnce, MintIsSound, GrantedTo
<1>7. MintIsSound(m)'
  <2>0. code # NoGrant => MintOf(code)' = m /\ Coded(code)'
    BY <1>0
  <2>1. mint'[m].code # NoGrant => MintOf(mint[m].code)' = m /\ Coded(mint[m].code)'
    BY <2>0
  <2>2. mint'[m].at \in {"granted", "saved"} => GrantedTo(m)'
    BY DEF GrantedTo
  <2> QED BY <2>1, <2>2 DEF MintIsSound
<1> QED BY <1>3, <1>4, <1>6, <1>7 DEF CodesAreSpentOnce

(* A present that is about to leave a code has left none. *)
LEMMA StampedIsNotCoded ==
  ASSUME KeyTyped, ChallengesAreTakenOnce, NEW p \in Presents, present[p].at = "stamped"
  PROVE  ~Coded(p[1])
<1>1. ASSUME NEW q \in Presents, q[1] = p[1], present[q].at \in {"coded", "verified"} PROVE FALSE
  <2>1. Taken(q) /\ Taken(p)
    BY <1>1 DEF Taken
  <2> QED BY <1>1, <2>1 DEF ChallengesAreTakenOnce
<1> QED BY <1>1 DEF Coded

LEMMA CodesStep ==
  ASSUME KeyTyped, ChallengesAreTakenOnce, CodesAreSpentOnce, [KeyNext]_keyVars
  PROVE  CodesAreSpentOnce'
<1>0. kplan' = kplan /\ Ceremonies' = Ceremonies /\ Presents' = Presents
      /\ \A i \in Ceremonies : Kind(i)' = Kind(i) /\ MintOf(i)' = MintOf(i)
  BY KeyPlanIsFixed DEF Ceremonies, Presents, Kind, MintOf
<1>f. /\ present \in [Presents -> [at : PresentPcs, authorized : BOOLEAN, seen : {NotEnrolled} \cup Nat]]
      /\ mint \in [Mints -> [at : MintPcs, code : Ceremonies \cup {NoGrant}]] /\ codes \subseteq Ceremonies
  BY DEF KeyTyped, KeyRowsTyped, KeyGrantsTyped
<1>g. NoGrant \notin Ceremonies /\ \A i \in Ceremonies : MintOf(i) \in Mints
  BY KeyPlanShape DEF KeyTyped, KeyRowsTyped
<1>1. ASSUME NEW p \in Presents, \/ ReadsSession(p) \/ Consumes(p) \/ Enroll(p) \/ ReadsCredential(p) \/ StampsCounter(p)
                                 \/ SignsIn(p) \/ PresentDies(p)
      PROVE  CodesAreSpentOnce'
  <2>1. codes' = codes /\ mint' = mint /\ readGrants' = readGrants
    BY <1>1 DEF ReadsSession, Consumes, Enroll, ReadsCredential, StampsCounter, SignsIn, PresentDies, hubKeyVars, clientKeyVars
  <2>2. \A q \in Presents : present'[q].at = "coded" => present[q].at = "coded"
    BY <1>1, <1>f DEF ReadsSession, Consumes, Enroll, ReadsCredential, StampsCounter, SignsIn, PresentDies, PresentGoes
  <2> QED BY <2>1, <2>2, CodesFrame
<1>2. ASSUME NEW p \in Presents, WritesCode(p) PROVE CodesAreSpentOnce'
  <2>1. /\ codes' = codes \cup {p[1]} /\ mint' = mint /\ readGrants' = readGrants /\ Kind(p[1]) = "grant"
        /\ present[p].at = "stamped" /\ present'[p].at = "coded" /\ \A q \in Presents \ {p} : present'[q] = present[q]
    BY <1>2, <1>f DEF WritesCode, PresentGoes, clientKeyVars
  <2>2. Coded(p[1])' /\ ~Coded(p[1])
    BY <1>0, <2>1, StampedIsNotCoded DEF Coded
  <2>3. \A i \in Ceremonies : Coded(i) => Coded(i)'
    BY CodedStays
  <2>4. (\A i \in codes : Kind(i) = "grant" /\ Coded(i))'
    BY <1>0, <1>f, <2>1, <2>2, <2>3, PresentsOf DEF CodesAreSpentOnce
  <2>5. (\A q \in Presents : present[q].at = "coded" => Kind(q[1]) = "grant")'
    BY <1>0, <2>1, PresentsOf DEF CodesAreSpentOnce
  <2>6. ASSUME NEW n \in Mints
        PROVE  MintIsSound(n)'
    <3>m. MintIsSound(n) /\ mint'[n] = mint[n]
      BY <2>1 DEF CodesAreSpentOnce
    <3>c. PICK c : c = mint[n].code
      OBVIOUS
    <3>1. c # NoGrant => c \in Ceremonies /\ MintOf(c) = n /\ Coded(c)
      BY <1>f, <3>m, <3>c DEF MintIsSound
    <3>2. c # NoGrant => MintOf(c)' = n /\ Coded(c)' /\ c # p[1]
      BY <1>0, <2>2, <2>3, <3>1
    <3>3. mint'[n].code # NoGrant => MintOf(mint[n].code)' = n /\ Coded(mint[n].code)' /\ mint[n].code # p[1]
      BY <3>2, <3>m, <3>c
    <3>4. GrantedTo(n)' <=> GrantedTo(n)
      BY <2>1 DEF GrantedTo
    <3>5. mint[n].at \in {"redeemed", "granted", "saved"} => mint[n].code \notin codes'
      BY <2>1, <3>3, <3>m DEF MintIsSound
    <3> QED BY <3>m, <3>3, <3>4, <3>5 DEF MintIsSound
  <2> QED BY <2>4, <2>5, <2>6 DEF CodesAreSpentOnce
<1>3. ASSUME NEW p \in Presents, Delivers(p) PROVE CodesAreSpentOnce'
  <2>m. PICK m \in Mints : m = MintOf(p[1])
    BY <1>g, PresentsOf
  <2>1. /\ codes' = codes /\ readGrants' = readGrants
        /\ present'[p].at = "verified" /\ \A q \in Presents \ {p} : present'[q] = present[q]
        /\ mint' = IF mint[m].at = "listening" THEN [mint EXCEPT ![m] = [at |-> "coded", code |-> p[1]]] ELSE mint
    BY <1>3, <1>f, <2>m DEF Delivers, PresentGoes, hubKeyVars
  <2>2. Coded(p[1])' /\ p[1] \in Ceremonies
    BY <1>0, <2>1, PresentsOf DEF Coded
  <2>3. CASE mint[m].at = "listening"
    <3>0. mint' = [mint EXCEPT ![m] = [at |-> "coded", code |-> p[1]]]
      BY <2>1, <2>3
    <3>1. mint'[m] = [at |-> "coded", code |-> p[1]] /\ \A n \in Mints \ {m} : mint'[n] = mint[n]
      BY <1>f, <3>0
    <3>2. \A q \in Presents : present'[q].at = "coded" => present[q].at = "coded"
      BY <2>1
    <3>3. mint'[m].at = "coded" /\ mint'[m].code = p[1] /\ p[1] # NoGrant
      BY <1>g, <2>2, <3>1
    <3>4. PICK code \in Ceremonies : code = p[1]
      BY <2>2
    <3>5. MintOf(code) = m /\ Coded(code)' /\ mint'[m].code = code /\ code # NoGrant
      BY <2>2, <2>m, <3>3, <3>4
    <3>6. codes' \subseteq codes /\ readGrants \subseteq readGrants'
      BY <2>1
    <3> QED BY <3>1, <3>2, <3>3, <3>5, <3>6, MintFrame
  <2>4. CASE mint[m].at # "listening"
    <3>1. \A q \in Presents : present'[q].at = "coded" => present[q].at = "coded"
      BY <2>1
    <3> QED BY <2>1, <2>4, <3>1, CodesFrame
  <2> QED BY <2>3, <2>4
<1>4. ASSUME NEW m \in Mints, Denies(m) \/ Redeems(m) \/ Issues(m) \/ Saves(m) \/ Listens(m) PROVE CodesAreSpentOnce'
  <2>i. MintIsSound(m)
    BY DEF CodesAreSpentOnce
  <2>c. PICK code \in Ceremonies \cup {NoGrant} : code = mint[m].code
    BY <1>f
  <2>1. /\ codes' \subseteq codes /\ present' = present /\ readGrants \subseteq readGrants'
        /\ \A n \in Mints \ {m} : mint'[n] = mint[n]
        /\ mint'[m].code = code
    BY <1>4, <1>f, <2>c DEF Denies, Redeems, Issues, Saves, Listens, MintGoes, hubKeyVars
  <2>2. /\ mint'[m].at \in {"idle", "listening"} => mint[m].at \in {"idle", "listening"}
        /\ mint'[m].at \in {"coded", "redeemed", "granted", "saved"} => mint[m].at \in {"coded", "redeemed", "granted", "saved"}
    BY <1>4, <1>f DEF Denies, Redeems, Issues, Saves, Listens, MintGoes
  <2>3. mint'[m].at \in {"redeemed", "granted", "saved"} => code \notin codes'
    <3>1. mint'[m].at \in {"redeemed", "granted", "saved"} =>
            mint[m].at \in {"redeemed", "granted", "saved"} \/ code \notin codes'
      BY <1>4, <1>f, <2>c DEF Denies, Redeems, Issues, Saves, Listens, MintGoes
    <3> QED BY <2>1, <2>i, <2>c, <3>1 DEF MintIsSound
  <2>4. mint'[m].at \in {"granted", "saved"} => \E g \in readGrants' : g.id = code
    <3>1. CASE Issues(m)
      <4>1. mint'[m].at \in {"granted", "saved"} => ReadGrant(code) \in readGrants'
        BY <3>1, <1>f, <2>c DEF Issues, MintGoes
      <4> QED BY <2>1, <4>1 DEF ReadGrant
    <3>2. CASE Saves(m)
      <4>1. mint[m].at = "granted" /\ readGrants' = readGrants
        BY <3>2 DEF Saves, hubKeyVars
      <4> QED BY <2>1, <2>i, <2>c, <4>1 DEF MintIsSound, GrantedTo
    <3>3. CASE Denies(m) \/ Redeems(m) \/ Listens(m)
      BY <3>3, <1>f DEF Denies, Redeems, Listens, MintGoes
    <3> QED BY <1>4, <3>1, <3>2, <3>3
  <2>5. code # NoGrant => code \in Ceremonies /\ MintOf(code) = m /\ Coded(code)'
    <3>1. \A i \in Ceremonies : Coded(i) => Coded(i)'
      BY CodedStays
    <3>2. code # NoGrant => code \in Ceremonies /\ MintOf(code) = m /\ Coded(code)
      BY <2>c, <2>i DEF MintIsSound
    <3> QED BY <3>1, <3>2
  <2>6. /\ mint'[m].at \in {"idle", "listening"} => code = NoGrant
        /\ mint'[m].at \in {"coded", "redeemed", "granted", "saved"} => code # NoGrant
    BY <2>2, <2>c, <2>i DEF MintIsSound
  <2>7. \A q \in Presents : present'[q].at = "coded" => present[q].at = "coded"
    BY <2>1
  <2> QED BY <2>1, <2>3, <2>4, <2>5, <2>6, <2>7, MintFrame
<1>5. ASSUME NEW i \in Ceremonies, Offer(i) \/ SignChallenge(i) \/ PresentAgain(i) \/ ChallengeEnds(i) \/ CodeEnds(i)
      PROVE  CodesAreSpentOnce'
  <2>1. codes' \subseteq codes /\ mint' = mint /\ readGrants' = readGrants
    BY <1>5 DEF Offer, SignChallenge, PresentAgain, ChallengeEnds, CodeEnds, hubKeyVars, clientKeyVars
  <2>2. \A q \in Presents : present'[q].at = "coded" => present[q].at = "coded"
    <3>1. ASSUME Offer(i) \/ ChallengeEnds(i) \/ CodeEnds(i) PROVE present' = present
      BY <3>1 DEF Offer, ChallengeEnds, CodeEnds
    <3>2. CASE SignChallenge(i)
      <4>1. present' = [present EXCEPT ![<<i, 1>>].at = "sent"]
        BY <3>2 DEF SignChallenge
      <4> QED BY <1>f, <4>1
    <3>3. CASE PresentAgain(i)
      <4>1. present' = [present EXCEPT ![<<i, 2>>].at = "sent"]
        BY <3>3 DEF PresentAgain
      <4> QED BY <1>f, <4>1
    <3> QED BY <1>5, <3>1, <3>2, <3>3
  <2> QED BY <2>1, <2>2, CodesFrame
<1>6. ASSUME NEW g \in readGrants, GrantAges(g) \/ RevokeGrant(g) PROVE CodesAreSpentOnce'
  <2>1. codes' = codes /\ mint' = mint /\ present' = present
    BY <1>6 DEF GrantAges, RevokeGrant, clientKeyVars
  <2>2. \E new : readGrants' = (readGrants \ {g}) \cup {new} /\ new.id = g.id
    <3>g. g \in GrantRows
      BY DEF KeyTyped, KeyGrantsTyped
    <3>2. CASE GrantAges(g)
      <4>1. readGrants' = (readGrants \ {g}) \cup {[g EXCEPT !.life = "over"]}
        BY <3>2 DEF GrantAges, Changed
      <4>2. [g EXCEPT !.life = "over"].id = g.id
        BY <3>g DEF GrantRows
      <4> QED BY <4>1, <4>2
    <3>3. CASE RevokeGrant(g)
      <4>1. readGrants' = (readGrants \ {g}) \cup {[g EXCEPT !.revoked = TRUE]}
        BY <3>3 DEF RevokeGrant, Changed
      <4>2. [g EXCEPT !.revoked = TRUE].id = g.id
        BY <3>g DEF GrantRows
      <4> QED BY <4>1, <4>2
    <3> QED BY <1>6, <3>2, <3>3
  <2>3. \A h \in readGrants : \E n \in readGrants' : n.id = h.id
    BY <2>2
  <2>4. \A q \in Presents : present'[q].at = "coded" => present[q].at = "coded"
    BY <2>1
  <2> QED BY <2>1, <2>3, <2>4, CodesFrame
<1>7. ASSUME SignOut \/ UNCHANGED keyVars PROVE CodesAreSpentOnce'
  <2>1. codes' = codes /\ mint' = mint /\ readGrants' = readGrants /\ present' = present
    BY <1>7 DEF SignOut, keyVars, hubKeyVars, clientKeyVars
  <2> QED BY <2>1, CodesFrame
<1> QED BY KeySteps, <1>1, <1>2, <1>3, <1>4, <1>5, <1>6, <1>7

-----------------------------------------------------------------------------
(* A grant expires or is revoked: another row of the same id.               *)
LEMMA GrantChanges ==
  ASSUME KeyTyped, NEW g \in readGrants, GrantAges(g) \/ RevokeGrant(g)
  PROVE  /\ codes' = codes /\ mint' = mint /\ cached' = cached
         /\ \E new : readGrants' = (readGrants \ {g}) \cup {new} /\ new.id = g.id /\ new.mint = g.mint
<1>1. codes' = codes /\ mint' = mint /\ cached' = cached
  BY DEF GrantAges, RevokeGrant, clientKeyVars
<1>g. g \in GrantRows
  BY DEF KeyTyped, KeyGrantsTyped
<1>2. CASE GrantAges(g)
  <2> DEFINE new == [g EXCEPT !.life = "over"]
  <2>1. new.id = g.id /\ new.mint = g.mint
    BY <1>g DEF GrantRows
  <2>2. readGrants' = (readGrants \ {g}) \cup {new}
    BY <1>2 DEF GrantAges, Changed
  <2> HIDE DEF new
  <2> QED BY <1>1, <2>1, <2>2
<1>3. CASE RevokeGrant(g)
  <2> DEFINE new == [g EXCEPT !.revoked = TRUE]
  <2>1. new.id = g.id /\ new.mint = g.mint
    BY <1>g DEF GrantRows
  <2>2. readGrants' = (readGrants \ {g}) \cup {new}
    BY <1>3 DEF RevokeGrant, Changed
  <2> HIDE DEF new
  <2> QED BY <1>1, <2>1, <2>2
<1> QED BY <1>2, <1>3

(* The grants are the same, and their runs of the client are done. *)
LEMMA GrantsFrame ==
  ASSUME KeyTyped, GrantsAreOnce, kplan' = kplan, readGrants' = readGrants,
         \A g \in readGrants : /\ g.id \notin codes' /\ mint'[g.mint].code = mint[g.mint].code
                               /\ mint'[g.mint].at \in {"granted", "saved", "failed"}
  PROVE  GrantsAreOnce'
<1>1. \A i \in Ceremonies : MintOf(i)' = MintOf(i)
  BY DEF MintOf
<1>2. \A g \in readGrants : g.id \in Ceremonies /\ g.mint \in Mints
  BY DEF KeyTyped, KeyGrantsTyped, GrantRows
<1> QED BY <1>1, <1>2 DEF GrantsAreOnce

LEMMA GrantsStep ==
  ASSUME KeyTyped, ChallengesAreTakenOnce, CodesAreSpentOnce, GrantsAreOnce, [KeyNext]_keyVars
  PROVE  GrantsAreOnce'
<1>0. kplan' = kplan /\ \A i \in Ceremonies : MintOf(i)' = MintOf(i)
  BY KeyPlanIsFixed DEF MintOf
<1>r. \A g \in readGrants : g.id \in Ceremonies /\ g.mint \in Mints
  BY DEF KeyTyped, KeyGrantsTyped, GrantRows
<1>f. mint \in [Mints -> [at : MintPcs, code : Ceremonies \cup {NoGrant}]]
  BY DEF KeyTyped, KeyGrantsTyped
<1>g. NoGrant \notin Ceremonies
  BY KeyPlanShape DEF KeyTyped, KeyRowsTyped
<1>1. ASSUME NEW p \in Presents, WritesCode(p) PROVE GrantsAreOnce'
  <2>1. codes' = codes \cup {p[1]} /\ readGrants' = readGrants /\ mint' = mint /\ present[p].at = "stamped"
    BY <1>1 DEF WritesCode, clientKeyVars
  <2>2. \A g \in readGrants : Coded(g.id)
    BY <1>r, <1>g DEF GrantsAreOnce, CodesAreSpentOnce, MintIsSound
  <2>3. \A g \in readGrants : g.id # p[1]
    BY <2>1, <2>2, StampedIsNotCoded
  <2>4. \A g \in readGrants : g.id \notin codes' /\ mint[g.mint].at \in {"granted", "saved", "failed"}
    BY <2>1, <2>3 DEF GrantsAreOnce
  <2> QED BY <1>0, <2>1, <2>4, GrantsFrame
<1>2. ASSUME NEW p \in Presents, Delivers(p) PROVE GrantsAreOnce'
  <2>m. PICK m \in Mints : m = MintOf(p[1])
    BY PresentsOf, KeyPlanShape DEF KeyTyped, KeyRowsTyped
  <2>1. /\ codes' = codes /\ readGrants' = readGrants
        /\ mint' = IF mint[m].at = "listening" THEN [mint EXCEPT ![m] = [at |-> "coded", code |-> p[1]]] ELSE mint
    BY <1>2, <2>m DEF Delivers, hubKeyVars
  <2>2. \A n \in Mints : mint[n].at \in {"granted", "saved", "failed"} => mint'[n] = mint[n]
    BY <1>f, <2>1
  <2>3. \A g \in readGrants : /\ g.id \notin codes' /\ mint'[g.mint].code = mint[g.mint].code
                              /\ mint'[g.mint].at \in {"granted", "saved", "failed"}
    BY <1>r, <2>1, <2>2 DEF GrantsAreOnce
  <2> QED BY <1>0, <2>1, <2>3, GrantsFrame
<1>3. ASSUME NEW m \in Mints, Denies(m) \/ Redeems(m) \/ Saves(m) \/ Listens(m) PROVE GrantsAreOnce'
  <2>1. codes' \subseteq codes /\ readGrants' = readGrants
    BY <1>3 DEF Denies, Redeems, Saves, Listens, hubKeyVars
  <2>2. \A n \in Mints : mint[n].at \in {"granted", "saved", "failed"} =>
          mint'[n].at \in {"granted", "saved", "failed"} /\ mint'[n].code = mint[n].code
    BY <1>f, <1>3 DEF Denies, Redeems, Saves, Listens, MintGoes
  <2>3. \A g \in readGrants : /\ g.id \notin codes' /\ mint'[g.mint].code = mint[g.mint].code
                              /\ mint'[g.mint].at \in {"granted", "saved", "failed"}
    BY <1>r, <2>1, <2>2 DEF GrantsAreOnce
  <2> QED BY <1>0, <2>1, <2>3, GrantsFrame
<1>4. ASSUME NEW m \in Mints, Issues(m) PROVE GrantsAreOnce'
  <2>c. PICK code \in Ceremonies \cup {NoGrant} : code = mint[m].code
    BY <1>f
  <2>d. PICK new : new = ReadGrant(code)
    OBVIOUS
  <2>1. /\ codes' = codes /\ mint[m].at = "redeemed"
        /\ readGrants' = readGrants \/ readGrants' = readGrants \cup {new}
        /\ mint'[m].at \in {"granted", "failed"} /\ mint'[m].code = code
        /\ \A n \in Mints \ {m} : mint'[n] = mint[n]
    BY <1>4, <1>f, <2>c, <2>d DEF Issues, MintGoes
  <2>2. code \in Ceremonies /\ MintOf(code) = m /\ code \notin codes
    BY <2>1, <2>c DEF CodesAreSpentOnce, MintIsSound
  <2>3. new.id = code /\ new.mint = m
    BY <2>2, <2>d DEF ReadGrant
  <2>4. \A g \in readGrants : g.mint # m /\ g.id # code
    BY <2>1, <2>2 DEF GrantsAreOnce
  <2>5. \A g \in readGrants : /\ g.mint = MintOf(g.id) /\ mint'[g.mint].code = g.id /\ g.id \notin codes'
                              /\ mint'[g.mint].at \in {"granted", "saved", "failed"}
    BY <1>r, <2>1, <2>4 DEF GrantsAreOnce
  <2>6. \A g \in readGrants' : /\ g.mint = MintOf(g.id) /\ mint'[g.mint].code = g.id /\ g.id \notin codes'
                               /\ mint'[g.mint].at \in {"granted", "saved", "failed"} /\ g.id \in Ceremonies
    BY <1>r, <2>1, <2>2, <2>3, <2>5
  <2>7. \A g, h \in readGrants' : g.id = h.id => g = h
    BY <2>1, <2>3, <2>4 DEF GrantsAreOnce
  <2> QED BY <1>0, <2>6, <2>7 DEF GrantsAreOnce
<1>5. ASSUME NEW g \in readGrants, GrantAges(g) \/ RevokeGrant(g) PROVE GrantsAreOnce'
  <2>1. PICK new : readGrants' = (readGrants \ {g}) \cup {new} /\ new.id = g.id /\ new.mint = g.mint
    BY <1>5, GrantChanges
  <2>2. codes' = codes /\ mint' = mint
    BY <1>5, GrantChanges
  <2>3. \A h \in readGrants' : \E o \in readGrants : o.id = h.id /\ o.mint = h.mint
    BY <2>1
  <2>4. (\A h \in readGrants : /\ h.mint = MintOf(h.id) /\ mint[h.mint].code = h.id /\ h.id \notin codes
                               /\ mint[h.mint].at \in {"granted", "saved", "failed"})'
    BY <1>0, <1>r, <2>2, <2>3 DEF GrantsAreOnce
  <2>5. (\A h, k \in readGrants : h.id = k.id => h = k)'
    BY <2>1 DEF GrantsAreOnce
  <2> QED BY <2>4, <2>5 DEF GrantsAreOnce
<1>6. ASSUME readGrants' = readGrants, codes' \subseteq codes, mint' = mint PROVE GrantsAreOnce'
  <2>1. \A g \in readGrants : g.id \notin codes' /\ mint[g.mint].at \in {"granted", "saved", "failed"}
    BY <1>6 DEF GrantsAreOnce
  <2> QED BY <1>0, <1>6, <2>1, GrantsFrame
<1>7. ASSUME \/ \E p \in Presents : \/ ReadsSession(p) \/ Consumes(p) \/ Enroll(p) \/ ReadsCredential(p) \/ StampsCounter(p)
                                    \/ SignsIn(p) \/ PresentDies(p)
             \/ \E i \in Ceremonies : Offer(i) \/ SignChallenge(i) \/ PresentAgain(i) \/ ChallengeEnds(i) \/ CodeEnds(i)
             \/ SignOut \/ UNCHANGED keyVars
      PROVE  readGrants' = readGrants /\ codes' \subseteq codes /\ mint' = mint
  BY <1>7 DEF ReadsSession, Consumes, Enroll, ReadsCredential, StampsCounter, SignsIn, PresentDies, Offer, SignChallenge,
              PresentAgain, ChallengeEnds, CodeEnds, SignOut, keyVars, hubKeyVars, clientKeyVars
<1> QED BY KeySteps, <1>1, <1>2, <1>3, <1>4, <1>5, <1>6, <1>7

-----------------------------------------------------------------------------
(* What the client holds stays, and grants are added. *)
LEMMA CacheFrame ==
  ASSUME CacheIsOfGrants, readGrants \subseteq readGrants', cached' = cached \/ \E g \in readGrants : g.id = cached'
  PROVE  CacheIsOfGrants'
BY DEF CacheIsOfGrants, NoGrant

LEMMA CacheStep ==
  ASSUME KeyTyped, CodesAreSpentOnce, CacheIsOfGrants, [KeyNext]_keyVars
  PROVE  CacheIsOfGrants'
<1>1. ASSUME NEW m \in Mints, Saves(m) PROVE CacheIsOfGrants'
  <2>1. cached' = mint[m].code /\ mint[m].at = "granted" /\ readGrants' = readGrants
    BY <1>1 DEF Saves, hubKeyVars
  <2>2. \E g \in readGrants : g.id = cached'
    BY <2>1 DEF CodesAreSpentOnce, MintIsSound, GrantedTo
  <2> QED BY <2>1, <2>2, CacheFrame
<1>2. ASSUME NEW m \in Mints, Issues(m) PROVE CacheIsOfGrants'
  <2>1. readGrants \subseteq readGrants' /\ cached' = cached
    BY <1>2 DEF Issues
  <2> QED BY <2>1, CacheFrame
<1>3. ASSUME NEW g \in readGrants, GrantAges(g) \/ RevokeGrant(g) PROVE CacheIsOfGrants'
  <2>1. \E new : readGrants' = (readGrants \ {g}) \cup {new} /\ new.id = g.id
    BY <1>3, GrantChanges
  <2>2. cached' = cached
    BY <1>3, GrantChanges
  <2>3. \A h \in readGrants : \E n \in readGrants' : n.id = h.id
    BY <2>1
  <2> QED BY <2>2, <2>3 DEF CacheIsOfGrants, NoGrant
<1>4. ASSUME UNCHANGED <<readGrants, cached>> PROVE CacheIsOfGrants'
  BY <1>4, CacheFrame
<1>5. ASSUME \/ \E p \in Presents : \/ ReadsSession(p) \/ Consumes(p) \/ Enroll(p) \/ ReadsCredential(p) \/ StampsCounter(p)
                                    \/ SignsIn(p) \/ WritesCode(p) \/ Delivers(p) \/ PresentDies(p)
             \/ \E m \in Mints : Denies(m) \/ Redeems(m) \/ Listens(m)
             \/ \E i \in Ceremonies : Offer(i) \/ SignChallenge(i) \/ PresentAgain(i) \/ ChallengeEnds(i) \/ CodeEnds(i)
             \/ SignOut \/ UNCHANGED keyVars
      PROVE  UNCHANGED <<readGrants, cached>>
  BY <1>5 DEF ReadsSession, Consumes, Enroll, ReadsCredential, StampsCounter, SignsIn, WritesCode, Delivers, PresentDies,
              Denies, Redeems, Listens, Offer, SignChallenge,
              PresentAgain, ChallengeEnds, CodeEnds, SignOut, keyVars, hubKeyVars, clientKeyVars
<1> QED BY KeySteps, <1>1, <1>2, <1>3, <1>4, <1>5

-----------------------------------------------------------------------------
LEMMA KeyInitHolds ==
  ASSUME KeyInit
  PROVE  KeyInv
<1> USE DEF KeyInit, NoGrant, NotEnrolled
<1>p. kplan \in KeyPlans
  OBVIOUS
<1>s. /\ \A i \in Ceremonies : DeviceOf(i) \in Devices
      /\ kplan.enrolled \subseteq Devices
  BY <1>p, KeyPlanShape
<1>1. KeyRowsTyped
  BY <1>p DEF KeyRowsTyped, IdlePresent, PresentPcs
<1>2. KeyGrantsTyped
  BY DEF KeyGrantsTyped, MintPcs
<1>3. ChallengesAreTakenOnce
  BY PresentsOf DEF ChallengesAreTakenOnce, Taken, IdlePresent
<1>4. CountersFollow
  <2>1. \A d \in Devices : SignaturesOf(d) = {}
    BY DEF SignaturesOf
  <2>2. \A d \in Devices : Cardinality(SignaturesOf(d)) = 0
    BY <2>1, FS_EmptySet
  <2>3. \A d \in Devices : counters[d] <= 0 /\ signed[d] = 0
    OBVIOUS
  <2>4. \A i \in Ceremonies : ceremony[i].count <= signed[DeviceOf(i)]
    BY <1>s, <2>3
  <2> QED BY <2>2, <2>3, <2>4 DEF CountersFollow
<1>5. EnrollmentIsOnce
  <2>1. Enrolled = kplan.enrolled
    BY <1>s DEF Enrolled
  <2> QED BY <2>1 DEF EnrollmentIsOnce, IdlePresent
<1>6. CodesAreSpentOnce
  BY DEF CodesAreSpentOnce, MintIsSound, IdlePresent
<1>7. GrantsAreOnce
  BY DEF GrantsAreOnce
<1>8. CacheIsOfGrants
  BY DEF CacheIsOfGrants
<1> QED BY <1>1, <1>2, <1>3, <1>4, <1>5, <1>6, <1>7, <1>8 DEF KeyInv, KeyTyped

LEMMA KeyStepHolds ==
  ASSUME KeyInv, [KeyNext]_keyVars
  PROVE  KeyInv'
<1> USE DEF KeyInv
<1>1. KeyTyped'
  BY KeyRowsTypedStep, KeyGrantsTypedStep DEF KeyTyped
<1>2. ChallengesAreTakenOnce' /\ CountersFollow' /\ EnrollmentIsOnce'
  BY ChallengesStep, CountersStep, EnrollmentStep
<1>3. CodesAreSpentOnce' /\ GrantsAreOnce' /\ CacheIsOfGrants'
  BY CodesStep, GrantsStep, CacheStep
<1> QED BY <1>1, <1>2, <1>3

(* A set whose members are all equal has at most one. *)
LEMMA AtMostOne ==
  ASSUME NEW S, \A x, y \in S : x = y
  PROVE  Cardinality(S) <= 1
<1>1. CASE S = {}
  BY <1>1, FS_EmptySet
<1>2. CASE S # {}
  <2>1. PICK x \in S : TRUE
    BY <1>2
  <2>2. S = {x}
    BY <2>1
  <2> QED BY <2>2, FS_Singleton
<1> QED BY <1>1, <1>2

(* Of a signature, a code or a grant that two would have used, one did. *)
LEMMA KeysSound ==
  ASSUME KeyInv
  PROVE  KeysAreSound
<1> USE DEF KeyInv
<1>f. /\ counters \in [Devices -> {NotEnrolled} \cup Nat] /\ signed \in [Devices -> Nat]
      /\ codes \subseteq Ceremonies
  BY DEF KeyTyped, KeyRowsTyped
<1>1. KeyTypeOK
  <2>1. counters \in [Devices -> {NotEnrolled} \cup 0..Len(kplan.ceremonies)]
    <3>1. ASSUME NEW d \in Devices, counters[d] # NotEnrolled PROVE counters[d] \in 0..Len(kplan.ceremonies)
      <4>1. Cardinality(SignaturesOf(d)) \in Nat /\ Cardinality(SignaturesOf(d)) <= Len(kplan.ceremonies)
        BY SignaturesAreFinite
      <4>2. counters[d] \in Nat /\ signed[d] \in Nat /\ counters[d] <= signed[d] /\ signed[d] <= Cardinality(SignaturesOf(d))
        BY <1>f, <3>1 DEF CountersFollow
      <4>3. Len(kplan.ceremonies) \in Nat
        BY KeyPlanShape DEF KeyTyped, KeyRowsTyped
      <4> DEFINE k == Cardinality(SignaturesOf(d))
                 n == Len(kplan.ceremonies)
      <4>4. k \in Nat /\ n \in Nat /\ k <= n /\ signed[d] <= k
        BY <4>1, <4>2, <4>3
      <4> HIDE DEF k, n
      <4>5. counters[d] \in 0..n
        BY <4>2, <4>4
      <4> QED BY <4>5 DEF n
    <3> QED BY <1>f, <3>1
  <2>2. challenges \subseteq {i \in Ceremonies : ceremony[i].at # "idle"}
    BY DEF ChallengesAreTakenOnce, KeyTyped, KeyRowsTyped
  <2>3. \A i \in codes : Kind(i) = "grant" /\ i \notin challenges
    BY DEF CodesAreSpentOnce, Coded, ChallengesAreTakenOnce, Taken
  <2>4. \A d \in Enrolled : counters[d] <= signed[d]
    BY DEF Enrolled, CountersFollow
  <2>5. /\ cached # NoGrant => \E g \in readGrants : g.id = cached
        /\ \A m \in Mints : mint[m].at \in {"granted", "saved"} => \E g \in readGrants : g.id = mint[m].code
    BY DEF CacheIsOfGrants, CodesAreSpentOnce, MintIsSound, GrantedTo
  <2> QED BY <2>1, <2>2, <2>3, <2>4, <2>5 DEF KeyTypeOK
<1>2. SetupIsOnce
  BY AtMostOne DEF SetupIsOnce, EnrollmentIsOnce
<1>3. TouchIsOnce
  <2>1. ASSUME NEW i \in Ceremonies
        PROVE  Cardinality({p \in Presents : p[1] = i /\ present[p].at \in {"consumed", "read", "stamped", "coded", "verified"}}) <= 1
    <3> DEFINE S == {p \in Presents : p[1] = i /\ present[p].at \in {"consumed", "read", "stamped", "coded", "verified"}}
    <3>1. \A p, q \in S : p = q
      BY DEF ChallengesAreTakenOnce, Taken
    <3> HIDE DEF S
    <3>2. Cardinality(S) <= 1
      BY <3>1, AtMostOne
    <3> QED BY <3>2 DEF S
  <2>2. \A g \in readGrants : g.id \notin codes /\ \A h \in readGrants : g.id = h.id => g = h
    BY DEF GrantsAreOnce
  <2>3. ASSUME NEW m \in Mints PROVE Cardinality({g \in readGrants : g.mint = m /\ ~g.revoked}) <= 1
    <3> DEFINE S == {g \in readGrants : g.mint = m /\ ~g.revoked}
    <3>1. \A g, h \in S : g = h
      BY DEF GrantsAreOnce
    <3> HIDE DEF S
    <3>2. Cardinality(S) <= 1
      BY <3>1, AtMostOne
    <3> QED BY <3>2 DEF S
  <2> QED BY <2>1, <2>2, <2>3 DEF TouchIsOnce
<1> QED BY <1>1, <1>2, <1>3 DEF KeysAreSound, KeysAreTrue

(* The invariant of a behaviour of passkeys and read grants (webauthn.ts,   *)
(* read-grants.ts, client.py): a challenge is taken by one signature, a     *)
(* code is exchanged by the run it was made for, and a grant comes of it    *)
(* once.                                                                    *)
THEOREM KeyInvariant == KeySpec => []KeyInv
<1>1. KeyInit => KeyInv
  BY KeyInitHolds
<1>2. KeyInv /\ [KeyNext]_keyVars => KeyInv'
  BY KeyStepHolds
<1> QED BY <1>1, <1>2, PTL DEF KeySpec

(* One setup enrolls one passkey, and one touch of a passkey is one         *)
(* session, one code or one grant, of the run of the client that asked,     *)
(* however requests are doubled and overtake one another (webauthn.ts,      *)
(* read-grants.ts).                                                         *)
THEOREM KeysStaySound == KeySpec => []KeysAreSound
<1>1. KeyInv => KeysAreSound
  BY KeysSound
<1> QED BY <1>1, KeyInvariant, PTL

(* The counter kept for a passkey never falls: a registration finds its     *)
(* device not enrolled, and of two sign-ins the lower counter does not win  *)
(* (authVerify).                                                            *)
THEOREM CountersNeverFall == KeySpec => CountersRise
<1>1. ASSUME KeyInv, [KeyNext]_keyVars, NEW d \in Devices PROVE counters'[d] >= counters[d]
  <2>f. /\ counters \in [Devices -> {NotEnrolled} \cup Nat]
        /\ ceremony \in [Ceremonies -> [at : {"idle", "offered", "signed"}, count : Nat]]
    BY <1>1 DEF KeyInv, KeyTyped, KeyRowsTyped
  <2>t. \A p \in Presents : p[1] \in Ceremonies /\ ceremony[p[1]].count \in Nat
    BY <2>f, PresentsOf
  <2>d. counters[d] \in Int
    BY <2>f DEF NotEnrolled
  <2>1. ASSUME NEW p \in Presents, Enroll(p) PROVE counters'[d] >= counters[d]
    <3>1. DeviceOf(p[1]) \notin Enrolled
      BY <1>1, <2>1, EnrollsOnce DEF KeyInv, Enroll
    <3>2. counters[DeviceOf(p[1])] = NotEnrolled \/ DeviceOf(p[1]) # d
      BY <3>1 DEF Enrolled
    <3>3. counters' = counters \/ counters' = [counters EXCEPT ![DeviceOf(p[1])] = ceremony[p[1]].count]
      BY <2>1 DEF Enroll
    <3> QED BY <2>f, <2>t, <2>d, <3>2, <3>3 DEF NotEnrolled
  <2>2. ASSUME NEW p \in Presents, StampsCounter(p) PROVE counters'[d] >= counters[d]
    BY <2>2, <2>f, <2>t, <2>d DEF StampsCounter, CounterAfter
  <2>3. ASSUME counters' = counters PROVE counters'[d] >= counters[d]
    BY <2>3, <2>d
  <2>4. ASSUME \/ \E p \in Presents : \/ ReadsSession(p) \/ Consumes(p) \/ ReadsCredential(p)
                                      \/ SignsIn(p) \/ WritesCode(p) \/ Delivers(p) \/ PresentDies(p)
               \/ \E m \in Mints : Denies(m) \/ Redeems(m) \/ Issues(m) \/ Saves(m) \/ Listens(m)
               \/ \E i \in Ceremonies : Offer(i) \/ SignChallenge(i) \/ PresentAgain(i) \/ ChallengeEnds(i) \/ CodeEnds(i)
               \/ \E g \in readGrants : GrantAges(g) \/ RevokeGrant(g)
               \/ SignOut \/ UNCHANGED keyVars
        PROVE  counters' = counters
    BY <2>4 DEF ReadsSession, Consumes, ReadsCredential, SignsIn, WritesCode, Delivers, PresentDies, Denies, Redeems, Issues,
                Saves, Listens, Offer, SignChallenge, PresentAgain, ChallengeEnds, CodeEnds, GrantAges, RevokeGrant, SignOut,
                keyVars, hubKeyVars, clientKeyVars
  <2> QED BY <1>1, KeySteps, <2>1, <2>2, <2>3, <2>4
<1>2. KeyInv /\ [KeyNext]_keyVars => [\A d \in Devices : counters'[d] >= counters[d]]_keyVars
  BY <1>1
<1> QED BY <1>2, KeyInvariant, PTL DEF KeySpec, CountersRise

-----------------------------------------------------------------------------
(* Broker.                                                                  *)

MaybeTokens == BrokerTokens \cup {NoToken}
JobKinds    == {"refresh", "exchange", "disconnect"}
Modes       == {"cached", "force_refresh"}
Outcomes    == {"none", "served", "refused", "gone", "missing", "reauthorization_required", "refresh_failed"}

MutexJobs ==
  [kind : JobKinds, mode : Modes, code : Lineages, at : {"queued", "sent", "answered"},
   renew : MaybeTokens, access : MaybeTokens, answer : {"none", "granted", "invalid_grant", "failed"}]

Grants ==
  [state : {"missing", "authorized", "reauthorization_required"}, access : MaybeTokens, renew : MaybeTokens, fresh : BOOLEAN]

CertOpStates ==
  [at : {"new", "waiting", "calling", "accepted", "turned down", "done"}, token : MaybeTokens, refused : MaybeTokens, out : Outcomes]

ProviderStates ==
  [serial : [Lineages -> Nat], dead : SUBSET Lineages, live : SUBSET BrokerTokens, due : SUBSET BrokerTokens,
   codes : SUBSET (1..MaxLinks)]

PersonTyped ==
  /\ bplan \in BrokerPlans /\ bfaults \subseteq BrokerFaults
  /\ bspent \in [links : 0..bplan.links, disconnects : 0..bplan.disconnects, ages : Nat]
  /\ pendingLink \in [link : Lineages, fresh : BOOLEAN]
  /\ link \in [1..MaxLinks -> {"none", "open", "consented", "denied"}]

ObjectTyped ==
  /\ grant \in Grants /\ certOp \in [CertOps -> CertOpStates] /\ lineup \in Seq(MutexJobs)
  /\ provider \in ProviderStates /\ dropped \subseteq Lineages

BrokerTyped == PersonTyped /\ ObjectTyped

(* The job that has the mutex. *)
Active == IF lineup = <<>> THEN MutexJob("none", "cached", 0) ELSE lineup[1]

Granting(kind) == Active.kind = kind /\ Active.at = "answered" /\ Active.answer = "granted"

(* The grant and the requests have their tokens. *)
GrantIsWhole ==
  /\ (grant.access = NoToken) <=> (grant.state # "authorized")
  /\ (grant.renew = NoToken) <=> (grant.state = "missing")
  /\ grant.fresh => grant.state = "authorized"
  /\ grant.state = "authorized" /\ bspent.ages = 0 => grant.fresh

OpIsWhole(op) ==
  /\ (op.token = NoToken) <=> op.at \in {"new", "waiting", "done"}
  /\ op.at = "waiting" => Refreshing
  /\ op.at = "new" => op.refused = NoToken

OpsAreWhole == \A o \in CertOps : OpIsWhole(certOp[o])

JobIsWhole(job) ==
  /\ job.kind = "disconnect" => bplan.disconnects > 0
  /\ job.kind = "exchange" => job.code \in 1..MaxLinks
  /\ job.kind = "refresh" /\ bspent.ages = 0 => job.mode # "cached"
  /\ job.at # "answered" => job.answer = "none"

(* One job at a time, and one refresh for all who wait. *)
QueueIsOrdered ==
  /\ \A i, j \in 1..Len(lineup) : lineup[i].kind = "refresh" /\ lineup[j].kind = "refresh" => i = j
  /\ \A i \in 2..Len(lineup) : lineup[i].at = "queued"
  /\ \A i \in 1..Len(lineup) : JobIsWhole(lineup[i])

(* Whoever has the mutex works on the grant that is stored. *)
ActiveIsOnGrant ==
  /\ Active.kind = "refresh" /\ Active.at # "queued" => grant.state = "authorized"
  /\ Active.kind = "disconnect" /\ Active.at # "queued" => grant.state # "missing" /\ Active.renew = grant.renew
  /\ Active.kind = "refresh" /\ Active.at # "queued" /\ ~Granting("refresh") => Active.renew = grant.renew
  /\ Active.kind = "refresh" /\ Active.at = "answered" => Active.renew # NoToken /\ Active.renew[1] = grant.renew[1]
  /\ Active.at = "answered" => Active.answer # "none"
  /\ Active.answer = "invalid_grant" => Active.kind = "refresh"
  /\ Granting("refresh") \/ Granting("exchange") => Active.access # NoToken /\ Active.renew # NoToken

(* What has a serial number has been issued. *)
SerialsFollow ==
  /\ grant.state # "missing" => provider.serial[grant.renew[1]] > 0
  /\ Granting("exchange") => provider.serial[Active.renew[1]] > 0
  /\ \A l \in provider.dead \cup dropped : provider.serial[l] > 0
  /\ \A t \in provider.live \cup provider.due : t[2] <= provider.serial[t[1]]
  /\ \A n \in provider.codes : provider.serial[n] = 0 /\ link[n] \notin {"none", "open"}
  /\ \A n \in 1..MaxLinks : /\ n > bspent.links => link[n] = "none"
                            /\ link[n] \in {"none", "open"} => provider.serial[n] = 0

Missed == BStruck({"lost", "evict", "narrow"})

Newest(token) == bplan.rotating => token[2] = provider.serial[token[1]]

(* A broker that missed nothing holds the newest token of its lineage.      *)
NewestIsKept ==
  ~Missed =>
    /\ grant.state # "missing" /\ ~Granting("refresh") => Newest(grant.renew)
    /\ Granting("refresh") \/ Granting("exchange") => Newest(Active.renew)
    /\ Granting("disconnect") => Active.renew[1] \in provider.dead
    /\ dropped \subseteq provider.dead

(* Of a grant that nobody withdrew the lineage is alive until it is dropped.*)
GrantIsAlive ==
  /\ ~BStruck({"withdraw"}) /\ ~Missed =>
       /\ grant.state # "missing" /\ ~Granting("disconnect") => grant.renew[1] \notin provider.dead
       /\ Granting("exchange") => Active.renew[1] \notin provider.dead
  /\ ~BStruck({"withdraw"}) /\ bplan.disconnects = 0 => provider.dead = {}
  /\ grant.state # "missing" => grant.renew[1] \notin dropped
  /\ Granting("exchange") => Active.renew[1] \notin dropped

Excused == BStruck({"withdraw"}) \/ (Missed /\ (bplan.rotating \/ bplan.disconnects > 0))

VoidIsEarned ==
  grant.state = "reauthorization_required" \/ Active.answer = "invalid_grant" => Excused

(* A connected broker that at most one token is taken from.                 *)
Calm ==
  /\ bplan.connected /\ bplan.disconnects = 0
  /\ \/ bfaults = {} /\ bspent.ages <= 1
     \/ bfaults = {"refuse"} /\ bspent.ages = 0

Good(token) == token \in provider.live \ provider.due

QuietOp(op) ==
  /\ op.at # "done" => op.refused = NoToken
  /\ op.at # "turned down" /\ (op.at = "calling" => op.token \in provider.live)

CalmOp(op) ==
  /\ op.at = "calling" /\ op.refused # NoToken => Good(op.token)
  /\ op.at = "turned down" => op.refused = NoToken
  /\ op.at = "done" => op.out = "served"

(* Until the token ages or is refused nothing goes wrong.                   *)
QuietlyServed ==
  bspent.ages = 0 =>
    /\ provider.due = {}
    /\ Calm /\ bfaults = {} => ~Refreshing /\ \A o \in CertOps : QuietOp(certOp[o])

(* Then a request tries again, and the token it gets is good.               *)
CalmlyServed ==
  Calm =>
    /\ grant.state = "authorized"
    /\ Active.kind = "refresh" /\ Active.at = "answered" => Active.answer = "granted"
    /\ Granting("refresh") => Good(Active.access)
    /\ bfaults = {} /\ Granting("exchange") => Good(Active.access)
    /\ bfaults = {} /\ grant.fresh => Good(grant.access)
    /\ \A o \in CertOps : CalmOp(certOp[o])

BrokerInv ==
  /\ BrokerTyped /\ GrantIsWhole /\ OpsAreWhole /\ QueueIsOrdered /\ ActiveIsOnGrant /\ SerialsFollow
  /\ NewestIsKept /\ GrantIsAlive /\ VoidIsEarned /\ QuietlyServed /\ CalmlyServed

-----------------------------------------------------------------------------
LEMMA BrokerPlanShape ==
  ASSUME bplan \in BrokerPlans
  PROVE  /\ bplan.connected \in BOOLEAN /\ bplan.rotating \in BOOLEAN /\ bplan.links \in 0..MaxLinks
         /\ bplan.disconnects \in Nat /\ bplan.ages \in Nat /\ bplan.faults \subseteq BrokerFaults
         /\ MaxLinks \in Nat /\ 0 \in Lineages /\ 1..MaxLinks \subseteq Lineages /\ Lineages \subseteq Nat
BY BrokerAssumption DEF Lineages

LEMMA TokenShape ==
  /\ NoToken \notin BrokerTokens
  /\ \A t \in BrokerTokens : t[1] \in Lineages /\ t[2] \in Nat /\ t = <<t[1], t[2]>>
  /\ \A l \in Lineages, k \in Nat : <<l, k>> \in BrokerTokens /\ <<l, k>>[1] = l /\ <<l, k>>[2] = k
BY DEF BrokerTokens, NoToken

(* What a queue is after a job came, left, or went on. *)
LEMMA JobComes ==
  ASSUME NEW J, NEW s \in Seq(J), NEW job \in J
  PROVE  LET t == Append(s, job)
         IN  /\ t \in Seq(J) /\ Len(s) \in Nat /\ Len(t) = Len(s) + 1 /\ t # <<>>
             /\ \A i \in 1..Len(s) : t[i] = s[i]
             /\ t[Len(s) + 1] = job
OBVIOUS

LEMMA JobGoesOn ==
  ASSUME NEW J, NEW s \in Seq(J), s # <<>>, NEW job \in J
  PROVE  LET t == [s EXCEPT ![1] = job]
         IN  /\ t \in Seq(J) /\ Len(s) \in Nat /\ Len(s) > 0 /\ Len(t) = Len(s) /\ t # <<>>
             /\ t[1] = job
             /\ \A i \in 2..Len(s) : t[i] = s[i]
OBVIOUS

LEMMA JobGoes ==
  ASSUME NEW J, NEW s \in Seq(J), s # <<>>
  PROVE  LET t == [j \in 1..(Len(s) - 1) |-> IF j < 1 THEN s[j] ELSE s[j + 1]]
         IN  /\ t \in Seq(J) /\ Len(s) \in Nat /\ Len(s) > 0 /\ Len(t) = Len(s) - 1
             /\ \A i \in 1..Len(t) : t[i] = s[i + 1]
OBVIOUS

(* The steps, one by one; the first of the queue has the mutex. *)
LEMMA BrokerSteps ==
  ASSUME [BrokerNext]_brokerVars
  PROVE  \/ lineup # <<>> /\ (JobBegins(1) \/ ProviderAnswers(1) \/ JobEnds(1))
         \/ \E o \in CertOps : OpBegins(o) \/ CaAnswers(o) \/ OpGoesOn(o)
         \/ Authorize \/ Disconnect \/ TokenAges \/ LinkAges \/ Refuse \/ WithdrawGrant \/ Evict
         \/ \E n \in 1..MaxLinks : Consent(n) \/ Callback(n)
         \/ \E token \in provider.live : TokenEnds(token)
         \/ UNCHANGED brokerVars
<1>1. ASSUME MutexStep PROVE lineup # <<>> /\ (JobBegins(1) \/ ProviderAnswers(1) \/ JobEnds(1))
  <2>1. PICK i \in 1..Len(lineup) : JobBegins(i) \/ ProviderAnswers(i) \/ JobEnds(i)
    BY <1>1 DEF MutexStep
  <2>2. i \in Holders
    BY <2>1 DEF JobBegins, ProviderAnswers, JobEnds
  <2>3. lineup # <<>> /\ i = 1
    BY <2>2 DEF Holders
  <2> QED BY <2>1, <2>3
<1> QED BY <1>1 DEF BrokerNext, OpStep

-----------------------------------------------------------------------------
(* What the provider does for a job. *)
IssuesTokens(l) ==
  /\ provider'.serial = [provider.serial EXCEPT ![l] = @ + 1] /\ provider'.live = provider.live \cup {Issued(l)}
  /\ provider'.dead = provider.dead /\ provider'.due = provider.due

KillsLineage(l) ==
  /\ provider'.dead = provider.dead \cup {l} /\ provider'.live = {t \in provider.live : t[1] # l}
  /\ provider'.serial = provider.serial /\ provider'.due = provider.due /\ provider'.codes = provider.codes

LEMMA ActiveJob ==
  ASSUME BrokerTyped, lineup # <<>>
  PROVE  Active = lineup[1] /\ Active \in MutexJobs /\ Len(lineup) \in Nat /\ Len(lineup) > 0
<1>1. lineup \in Seq(MutexJobs)
  BY DEF BrokerTyped, ObjectTyped
<1>2. lineup[1] \in MutexJobs /\ Len(lineup) \in Nat /\ Len(lineup) > 0
  BY <1>1
<1> QED BY <1>2 DEF Active

(* A job that was sent asks about tokens there are. *)
LEMMA SentJob ==
  ASSUME BrokerTyped, GrantIsWhole, ActiveIsOnGrant, lineup # <<>>, Active.at = "sent"
  PROVE  /\ Active.kind # "exchange" => Active.renew = grant.renew /\ grant.state # "missing" /\ Active.renew \in BrokerTokens
         /\ Active.code \in Lineages
BY ActiveJob DEF GrantIsWhole, ActiveIsOnGrant, Granting, MutexJobs, JobKinds, BrokerTyped, ObjectTyped, Grants, MaybeTokens

LEMMA ProviderIsPlain ==
  ASSUME BrokerTyped, NEW job \in MutexJobs, job.kind # "exchange" => job.renew \in BrokerTokens, ProviderDoes(job)
  PROVE  /\ provider' \in ProviderStates
         /\ \/ job.kind = "exchange" /\ Grantable(job) /\ IssuesTokens(job.code) /\ provider'.codes = provider.codes \ {job.code}
            \/ job.kind = "refresh" /\ Grantable(job) /\ IssuesTokens(job.renew[1]) /\ provider'.codes = provider.codes
            \/ job.kind = "disconnect" /\ Honoured(job.renew) /\ KillsLineage(job.renew[1])
            \/ /\ provider' = provider
               /\ job.kind = "disconnect" => ~Honoured(job.renew)
               /\ job.kind # "disconnect" => ~Grantable(job)
<1>f. provider \in ProviderStates /\ job.code \in Lineages /\ job.kind \in JobKinds
  BY DEF BrokerTyped, ObjectTyped, MutexJobs
<1>g. /\ provider.serial \in [Lineages -> Nat] /\ provider.dead \subseteq Lineages /\ provider.live \subseteq BrokerTokens
      /\ provider.due \subseteq BrokerTokens /\ provider.codes \subseteq 1..MaxLinks
  BY <1>f DEF ProviderStates
<1>1. ASSUME NEW l \in Lineages
      PROVE  /\ Issuing(l) \in ProviderStates
             /\ Issuing(l).serial = [provider.serial EXCEPT ![l] = @ + 1] /\ Issuing(l).live = provider.live \cup {Issued(l)}
             /\ Issuing(l).dead = provider.dead /\ Issuing(l).due = provider.due /\ Issuing(l).codes = provider.codes
  <2>1. Issued(l) \in BrokerTokens
    BY <1>g, TokenShape DEF Issued
  <2>2. [provider.serial EXCEPT ![l] = @ + 1] \in [Lineages -> Nat]
    BY <1>g
  <2>3. provider.live \cup {Issued(l)} \in SUBSET BrokerTokens
    BY <1>g, <2>1
  <2> HIDE DEF Issued
  <2> QED BY <1>f, <2>2, <2>3 DEF Issuing, ProviderStates
<1>2. CASE job.kind = "exchange" /\ Grantable(job)
  <2> DEFINE issuing == Issuing(job.code)
  <2>1. provider' = [issuing EXCEPT !.codes = @ \ {job.code}]
    BY <1>2 DEF ProviderDoes
  <2>2. /\ issuing \in ProviderStates
        /\ issuing.serial = [provider.serial EXCEPT ![job.code] = @ + 1] /\ issuing.live = provider.live \cup {Issued(job.code)}
        /\ issuing.dead = provider.dead /\ issuing.due = provider.due /\ issuing.codes = provider.codes
    BY <1>1, <1>f
  <2> HIDE DEF issuing
  <2>3. provider' \in ProviderStates /\ provider'.codes = provider.codes \ {job.code}
        /\ provider'.serial = issuing.serial /\ provider'.live = issuing.live
        /\ provider'.dead = issuing.dead /\ provider'.due = issuing.due
    BY <2>1, <2>2 DEF ProviderStates
  <2> QED BY <1>2, <2>2, <2>3 DEF IssuesTokens
<1>3. CASE job.kind = "refresh" /\ Grantable(job)
  <2>1. provider' = Issuing(job.renew[1]) /\ job.renew[1] \in Lineages
    BY <1>3, TokenShape DEF ProviderDoes
  <2> QED BY <1>1, <1>3, <2>1 DEF IssuesTokens
<1>4. CASE job.kind = "disconnect" /\ Honoured(job.renew)
  <2>1. provider' = Withdrawn(job.renew[1]) /\ job.renew[1] \in Lineages
    BY <1>4, TokenShape DEF ProviderDoes
  <2>2. provider' \in ProviderStates
    BY <1>f, <2>1 DEF Withdrawn, ProviderStates
  <2>3. KillsLineage(job.renew[1])
    BY <1>f, <2>1 DEF Withdrawn, ProviderStates, KillsLineage
  <2> QED BY <1>4, <2>2, <2>3
<1>5. CASE ~(\/ job.kind = "exchange" /\ Grantable(job)
             \/ job.kind = "refresh" /\ Grantable(job)
             \/ job.kind = "disconnect" /\ Honoured(job.renew))
  <2>1. provider' = provider
    BY <1>5 DEF ProviderDoes
  <2> QED BY <1>5, <1>f, <2>1 DEF JobKinds
<1> QED BY <1>2, <1>3, <1>4, <1>5

(* The answer to a job, and what a failure leaves of it. *)
LEMMA AnswerIsPlain ==
  ASSUME BrokerTyped, NEW job \in MutexJobs, job.kind # "exchange" => job.renew \in BrokerTokens
  PROVE  /\ Answered(job) \in MutexJobs /\ Answered(job).kind = job.kind /\ Answered(job).at = "answered"
         /\ Answered(job).mode = job.mode /\ Answered(job).code = job.code
         /\ Grantable(job) => Answered(job).answer = "granted"
         /\ ~Grantable(job) => /\ Answered(job).answer = IF job.kind = "refresh" THEN "invalid_grant" ELSE "failed"
                               /\ Answered(job).renew = job.renew
         /\ job.kind = "disconnect" => Grantable(job) /\ Answered(job).renew = job.renew
         /\ job.kind = "exchange" /\ Grantable(job) =>
              Answered(job).access = Issued(job.code) /\ Answered(job).renew = Issued(job.code)
         /\ job.kind = "refresh" /\ Grantable(job) =>
              /\ Answered(job).access = Issued(job.renew[1])
              /\ Answered(job).renew = IF bplan.rotating THEN Issued(job.renew[1]) ELSE job.renew
         /\ Failed(job) \in MutexJobs /\ Failed(job).kind = job.kind /\ Failed(job).at = "answered"
         /\ Failed(job).mode = job.mode /\ Failed(job).code = job.code
         /\ Failed(job).answer = "failed" /\ Failed(job).renew = job.renew
<1> DEFINE l == IF job.kind = "exchange" THEN job.code ELSE job.renew[1]
<1>1. l \in Lineages
  BY TokenShape DEF MutexJobs
<1>2. Issued(l) \in BrokerTokens
  <2>1. provider.serial \in [Lineages -> Nat]
    BY DEF BrokerTyped, ObjectTyped, ProviderStates
  <2> HIDE DEF l
  <2> QED BY <1>1, <2>1, TokenShape DEF Issued
<1>3. Issued(l) \in MaybeTokens /\ NoToken \in MaybeTokens /\ job.renew \in MaybeTokens /\ job.kind \in JobKinds
  BY <1>2 DEF MaybeTokens, MutexJobs
<1>4. /\ Failed(job) \in MutexJobs /\ Failed(job).kind = job.kind /\ Failed(job).at = "answered"
      /\ Failed(job).mode = job.mode /\ Failed(job).code = job.code
      /\ Failed(job).answer = "failed" /\ Failed(job).renew = job.renew
  BY DEF Failed, MutexJobs
<1>5. Answered(job) = [job EXCEPT !.at = "answered",
         !.answer = IF Grantable(job) THEN "granted" ELSE IF job.kind = "refresh" THEN "invalid_grant" ELSE "failed",
         !.access = IF Grantable(job) /\ job.kind # "disconnect" THEN Issued(l) ELSE NoToken,
         !.renew = IF Grantable(job) /\ (job.kind = "exchange" \/ (job.kind = "refresh" /\ bplan.rotating))
                     THEN Issued(l) ELSE @]
  BY DEF Answered
<1>6. job.kind = "disconnect" => Grantable(job)
  BY DEF Grantable
<1> HIDE DEF l
<1>7. /\ Answered(job) \in MutexJobs /\ Answered(job).kind = job.kind /\ Answered(job).at = "answered"
      /\ Answered(job).mode = job.mode /\ Answered(job).code = job.code
      /\ Answered(job).answer = IF Grantable(job) THEN "granted" ELSE IF job.kind = "refresh" THEN "invalid_grant" ELSE "failed"
      /\ Answered(job).access = IF Grantable(job) /\ job.kind # "disconnect" THEN Issued(l) ELSE NoToken
      /\ Answered(job).renew = IF Grantable(job) /\ (job.kind = "exchange" \/ (job.kind = "refresh" /\ bplan.rotating))
                     THEN Issued(l) ELSE job.renew
  <2> DEFINE a == IF Grantable(job) THEN "granted" ELSE IF job.kind = "refresh" THEN "invalid_grant" ELSE "failed"
             c == IF Grantable(job) /\ job.kind # "disconnect" THEN Issued(l) ELSE NoToken
             r == IF Grantable(job) /\ (job.kind = "exchange" \/ (job.kind = "refresh" /\ bplan.rotating)) THEN Issued(l) ELSE job.renew
  <2>1. a \in {"none", "granted", "invalid_grant", "failed"} /\ c \in MaybeTokens /\ r \in MaybeTokens
    BY <1>3
  <2>2. Answered(job) = [job EXCEPT !.at = "answered", !.answer = a, !.access = c, !.renew = r]
    BY <1>5
  <2> HIDE DEF a, c, r
  <2>3. /\ Answered(job) \in MutexJobs /\ Answered(job).kind = job.kind /\ Answered(job).at = "answered"
        /\ Answered(job).mode = job.mode /\ Answered(job).code = job.code
        /\ Answered(job).answer = a /\ Answered(job).access = c /\ Answered(job).renew = r
    BY <2>1, <2>2 DEF MutexJobs
  <2> QED BY <2>3 DEF a, c, r
<1>8. job.kind = "exchange" => l = job.code
  BY DEF l
<1>9. job.kind # "exchange" => l = job.renew[1]
  BY DEF l
<1> QED BY <1>4, <1>6, <1>7, <1>8, <1>9

-----------------------------------------------------------------------------
(* The queue and who is first in it. *)
Idle == Active.at = "queued" /\ Active.answer = "none"

LEMMA NewJob ==
  ASSUME NEW kind \in JobKinds, NEW mode \in Modes, NEW code \in Lineages
  PROVE  /\ MutexJob(kind, mode, code) \in MutexJobs /\ MutexJob(kind, mode, code).at = "queued"
         /\ MutexJob(kind, mode, code).answer = "none" /\ MutexJob(kind, mode, code).kind = kind
         /\ MutexJob(kind, mode, code).mode = mode /\ MutexJob(kind, mode, code).code = code
BY DEF MutexJob, MutexJobs, MaybeTokens

LEMMA QueueFrame ==
  ASSUME QueueIsOrdered, lineup' = lineup, bplan' = bplan, bspent'.ages = 0 => bspent.ages = 0
  PROVE  QueueIsOrdered' /\ Active' = Active /\ (Refreshing' <=> Refreshing)
BY DEF QueueIsOrdered, JobIsWhole, Active, Refreshing

LEMMA QueueComes ==
  ASSUME BrokerTyped, QueueIsOrdered, NEW job \in MutexJobs, lineup' = Append(lineup, job), job.at = "queued", job.answer = "none",
         bplan' = bplan, bspent'.ages = 0 => bspent.ages = 0,
         job.kind = "refresh" => ~Refreshing /\ (bspent'.ages = 0 => job.mode # "cached"),
         job.kind = "disconnect" => bplan.disconnects > 0, job.kind = "exchange" => job.code \in 1..MaxLinks
  PROVE  /\ QueueIsOrdered' /\ lineup' \in Seq(MutexJobs) /\ (Active' = Active \/ (Idle' /\ Active.at = "queued"))
         /\ Refreshing' <=> (Refreshing \/ job.kind = "refresh")
<1>1. lineup \in Seq(MutexJobs)
  BY DEF BrokerTyped, ObjectTyped
<1>2. /\ lineup' \in Seq(MutexJobs) /\ Len(lineup) \in Nat /\ Len(lineup') = Len(lineup) + 1 /\ lineup' # <<>>
      /\ \A i \in 1..Len(lineup) : lineup'[i] = lineup[i]
      /\ lineup'[Len(lineup) + 1] = job
  BY <1>1, JobComes
<1>3. JobIsWhole(job)'
  BY DEF JobIsWhole
<1>4. \A i \in 1..Len(lineup) : JobIsWhole(lineup[i])'
  BY <1>2 DEF QueueIsOrdered, JobIsWhole
<1>5. Refreshing' <=> (Refreshing \/ job.kind = "refresh")
  BY <1>2 DEF Refreshing
<1>6. (\A i \in 1..Len(lineup) : JobIsWhole(lineup[i]))'
  <2>1. ASSUME NEW i \in 1..Len(lineup') PROVE JobIsWhole(lineup[i])'
    <3>1. i \in 1..Len(lineup) \/ lineup'[i] = job
      BY <1>2
    <3> QED BY <3>1, <1>3, <1>4
  <2> QED BY <2>1
<1>7. (\A i, j \in 1..Len(lineup) : lineup[i].kind = "refresh" /\ lineup[j].kind = "refresh" => i = j)'
  BY <1>2 DEF QueueIsOrdered, Refreshing
<1>8. (\A i \in 2..Len(lineup) : lineup[i].at = "queued")'
  BY <1>2 DEF QueueIsOrdered
<1>9. Active' = Active \/ (Idle' /\ Active.at = "queued")
  <2>1. CASE lineup = <<>>
    BY <1>2, <2>1 DEF Active, Idle, MutexJob
  <2>2. CASE lineup # <<>>
    <3>1. Len(lineup) > 0
      BY <1>1, <2>2
    <3> QED BY <1>2, <2>2, <3>1 DEF Active
  <2> QED BY <2>1, <2>2
<1> QED BY <1>2, <1>5, <1>6, <1>7, <1>8, <1>9 DEF QueueIsOrdered

LEMMA QueueLeaves ==
  ASSUME BrokerTyped, QueueIsOrdered, lineup # <<>>, JobLeaves(1), bplan' = bplan, bspent' = bspent
  PROVE  /\ QueueIsOrdered' /\ lineup' \in Seq(MutexJobs) /\ Idle'
         /\ Active.kind = "refresh" => ~Refreshing'
         /\ Active.kind # "refresh" => (Refreshing' <=> Refreshing)
<1>1. lineup \in Seq(MutexJobs) /\ Active = lineup[1]
  BY DEF BrokerTyped, ObjectTyped, Active
<1>2. /\ lineup' \in Seq(MutexJobs) /\ Len(lineup) \in Nat /\ Len(lineup) > 0 /\ Len(lineup') = Len(lineup) - 1
      /\ \A i \in 1..Len(lineup') : lineup'[i] = lineup[i + 1]
  BY <1>1, JobGoes DEF JobLeaves
<1>3. \A i \in 1..Len(lineup') : i + 1 \in 2..Len(lineup) /\ i + 1 \in 1..Len(lineup)
  BY <1>2
<1>4. (\A i, j \in 1..Len(lineup) : lineup[i].kind = "refresh" /\ lineup[j].kind = "refresh" => i = j)'
  <2>1. ASSUME NEW i \in 1..Len(lineup'), NEW j \in 1..Len(lineup'),
               lineup'[i].kind = "refresh", lineup'[j].kind = "refresh"
        PROVE  i = j
    <3>1. i + 1 \in 1..Len(lineup) /\ j + 1 \in 1..Len(lineup)
      BY <1>3
    <3>2. lineup[i + 1].kind = "refresh" /\ lineup[j + 1].kind = "refresh"
      BY <1>2, <2>1
    <3>3. i + 1 = j + 1
      BY <3>1, <3>2 DEF QueueIsOrdered
    <3> QED BY <1>2, <3>3
  <2> QED BY <2>1
<1>5. \A i \in 1..Len(lineup') : lineup'[i].at = "queued"
  BY <1>2, <1>3 DEF QueueIsOrdered
<1>6. (\A i \in 1..Len(lineup) : JobIsWhole(lineup[i]))'
  BY <1>2, <1>3 DEF QueueIsOrdered, JobIsWhole
<1>7. Idle'
  <2>1. CASE lineup' = <<>>
    BY <2>1 DEF Active, Idle, MutexJob
  <2>2. CASE lineup' # <<>>
    <3>1. Len(lineup') > 0 /\ Active' = lineup'[1]
      BY <1>2, <2>2 DEF Active
    <3>2. Active'.at = "queued" /\ JobIsWhole(lineup[1])'
      BY <1>2, <1>5, <1>6, <3>1
    <3> QED BY <3>1, <3>2 DEF Idle, JobIsWhole
  <2> QED BY <2>1, <2>2
<1>8. Active.kind = "refresh" => ~Refreshing'
  <2>1. ASSUME Active.kind = "refresh", NEW i \in 1..Len(lineup'), lineup'[i].kind = "refresh" PROVE FALSE
    <3>1. 1 \in 1..Len(lineup) /\ i + 1 \in 1..Len(lineup) /\ i + 1 # 1 /\ i + 1 \in 2..Len(lineup)
      BY <1>2, <2>1
    <3>2. lineup[1].kind = "refresh" /\ lineup[i + 1].kind = "refresh"
      BY <1>1, <1>2, <2>1
    <3> QED BY <3>1, <3>2 DEF QueueIsOrdered
  <2> QED BY <2>1 DEF Refreshing
<1>9. Active.kind # "refresh" => (Refreshing' <=> Refreshing)
  <2>1. ASSUME Active.kind # "refresh", NEW i \in 1..Len(lineup), lineup[i].kind = "refresh" PROVE Refreshing'
    <3>1. i - 1 \in 1..Len(lineup') /\ (i - 1) + 1 = i
      BY <1>1, <1>2, <2>1
    <3> QED BY <1>2, <2>1, <3>1 DEF Refreshing
  <2>2. ASSUME NEW i \in 1..Len(lineup'), lineup'[i].kind = "refresh" PROVE Refreshing
    BY <1>2, <1>3, <2>2 DEF Refreshing
  <2> QED BY <2>1, <2>2 DEF Refreshing
<1> QED BY <1>2, <1>3, <1>4, <1>5, <1>6, <1>7, <1>8, <1>9 DEF QueueIsOrdered

LEMMA QueueGoesOn ==
  ASSUME BrokerTyped, QueueIsOrdered, lineup # <<>>, NEW job \in MutexJobs, lineup' = [lineup EXCEPT ![1] = job],
         job.kind = Active.kind, job.mode = Active.mode, job.code = Active.code, job.at # "answered" => job.answer = "none",
         bplan' = bplan, bspent' = bspent
  PROVE  QueueIsOrdered' /\ lineup' \in Seq(MutexJobs) /\ Active' = job /\ (Refreshing' <=> Refreshing)
<1>1. lineup \in Seq(MutexJobs) /\ Active = lineup[1]
  BY DEF BrokerTyped, ObjectTyped, Active
<1>2. /\ lineup' \in Seq(MutexJobs) /\ Len(lineup) \in Nat /\ Len(lineup) > 0 /\ Len(lineup') = Len(lineup) /\ lineup' # <<>>
      /\ lineup'[1] = job
      /\ \A i \in 2..Len(lineup) : lineup'[i] = lineup[i]
  BY <1>1, JobGoesOn
<1>3. \A i \in 1..Len(lineup) : lineup'[i].kind = lineup[i].kind
  BY <1>1, <1>2
<1>4. (\A i, j \in 1..Len(lineup) : lineup[i].kind = "refresh" /\ lineup[j].kind = "refresh" => i = j)'
  BY <1>2, <1>3 DEF QueueIsOrdered
<1>5. (\A i \in 2..Len(lineup) : lineup[i].at = "queued")'
  BY <1>2 DEF QueueIsOrdered
<1>6. JobIsWhole(Active)
  BY <1>1, <1>2 DEF QueueIsOrdered
<1>7. JobIsWhole(job)'
  BY <1>6 DEF JobIsWhole
<1>8. \A i \in 2..Len(lineup) : JobIsWhole(lineup[i])'
  BY <1>2 DEF QueueIsOrdered, JobIsWhole
<1>9. (\A i \in 1..Len(lineup) : JobIsWhole(lineup[i]))'
  <2>1. ASSUME NEW i \in 1..Len(lineup') PROVE JobIsWhole(lineup[i])'
    <3>1. lineup'[i] = job \/ i \in 2..Len(lineup)
      BY <1>2
    <3> QED BY <3>1, <1>7, <1>8
  <2> QED BY <2>1
<1>10. Refreshing' <=> Refreshing
  BY <1>2, <1>3 DEF Refreshing
<1>11. Active' = job
  BY <1>2 DEF Active
<1> QED BY <1>2, <1>4, <1>5, <1>9, <1>10, <1>11 DEF QueueIsOrdered

-----------------------------------------------------------------------------
(* A step that leaves the grant and the lineages alone, and gives the mutex *)
(* to nobody who has begun.                                                 *)
LEMMA GrantFrame ==
  ASSUME ActiveIsOnGrant, NewestIsKept, GrantIsAlive, VoidIsEarned, bplan' = bplan, bfaults \subseteq bfaults',
         grant'.state = grant.state, grant'.renew = grant.renew, dropped' = dropped,
         provider'.serial = provider.serial, provider'.dead = provider.dead,
         Active' = Active \/ (Idle' /\ (Active.at = "queued" \/ Missed'))
  PROVE  ActiveIsOnGrant' /\ NewestIsKept' /\ GrantIsAlive' /\ VoidIsEarned'
<1>1. (~Missed' => ~Missed) /\ (~BStruck({"withdraw"})' => ~BStruck({"withdraw"})) /\ (Excused => Excused')
  BY DEF Missed, BStruck, Excused
<1>2. CASE Active' = Active
  <2>1. \A kind \in JobKinds : Granting(kind)' <=> Granting(kind)
    BY <1>2 DEF Granting
  <2>2. (Granting("refresh")' <=> Granting("refresh")) /\ (Granting("exchange")' <=> Granting("exchange"))
        /\ (Granting("disconnect")' <=> Granting("disconnect"))
    BY <2>1 DEF JobKinds
  <2>3. ActiveIsOnGrant'
    BY <1>2, <2>2 DEF ActiveIsOnGrant
  <2>4. NewestIsKept'
    BY <1>1, <1>2, <2>2 DEF NewestIsKept, Newest
  <2>5. GrantIsAlive'
    BY <1>1, <1>2, <2>2 DEF GrantIsAlive
  <2>6. VoidIsEarned'
    BY <1>1, <1>2 DEF VoidIsEarned
  <2> QED BY <2>3, <2>4, <2>5, <2>6
<1>3. CASE Idle' /\ (Active.at = "queued" \/ Missed')
  <2>1. ~Granting("refresh")' /\ ~Granting("exchange")' /\ ~Granting("disconnect")'
    BY <1>3 DEF Granting, Idle
  <2>2. ~Missed' => ~Granting("refresh") /\ ~Granting("exchange") /\ ~Granting("disconnect")
    BY <1>3 DEF Granting
  <2>3. ActiveIsOnGrant'
    BY <1>3, <2>1 DEF ActiveIsOnGrant, Idle
  <2>4. NewestIsKept'
    BY <1>1, <2>1, <2>2 DEF NewestIsKept, Newest
  <2>5. GrantIsAlive'
    BY <1>1, <2>1, <2>2 DEF GrantIsAlive
  <2>6. VoidIsEarned'
    BY <1>1, <1>3 DEF VoidIsEarned, Idle
  <2> QED BY <2>3, <2>4, <2>5, <2>6
<1> QED BY <1>2, <1>3

LEMMA SerialsFrame ==
  ASSUME SerialsFollow, grant'.state = grant.state, grant'.renew = grant.renew, dropped' = dropped,
         provider'.serial = provider.serial, provider'.dead = provider.dead,
         provider'.live \cup provider'.due \subseteq provider.live \cup provider.due,
         \A n \in provider'.codes : provider.serial[n] = 0 /\ link'[n] \notin {"none", "open"},
         \A n \in 1..MaxLinks : /\ n > bspent'.links => link'[n] = "none"
                                /\ link'[n] \in {"none", "open"} => provider.serial[n] = 0,
         Active' = Active \/ Idle'
  PROVE  SerialsFollow'
<1>1. Granting("exchange")' => provider.serial[Active'.renew[1]] > 0
  BY DEF SerialsFollow, Granting, Idle
<1> QED BY <1>1 DEF SerialsFollow

(* The person does nothing. *)
LEMMA PersonFrame ==
  ASSUME PersonTyped, UNCHANGED <<pendingLink, link, bplan, bspent>>,
         bfaults' = bfaults \/ \E kind \in BrokerFaults : BrokerFault(kind)
  PROVE  PersonTyped'
BY DEF PersonTyped, BrokerFault

(* What a request does next. *)
OpWaits(o, new) ==
  /\ new.at = "waiting" /\ new.token = NoToken /\ grant.state = "authorized"
  /\ \E mode \in Modes :
       /\ \/ mode = "cached" /\ certOp[o].at = "new" /\ ~grant.fresh /\ new.refused = certOp[o].refused
          \/ mode = "force_refresh" /\ certOp[o].at = "turned down"
       /\ lineup' = IF Refreshing THEN lineup ELSE Append(lineup, MutexJob("refresh", mode, 0))

OpGoes(o, new) ==
  /\ certOp' = [certOp EXCEPT ![o] = new]
  /\ \/ /\ new.at = "done" /\ new.token = NoToken /\ lineup' = lineup
        /\ \/ certOp[o].at = "accepted" /\ new.out = "served"
           \/ grant.state # "authorized"
           \/ certOp[o].at = "turned down" /\ certOp[o].refused # NoToken
     \/ /\ new.at = "calling" /\ new.token = grant.access /\ grant.state = "authorized" /\ grant.fresh
        /\ new.refused = NoToken /\ lineup' = lineup
     \/ /\ new.at \in {"accepted", "turned down"} /\ new.token = certOp[o].token /\ new.refused = certOp[o].refused
        /\ certOp[o].at = "calling" /\ (new.at = "accepted" <=> certOp[o].token \in provider.live) /\ lineup' = lineup
     \/ OpWaits(o, new)

LEMMA OpIsPlain ==
  ASSUME BrokerTyped, OpsAreWhole, NEW o \in CertOps, OpBegins(o) \/ CaAnswers(o) \/ OpGoesOn(o)
  PROVE  /\ UNCHANGED <<grant, pendingLink, provider, link, dropped, bplan, bspent, bfaults>>
         /\ \E new \in CertOpStates : OpGoes(o, new)
<1>f. certOp \in [CertOps -> CertOpStates] /\ grant \in Grants
  BY DEF BrokerTyped, ObjectTyped
<1>g. grant.access \in MaybeTokens /\ (grant.state # "authorized" => grant.state \in Outcomes) /\ NoToken \in MaybeTokens
  BY <1>f DEF Grants, MaybeTokens, Outcomes
<1>u. UNCHANGED <<grant, pendingLink, provider, link, dropped, bplan, bspent, bfaults>>
  BY DEF OpBegins, CaAnswers, OpGoesOn
<1>0. ASSUME NEW op \in CertOpStates
      PROVE  /\ \A out \in Outcomes : /\ OpEnds(op, out) \in CertOpStates /\ OpEnds(op, out).at = "done"
                                      /\ OpEnds(op, out).token = NoToken /\ OpEnds(op, out).out = out
             /\ \A t \in MaybeTokens : /\ OpCalls(op, t) \in CertOpStates /\ OpCalls(op, t).at = "calling"
                                       /\ OpCalls(op, t).token = t /\ OpCalls(op, t).refused = op.refused
             /\ [op EXCEPT !.at = "waiting", !.token = NoToken] \in CertOpStates
             /\ [op EXCEPT !.at = "waiting", !.token = NoToken].at = "waiting"
             /\ [op EXCEPT !.at = "waiting", !.token = NoToken].token = NoToken
             /\ [op EXCEPT !.at = "waiting", !.token = NoToken].refused = op.refused
  BY <1>g DEF CertOpStates, OpEnds, OpCalls
<1>1. CASE OpBegins(o)
  <2>1. certOp[o].at = "new" /\ AccessToken(o, certOp[o], "cached") /\ certOp[o] \in CertOpStates /\ certOp[o].refused = NoToken
    BY <1>1, <1>f DEF OpBegins, OpsAreWhole, OpIsWhole
  <2>t. certOp[o] \in CertOpStates /\ certOp[o].refused = NoToken
    BY <2>1
  <2>2. CASE grant.state # "authorized"
    <3>1. certOp' = [certOp EXCEPT ![o] = OpEnds(certOp[o], grant.state)] /\ lineup' = lineup
      BY <2>1, <2>2 DEF AccessToken
    <3>8. PICK new : new = OpEnds(certOp[o], grant.state)
      OBVIOUS
    <3>7. new \in CertOpStates /\ new.at = "done" /\ new.token = NoToken
      BY ZenonT(40), <1>g, <1>0, <2>t, <2>2, <3>8
    <3>9. new \in CertOpStates /\ OpGoes(o, new)
      BY <2>2, <3>1, <3>7, <3>8 DEF OpGoes
    <3> QED BY <1>u, <3>9
  <2>3. CASE grant.state = "authorized" /\ grant.fresh
    <3>1. certOp' = [certOp EXCEPT ![o] = OpCalls(certOp[o], grant.access)] /\ lineup' = lineup
      BY <2>1, <2>3 DEF AccessToken, Usable
    <3>8. PICK new : new = OpCalls(certOp[o], grant.access)
      OBVIOUS
    <3>7. new \in CertOpStates /\ new.at = "calling" /\ new.token = grant.access /\ new.refused = NoToken
      BY ZenonT(40), <1>g, <1>0, <2>t, <3>8
    <3>9. new \in CertOpStates /\ OpGoes(o, new)
      BY <2>3, <3>1, <3>7, <3>8 DEF OpGoes
    <3> QED BY <1>u, <3>9
  <2>4. CASE grant.state = "authorized" /\ ~grant.fresh
    <3>1. /\ certOp' = [certOp EXCEPT ![o] = [certOp[o] EXCEPT !.at = "waiting", !.token = NoToken]]
          /\ lineup' = IF Refreshing THEN lineup ELSE Append(lineup, MutexJob("refresh", "cached", 0))
      BY <2>1, <2>4 DEF AccessToken, Usable
    <3>2. "cached" \in Modes
      BY DEF Modes
    <3>8. PICK new : new = [certOp[o] EXCEPT !.at = "waiting", !.token = NoToken]
      OBVIOUS
    <3>9. new \in CertOpStates /\ OpGoes(o, new)
      BY <1>0, <2>1, <2>4, <3>1, <3>2, <3>8 DEF OpGoes, OpWaits
    <3> QED BY <1>u, <3>9
  <2> QED BY <2>2, <2>3, <2>4
<1>2. CASE CaAnswers(o)
  <2> DEFINE at == IF certOp[o].token \in provider.live THEN "accepted" ELSE "turned down"
             new == [certOp[o] EXCEPT !.at = at]
  <2>1. certOp[o].at = "calling" /\ certOp' = [certOp EXCEPT ![o] = new] /\ lineup' = lineup
    BY <1>2, <1>f DEF CaAnswers
  <2>2. new \in CertOpStates /\ new.at = at /\ new.token = certOp[o].token /\ new.refused = certOp[o].refused
    BY <1>f DEF CertOpStates
  <2>3. at \in {"accepted", "turned down"} /\ (at = "accepted" <=> certOp[o].token \in provider.live)
    OBVIOUS
  <2> HIDE DEF at, new
  <2>4. OpGoes(o, new)
    BY <2>1, <2>2, <2>3 DEF OpGoes
  <2> QED BY <1>u, <2>2, <2>4
<1>3. CASE OpGoesOn(o)
  <2>1. certOp[o] \in CertOpStates /\ "served" \in Outcomes /\ "refused" \in Outcomes
    BY <1>f DEF Outcomes
  <2>2. CASE certOp[o].at = "accepted" /\ certOp' = [certOp EXCEPT ![o] = OpEnds(@, "served")] /\ UNCHANGED lineup
    <3>1. certOp' = [certOp EXCEPT ![o] = OpEnds(certOp[o], "served")]
      BY <2>2, <1>f
    <3>8. PICK new : new = OpEnds(certOp[o], "served")
      OBVIOUS
    <3>7. new \in CertOpStates /\ new.at = "done" /\ new.token = NoToken /\ new.out = "served"
      BY <1>0, <2>1, <3>8
    <3>9. new \in CertOpStates /\ OpGoes(o, new)
      BY <2>2, <3>1, <3>7, <3>8 DEF OpGoes
    <3> QED BY <1>u, <3>9
  <2>3. CASE /\ certOp[o].at = "turned down" /\ certOp[o].refused # NoToken
             /\ certOp' = [certOp EXCEPT ![o] = OpEnds(@, "refused")] /\ UNCHANGED lineup
    <3>1. certOp' = [certOp EXCEPT ![o] = OpEnds(certOp[o], "refused")]
      BY <2>3, <1>f
    <3>8. PICK new : new = OpEnds(certOp[o], "refused")
      OBVIOUS
    <3>7. new \in CertOpStates /\ new.at = "done" /\ new.token = NoToken
      BY <1>0, <2>1, <3>8
    <3>9. new \in CertOpStates /\ OpGoes(o, new)
      BY <2>3, <3>1, <3>7, <3>8 DEF OpGoes
    <3> QED BY <1>u, <3>9
  <2>4. CASE /\ certOp[o].at = "turned down" /\ certOp[o].refused = NoToken
             /\ AccessToken(o, [certOp[o] EXCEPT !.refused = certOp[o].token], "force_refresh")
    <3> DEFINE op == [certOp[o] EXCEPT !.refused = certOp[o].token]
    <3>1. op \in CertOpStates
      BY <2>1 DEF CertOpStates
    <3>2. AccessToken(o, op, "force_refresh")
      BY <2>4
    <3> HIDE DEF op
    <3>3. CASE grant.state # "authorized"
      <4>1. certOp' = [certOp EXCEPT ![o] = OpEnds(op, grant.state)] /\ lineup' = lineup
        BY <3>2, <3>3 DEF AccessToken
        <4>8. PICK new : new = OpEnds(op, grant.state)
        OBVIOUS
        <4>9. new \in CertOpStates /\ OpGoes(o, new)
        BY <1>g, <1>0, <3>1, <3>3, <4>1, <4>8 DEF OpGoes
        <4> QED BY <1>u, <4>9
    <3>4. CASE grant.state = "authorized"
      <4>1. /\ certOp' = [certOp EXCEPT ![o] = [op EXCEPT !.at = "waiting", !.token = NoToken]]
            /\ lineup' = IF Refreshing THEN lineup ELSE Append(lineup, MutexJob("refresh", "force_refresh", 0))
        BY <3>2, <3>4 DEF AccessToken, Usable
      <4>2. "force_refresh" \in Modes
        BY DEF Modes
        <4>8. PICK new : new = [op EXCEPT !.at = "waiting", !.token = NoToken]
        OBVIOUS
        <4>9. new \in CertOpStates /\ OpGoes(o, new)
        BY <1>0, <2>4, <3>1, <3>4, <4>1, <4>2, <4>8 DEF OpGoes, OpWaits
        <4> QED BY <1>u, <4>9
    <3> QED BY <3>3, <3>4
  <2> QED BY <1>3, <2>2, <2>3, <2>4 DEF OpGoesOn
<1> QED BY <1>1, <1>2, <1>3

LEMMA OpHolds ==
  ASSUME BrokerInv, NEW o \in CertOps, OpBegins(o) \/ CaAnswers(o) \/ OpGoesOn(o)
  PROVE  BrokerInv'
<1> USE DEF BrokerInv
<1>u. /\ grant' = grant /\ pendingLink' = pendingLink /\ provider' = provider /\ link' = link /\ dropped' = dropped
      /\ bplan' = bplan /\ bspent' = bspent /\ bfaults' = bfaults
  BY OpIsPlain
<1>n. PICK new \in CertOpStates : OpGoes(o, new)
  BY OpIsPlain
<1>f. certOp \in [CertOps -> CertOpStates] /\ lineup \in Seq(MutexJobs)
  BY DEF BrokerTyped, ObjectTyped
<1>o. certOp'[o] = new /\ \A p \in CertOps \ {o} : certOp'[p] = certOp[p]
  BY <1>n, <1>f DEF OpGoes
<1>1. /\ QueueIsOrdered' /\ lineup' \in Seq(MutexJobs) /\ (Active' = Active \/ (Idle' /\ Active.at = "queued"))
      /\ Refreshing => Refreshing'
      /\ Refreshing' => Refreshing \/ OpWaits(o, new)
      /\ OpWaits(o, new) => Refreshing'
  <2>1. CASE lineup' = lineup /\ ~OpWaits(o, new)
    BY <1>u, <1>f, <2>1, QueueFrame
  <2>2. CASE OpWaits(o, new)
    <3>1. PICK mode \in Modes : 
            /\ mode = "cached" => ~grant.fresh
            /\ lineup' = IF Refreshing THEN lineup ELSE Append(lineup, MutexJob("refresh", mode, 0))
      BY <2>2 DEF OpWaits
    <3>2. CASE Refreshing
      <4>1. lineup' = lineup
        BY <3>1, <3>2
      <4> QED BY <1>u, <1>f, <3>2, <4>1, QueueFrame
    <3>3. CASE ~Refreshing
      <4>1. PICK job : job = MutexJob("refresh", mode, 0)
        OBVIOUS
      <4>2. job \in MutexJobs /\ job.at = "queued" /\ job.answer = "none" /\ job.kind = "refresh" /\ job.mode = mode
        BY <4>1, NewJob, BrokerPlanShape DEF JobKinds, BrokerTyped, PersonTyped
      <4>3. lineup' = Append(lineup, job)
        BY <3>1, <3>3, <4>1
      <4>4. bspent.ages = 0 => mode # "cached"
        BY <2>2, <3>1 DEF OpWaits, GrantIsWhole
      <4>5. /\ bspent'.ages = 0 => bspent.ages = 0
            /\ job.kind = "refresh" => ~Refreshing /\ (bspent'.ages = 0 => job.mode # "cached")
            /\ job.kind # "disconnect" /\ job.kind # "exchange"
        BY <1>u, <3>3, <4>2, <4>4
      <4>6. /\ QueueIsOrdered' /\ lineup' \in Seq(MutexJobs) /\ (Active' = Active \/ (Idle' /\ Active.at = "queued"))
            /\ Refreshing' <=> (Refreshing \/ job.kind = "refresh")
        BY <1>u, <4>2, <4>3, <4>5, QueueComes
      <4> QED BY <2>2, <4>2, <4>6
    <3> QED BY <3>2, <3>3
  <2> QED BY <1>n, <2>1, <2>2 DEF OpGoes
<1>2. BrokerTyped'
  <2>1. certOp' \in [CertOps -> CertOpStates]
    BY <1>n, <1>f DEF OpGoes
  <2> QED BY <1>u, <1>1, <2>1 DEF BrokerTyped, PersonTyped, ObjectTyped
<1>3. GrantIsWhole'
  BY <1>u DEF GrantIsWhole
<1>4. OpsAreWhole'
  <2>1. OpIsWhole(certOp[o])
    BY DEF OpsAreWhole
  <2>2. OpIsWhole(new)'
    BY <1>n, <1>1, <2>1 DEF OpGoes, OpWaits, OpIsWhole, GrantIsWhole
  <2>3. \A p \in CertOps \ {o} : OpIsWhole(certOp[p])'
    BY <1>o, <1>1 DEF OpsAreWhole, OpIsWhole
  <2> QED BY <1>o, <2>2, <2>3 DEF OpsAreWhole
<1>5. ActiveIsOnGrant' /\ NewestIsKept' /\ GrantIsAlive' /\ VoidIsEarned'
  BY <1>u, <1>1, GrantFrame
<1>6. SerialsFollow'
  BY <1>u, <1>1, SerialsFrame DEF SerialsFollow
<1>c. Calm' <=> Calm
  BY <1>u DEF Calm
<1>7. QuietlyServed'
  <2>1. ASSUME bspent.ages = 0, Calm, bfaults = {} PROVE ~Refreshing' /\ QuietOp(new)'
    <3>1. grant.state = "authorized" /\ grant.fresh /\ Good(grant.access) /\ ~Refreshing /\ QuietOp(certOp[o])
      BY <2>1 DEF CalmlyServed, GrantIsWhole, QuietlyServed
    <3>2. ~OpWaits(o, new)
      BY <3>1 DEF OpWaits, QuietOp
    <3>3. QuietOp(new)
      BY <1>n, <3>1, <3>2 DEF OpGoes, QuietOp, Good
    <3> QED BY <1>u, <1>1, <3>1, <3>2, <3>3 DEF QuietOp
  <2>2. ASSUME NEW p \in CertOps \ {o}, QuietOp(certOp[p]) PROVE QuietOp(certOp[p])'
    <3>1. certOp'[p] = certOp[p]
      BY <1>o
    <3>2. provider' = provider
      BY <1>u
    <3>3. PICK op : op = certOp[p]
      OBVIOUS
    <3>4. QuietOp(op)
      BY <2>2, <3>3
    <3>5. QuietOp(op)'
      BY <3>2, <3>4 DEF QuietOp
    <3> QED BY <3>1, <3>3, <3>5
  <2>3. QuietOp(new)' => QuietOp(certOp[o])'
    BY <1>o DEF QuietOp
  <2> QED BY <1>u, <1>c, <2>1, <2>2, <2>3 DEF QuietlyServed
<1>8. CalmlyServed'
  <2>1. ASSUME Calm PROVE CalmOp(new)
    <3>1. grant.state = "authorized" /\ CalmOp(certOp[o])
      BY <2>1 DEF CalmlyServed
    <3> QED BY <1>n, <3>1 DEF OpGoes, OpWaits, CalmOp, Good
  <2>2. \A p \in CertOps : CalmOp(certOp'[p]) => CalmOp(certOp[p])'
    BY <1>u DEF CalmOp, Good
  <2>3. Calm => \A p \in CertOps : CalmOp(certOp[p])'
    BY <1>o, <2>1, <2>2 DEF CalmlyServed
  <2>4. \A kind \in JobKinds : Granting(kind)' => Granting(kind) /\ Active' = Active
    BY <1>1 DEF Granting, Idle
  <2>5. Calm => /\ Active'.kind = "refresh" /\ Active'.at = "answered" => Active'.answer = "granted"
                /\ Granting("refresh")' => Good(Active'.access)
                /\ bfaults = {} /\ Granting("exchange")' => Good(Active'.access)
    BY <1>1, <2>4 DEF CalmlyServed, Idle, JobKinds
  <2> QED BY <1>u, <1>c, <2>3, <2>5 DEF CalmlyServed, Good
<1> QED BY <1>1, <1>2, <1>3, <1>4, <1>5, <1>6, <1>7, <1>8

-----------------------------------------------------------------------------
(* What becomes of those who wait for a refresh. *)
LEMMA RefreshGivesAll ==
  ASSUME certOp \in [CertOps -> CertOpStates], NEW token \in MaybeTokens, RefreshGives(token)
  PROVE  /\ certOp' \in [CertOps -> CertOpStates]
         /\ \A o \in CertOps : /\ certOp[o].at # "waiting" => certOp'[o] = certOp[o]
                               /\ certOp[o].at = "waiting" =>
                                    certOp'[o].at = "calling" /\ certOp'[o].token = token /\ certOp'[o].refused = certOp[o].refused
<1>1. ASSUME NEW op \in CertOpStates
      PROVE  /\ OpCalls(op, token) \in CertOpStates /\ OpCalls(op, token).at = "calling"
             /\ OpCalls(op, token).token = token /\ OpCalls(op, token).refused = op.refused
  BY DEF OpCalls, CertOpStates
<1>2. certOp' = [o \in CertOps |-> IF certOp[o].at = "waiting" THEN OpCalls(certOp[o], token) ELSE certOp[o]]
  BY DEF RefreshGives
<1> QED BY <1>1, <1>2

LEMMA RefreshFailsAll ==
  ASSUME certOp \in [CertOps -> CertOpStates], NEW reason \in Outcomes, RefreshFails(reason)
  PROVE  /\ certOp' \in [CertOps -> CertOpStates]
         /\ \A o \in CertOps : /\ certOp[o].at # "waiting" => certOp'[o] = certOp[o]
                               /\ certOp[o].at = "waiting" => certOp'[o].at = "done" /\ certOp'[o].token = NoToken
<1>1. ASSUME NEW op \in CertOpStates
      PROVE  OpEnds(op, reason) \in CertOpStates /\ OpEnds(op, reason).at = "done" /\ OpEnds(op, reason).token = NoToken
  BY DEF OpEnds, CertOpStates, MaybeTokens
<1>2. certOp' = [o \in CertOps |-> IF certOp[o].at = "waiting" THEN OpEnds(certOp[o], reason) ELSE certOp[o]]
  BY DEF RefreshFails
<1> QED BY <1>1, <1>2

(* What does not depend on what became of the requests. *)
LEMMA ServedFrame ==
  ASSUME QuietlyServed, CalmlyServed, grant' = grant, provider' = provider, bplan' = bplan, bspent' = bspent, bfaults' = bfaults,
         Active' = Active \/ Active'.at \in {"queued", "sent"}, Refreshing' => Refreshing,
         Calm /\ bspent.ages = 0 /\ bfaults = {} => \A o \in CertOps : QuietOp(certOp[o])',
         Calm => \A o \in CertOps : CalmOp(certOp[o])'
  PROVE  QuietlyServed' /\ CalmlyServed'
<1>1. (Calm' <=> Calm) /\ provider'.due = provider.due
  BY DEF Calm
<1>2. QuietlyServed'
  BY <1>1 DEF QuietlyServed
<1>3. Calm => /\ Active'.kind = "refresh" /\ Active'.at = "answered" => Active'.answer = "granted"
              /\ Granting("refresh")' => Good(Active'.access)
              /\ bfaults = {} /\ Granting("exchange")' => Good(Active'.access)
  BY DEF CalmlyServed, Granting
<1>4. CalmlyServed'
  BY <1>1, <1>3 DEF CalmlyServed, Good
<1> QED BY <1>2, <1>4

LEMMA OpsStay ==
  ASSUME certOp' = certOp, provider' = provider
  PROVE  /\ (\A o \in CertOps : QuietOp(certOp[o])) => \A o \in CertOps : QuietOp(certOp[o])'
         /\ (\A o \in CertOps : CalmOp(certOp[o])) => \A o \in CertOps : CalmOp(certOp[o])'
BY DEF QuietOp, CalmOp, Good

LEMMA JobBeginsHolds ==
  ASSUME BrokerInv, lineup # <<>>, JobBegins(1)
  PROVE  BrokerInv'
<1> USE DEF BrokerInv
<1>u. /\ grant' = grant /\ pendingLink' = pendingLink /\ provider' = provider /\ link' = link /\ dropped' = dropped
      /\ bplan' = bplan /\ bspent' = bspent /\ bfaults' = bfaults
  BY DEF JobBegins
<1>f. certOp \in [CertOps -> CertOpStates] /\ lineup \in Seq(MutexJobs) /\ grant \in Grants
  BY DEF BrokerTyped, ObjectTyped
<1>a. /\ Active = lineup[1] /\ Active \in MutexJobs /\ Active.at = "queued" /\ Active.answer = "none" /\ JobIsWhole(Active)
      /\ Active.kind = "refresh" => Refreshing
  BY ActiveJob DEF JobBegins, QueueIsOrdered, JobIsWhole, Refreshing
<1>g. /\ GrantIsWhole' /\ grant.access \in MaybeTokens /\ (grant.state # "authorized" => grant.state \in Outcomes)
  BY <1>u, <1>f DEF GrantIsWhole, Grants, Outcomes
<1>1. ASSUME Idle', QueueIsOrdered', lineup' \in Seq(MutexJobs), certOp' \in [CertOps -> CertOpStates],
             OpsAreWhole', Refreshing' => Refreshing,
             Calm /\ bspent.ages = 0 /\ bfaults = {} => \A o \in CertOps : QuietOp(certOp[o])',
             Calm => \A o \in CertOps : CalmOp(certOp[o])'
      PROVE  BrokerInv'
  <2>1. BrokerTyped'
    BY <1>u, <1>1 DEF BrokerTyped, PersonTyped, ObjectTyped
  <2>2. ActiveIsOnGrant' /\ NewestIsKept' /\ GrantIsAlive' /\ VoidIsEarned'
    BY <1>u, <1>1, <1>a, GrantFrame
  <2>3. SerialsFollow'
    BY <1>u, <1>1, SerialsFrame DEF SerialsFollow
  <2>4. QuietlyServed' /\ CalmlyServed'
    BY <1>u, <1>1, ServedFrame DEF Idle
  <2> QED BY <1>1, <1>g, <2>1, <2>2, <2>3, <2>4
<1>q. JobLeaves(1) => /\ QueueIsOrdered' /\ lineup' \in Seq(MutexJobs) /\ Idle'
                      /\ Active.kind = "refresh" => ~Refreshing'
                      /\ Active.kind # "refresh" => (Refreshing' <=> Refreshing)
  BY <1>u, QueueLeaves
<1>2. CASE Active.kind = "refresh" /\ grant.state # "authorized" /\ RefreshFails(grant.state) /\ JobLeaves(1)
  <2>1. /\ certOp' \in [CertOps -> CertOpStates]
        /\ \A o \in CertOps : /\ certOp[o].at # "waiting" => certOp'[o] = certOp[o]
                              /\ certOp[o].at = "waiting" => certOp'[o].at = "done" /\ certOp'[o].token = NoToken
    BY <1>2, <1>f, <1>g, RefreshFailsAll
  <2>2. OpsAreWhole'
    BY <2>1 DEF OpsAreWhole, OpIsWhole
  <2>3. ~Calm
    BY <1>2 DEF CalmlyServed
  <2> QED BY <1>1, <1>2, <1>q, <2>1, <2>2, <2>3
<1>3. CASE /\ Active.kind = "refresh" /\ grant.state = "authorized" /\ Usable(Active.mode)
           /\ RefreshGives(grant.access) /\ JobLeaves(1)
  <2>1. /\ certOp' \in [CertOps -> CertOpStates]
        /\ \A o \in CertOps : /\ certOp[o].at # "waiting" => certOp'[o] = certOp[o]
                              /\ certOp[o].at = "waiting" =>
                                   certOp'[o].at = "calling" /\ certOp'[o].token = grant.access /\ certOp'[o].refused = certOp[o].refused
    BY <1>3, <1>f, <1>g, RefreshGivesAll
  <2>2. OpsAreWhole'
    BY <1>3, <2>1 DEF OpsAreWhole, OpIsWhole, GrantIsWhole
  <2>3. bspent.ages # 0 /\ grant.fresh
    BY <1>3, <1>a DEF Usable, JobIsWhole
  <2>4. Calm => bfaults = {} /\ Good(grant.access)
    BY <2>3 DEF Calm, CalmlyServed
  <2>5. ASSUME Calm, NEW o \in CertOps PROVE CalmOp(certOp[o])'
    <3>1. CalmOp(certOp[o])
      BY <2>5 DEF CalmlyServed
    <3>2. PICK op : op = certOp'[o]
      OBVIOUS
    <3>3. CalmOp(op)
      BY <2>1, <2>4, <2>5, <3>1, <3>2 DEF CalmOp
    <3>4. CalmOp(op)'
      BY <1>u, <3>3 DEF CalmOp, Good
    <3> QED BY <3>2, <3>4
  <2> QED BY <1>1, <1>3, <1>q, <2>1, <2>2, <2>3, <2>5
<1>4. CASE Active.kind = "disconnect" /\ JobLeaves(1) /\ UNCHANGED certOp
  <2>1. Refreshing' <=> Refreshing
    BY <1>4, <1>q
  <2>2. OpsAreWhole'
    BY <1>4, <2>1 DEF OpsAreWhole, OpIsWhole
  <2>3. /\ Calm /\ bspent.ages = 0 /\ bfaults = {} => \A o \in CertOps : QuietOp(certOp[o])'
        /\ Calm => \A o \in CertOps : CalmOp(certOp[o])'
    BY <1>u, <1>4, OpsStay DEF QuietlyServed, CalmlyServed
  <2> QED BY <1>1, <1>4, <1>f, <1>q, <2>1, <2>2, <2>3
<1>5. CASE /\ \/ Active.kind = "refresh" /\ grant.state = "authorized"
              \/ Active.kind = "disconnect" /\ grant.state # "missing"
              \/ Active.kind = "exchange"
           /\ lineup' = [lineup EXCEPT ![1].at = "sent", ![1].renew = grant.renew] /\ UNCHANGED certOp
  <2> DEFINE job == [Active EXCEPT !.at = "sent", !.renew = grant.renew]
  <2>1. grant.renew \in MaybeTokens
    BY <1>f DEF Grants
  <2>2. /\ job \in MutexJobs /\ job.kind = Active.kind /\ job.mode = Active.mode /\ job.code = Active.code
        /\ job.at = "sent" /\ job.answer = "none" /\ job.renew = grant.renew
    BY <1>a, <2>1 DEF MutexJobs
  <2>3. lineup' = [lineup EXCEPT ![1] = job]
    BY <1>5, <1>a, <1>f
  <2> HIDE DEF job
  <2>4. QueueIsOrdered' /\ lineup' \in Seq(MutexJobs) /\ Active' = job /\ (Refreshing' <=> Refreshing)
    BY <1>u, <2>2, <2>3, QueueGoesOn
  <2>5. BrokerTyped'
    BY <1>u, <1>5, <2>4 DEF BrokerTyped, PersonTyped, ObjectTyped
  <2>6. OpsAreWhole'
    BY <1>5, <2>4 DEF OpsAreWhole, OpIsWhole
  <2>7. \A kind \in JobKinds : ~Granting(kind)' /\ ~Granting(kind)
    BY <1>a, <2>2, <2>4 DEF Granting
  <2>8. ~Granting("refresh")' /\ ~Granting("exchange")' /\ ~Granting("disconnect")'
        /\ ~Granting("refresh") /\ ~Granting("exchange") /\ ~Granting("disconnect")
    BY <2>7 DEF JobKinds
  <2>9. ActiveIsOnGrant'
    BY <1>u, <1>5, <2>2, <2>4, <2>8 DEF ActiveIsOnGrant
  <2>10. SerialsFollow'
    BY <1>u, <2>8 DEF SerialsFollow
  <2>11. NewestIsKept' /\ GrantIsAlive'
    BY <1>u, <2>8 DEF NewestIsKept, GrantIsAlive, Newest, Missed, BStruck
  <2>12. VoidIsEarned'
    BY <1>u, <2>2, <2>4 DEF VoidIsEarned, Excused, Missed, BStruck
  <2>13. /\ Calm /\ bspent.ages = 0 /\ bfaults = {} => \A o \in CertOps : QuietOp(certOp[o])'
         /\ Calm => \A o \in CertOps : CalmOp(certOp[o])'
    BY <1>u, <1>5, OpsStay DEF QuietlyServed, CalmlyServed
  <2>14. QuietlyServed' /\ CalmlyServed'
    BY <1>u, <2>2, <2>4, <2>13, ServedFrame
  <2> QED BY <1>g, <2>4, <2>5, <2>6, <2>9, <2>10, <2>11, <2>12, <2>14
<1> QED BY <1>a, <1>2, <1>3, <1>4, <1>5 DEF JobBegins

-----------------------------------------------------------------------------
(* The provider's answer, in what the queue and the lineages are after it. *)
AnswerGoes(job) ==
  \/ /\ Active.kind = "exchange" /\ Active.code \in provider.codes /\ IssuesTokens(Active.code)
     /\ provider'.codes = provider.codes \ {Active.code}
     /\ \/ bfaults' = bfaults /\ job.answer = "granted" /\ job.access = Issued(Active.code) /\ job.renew = Issued(Active.code)
        \/ Missed' /\ job.answer = "failed"
  \/ /\ Active.kind = "refresh" /\ Honoured(grant.renew) /\ IssuesTokens(grant.renew[1]) /\ provider'.codes = provider.codes
     /\ \/ /\ bfaults' = bfaults /\ job.answer = "granted" /\ job.access = Issued(grant.renew[1])
           /\ job.renew = IF bplan.rotating THEN Issued(grant.renew[1]) ELSE grant.renew
        \/ Missed' /\ job.answer = "failed" /\ job.renew = grant.renew
  \/ /\ Active.kind = "disconnect" /\ KillsLineage(grant.renew[1]) /\ job.renew = grant.renew
     /\ \/ bfaults' = bfaults /\ job.answer = "granted"
        \/ Missed' /\ job.answer = "failed"
  \/ /\ provider' = provider /\ (Active.kind # "exchange" => job.renew = grant.renew)
     /\ \/ Active.kind = "exchange" /\ job.answer = "failed"
        \/ Active.kind = "refresh" /\ job.answer = "invalid_grant" /\ ~Honoured(grant.renew) /\ bfaults' = bfaults
        \/ Active.kind = "disconnect" /\ job.answer = "granted" /\ ~Honoured(grant.renew) /\ bfaults' = bfaults
        \/ job.answer = "failed" /\ (Missed' \/ "outage" \in bfaults')

LEMMA AnswerComes ==
  ASSUME BrokerInv, lineup # <<>>, ProviderAnswers(1)
  PROVE  \E job \in MutexJobs :
           /\ QueueIsOrdered' /\ lineup' \in Seq(MutexJobs) /\ Active' = job /\ (Refreshing' <=> Refreshing)
           /\ provider' \in ProviderStates
           /\ job.kind = Active.kind /\ job.at = "answered" /\ AnswerGoes(job)
<1> USE DEF BrokerInv
<1>u. bplan' = bplan /\ bspent' = bspent
  BY DEF ProviderAnswers
<1>a. Active = lineup[1] /\ Active \in MutexJobs /\ Active.at = "sent" /\ Active.kind \in JobKinds
  BY ActiveJob DEF ProviderAnswers, MutexJobs
<1>s. Active.kind # "exchange" => Active.renew = grant.renew /\ grant.state # "missing" /\ Active.renew \in BrokerTokens
  BY <1>a, SentJob
<1>p. provider \in ProviderStates
  BY DEF BrokerTyped, ObjectTyped
<1>1. ASSUME NEW job \in MutexJobs, job.kind = Active.kind, job.mode = Active.mode, job.code = Active.code, job.at = "answered",
             lineup' = [lineup EXCEPT ![1] = job], provider' \in ProviderStates, AnswerGoes(job)
      PROVE  \E j \in MutexJobs :
               /\ QueueIsOrdered' /\ lineup' \in Seq(MutexJobs) /\ Active' = j /\ (Refreshing' <=> Refreshing)
               /\ provider' \in ProviderStates
               /\ j.kind = Active.kind /\ j.at = "answered" /\ AnswerGoes(j)
  <2>1. QueueIsOrdered' /\ lineup' \in Seq(MutexJobs) /\ Active' = job /\ (Refreshing' <=> Refreshing)
    BY <1>u, <1>1, QueueGoesOn
  <2> QED BY <1>1, <2>1
<1>2. PICK answered : answered = Answered(Active)
  OBVIOUS
<1>3. PICK failed : failed = Failed(Active)
  OBVIOUS
<1>4. /\ answered \in MutexJobs /\ answered.kind = Active.kind /\ answered.at = "answered"
      /\ answered.mode = Active.mode /\ answered.code = Active.code
      /\ Grantable(Active) => answered.answer = "granted"
      /\ ~Grantable(Active) => /\ answered.answer = IF Active.kind = "refresh" THEN "invalid_grant" ELSE "failed"
                               /\ answered.renew = Active.renew
      /\ Active.kind = "disconnect" => Grantable(Active) /\ answered.renew = Active.renew
      /\ Active.kind = "exchange" /\ Grantable(Active) =>
           answered.access = Issued(Active.code) /\ answered.renew = Issued(Active.code)
      /\ Active.kind = "refresh" /\ Grantable(Active) =>
           /\ answered.access = Issued(Active.renew[1])
           /\ answered.renew = IF bplan.rotating THEN Issued(Active.renew[1]) ELSE Active.renew
      /\ failed \in MutexJobs /\ failed.kind = Active.kind /\ failed.at = "answered"
      /\ failed.mode = Active.mode /\ failed.code = Active.code
      /\ failed.answer = "failed" /\ failed.renew = Active.renew
  BY <1>a, <1>s, <1>2, <1>3, AnswerIsPlain
<1>g. /\ Active.kind = "exchange" => (Grantable(Active) <=> Active.code \in provider.codes)
      /\ Active.kind = "refresh" => (Grantable(Active) <=> Honoured(Active.renew))
  BY DEF Grantable
<1>5. ProviderDoes(Active) =>
        /\ provider' \in ProviderStates
        /\ \/ Active.kind = "exchange" /\ Grantable(Active) /\ IssuesTokens(Active.code) /\ provider'.codes = provider.codes \ {Active.code}
           \/ Active.kind = "refresh" /\ Grantable(Active) /\ IssuesTokens(Active.renew[1]) /\ provider'.codes = provider.codes
           \/ Active.kind = "disconnect" /\ Honoured(Active.renew) /\ KillsLineage(Active.renew[1])
           \/ /\ provider' = provider
              /\ Active.kind = "disconnect" => ~Honoured(Active.renew)
              /\ Active.kind # "disconnect" => ~Grantable(Active)
  BY <1>a, <1>s, ProviderIsPlain
<1>6. CASE ProviderDoes(Active) /\ bfaults' = bfaults /\ lineup' = [lineup EXCEPT ![1] = Answered(Active)]
  <2>1. AnswerGoes(answered)
    BY <1>a, <1>s, <1>4, <1>g, <1>5, <1>6 DEF AnswerGoes, JobKinds
  <2> QED BY <1>1, <1>2, <1>4, <1>5, <1>6, <2>1
<1>7. CASE /\ BrokerFault("lost") \/ BrokerFault("narrow")
           /\ ProviderDoes(Active) /\ lineup' = [lineup EXCEPT ![1] = Failed(Active)]
  <2>1. Missed'
    BY <1>7 DEF BrokerFault, Missed, BStruck
  <2>2. AnswerGoes(failed)
    BY <1>a, <1>s, <1>4, <1>g, <1>5, <1>7, <2>1 DEF AnswerGoes, JobKinds
  <2> QED BY <1>1, <1>3, <1>4, <1>5, <1>7, <2>2
<1>8. CASE BrokerFault("outage") /\ UNCHANGED provider /\ lineup' = [lineup EXCEPT ![1] = Failed(Active)]
  <2>1. AnswerGoes(failed)
    BY <1>a, <1>s, <1>4, <1>8 DEF AnswerGoes, BrokerFault
  <2> QED BY <1>p, <1>1, <1>3, <1>4, <1>8, <2>1
<1> QED BY <1>a, <1>6, <1>7, <1>8 DEF ProviderAnswers

LEMMA ProviderAnswersHolds ==
  ASSUME BrokerInv, lineup # <<>>, ProviderAnswers(1)
  PROVE  BrokerInv'
<1> USE DEF BrokerInv
<1>u. /\ grant' = grant /\ pendingLink' = pendingLink /\ certOp' = certOp /\ link' = link /\ dropped' = dropped
      /\ bplan' = bplan /\ bspent' = bspent
  BY DEF ProviderAnswers
<1>b. bfaults' = bfaults \/ \E kind \in {"lost", "narrow", "outage"} : BrokerFault(kind)
  BY DEF ProviderAnswers
<1>c. bfaults' \subseteq BrokerFaults /\ bfaults \subseteq bfaults'
  BY <1>b DEF BrokerFault, BrokerFaults, BrokerTyped, PersonTyped
<1>a. /\ Active = lineup[1] /\ Active \in MutexJobs /\ Active.at = "sent" /\ JobIsWhole(Active)
      /\ Active.kind = "refresh" => Refreshing
  BY ActiveJob DEF ProviderAnswers, QueueIsOrdered, Refreshing
<1>j. PICK job \in MutexJobs :
        /\ QueueIsOrdered' /\ lineup' \in Seq(MutexJobs) /\ Active' = job /\ (Refreshing' <=> Refreshing)
        /\ provider' \in ProviderStates
        /\ job.kind = Active.kind /\ job.at = "answered" /\ AnswerGoes(job)
  BY AnswerComes
<1>f. /\ provider.serial \in [Lineages -> Nat] /\ provider.dead \subseteq Lineages /\ provider.live \subseteq BrokerTokens
      /\ provider.due \subseteq BrokerTokens /\ provider.codes \subseteq 1..MaxLinks /\ dropped \subseteq Lineages
      /\ grant.renew \in MaybeTokens /\ Active.code \in Lineages
  BY <1>a DEF BrokerTyped, ObjectTyped, ProviderStates, Grants, MutexJobs
<1>r. Active.kind # "exchange" => grant.state # "missing" /\ grant.renew \in BrokerTokens /\ grant.renew[1] \in Lineages
  BY <1>a, SentJob, TokenShape
<1>m. ~Granting("refresh") /\ ~Granting("exchange") /\ ~Granting("disconnect")
  BY <1>a DEF Granting
<1>g. /\ Granting("refresh")' <=> job.kind = "refresh" /\ job.answer = "granted"
      /\ Granting("exchange")' <=> job.kind = "exchange" /\ job.answer = "granted"
      /\ Granting("disconnect")' <=> job.kind = "disconnect" /\ job.answer = "granted"
  BY <1>j DEF Granting
<1>k. ~Missed' => ~Missed
  BY <1>c DEF Missed, BStruck
<1>w. (~BStruck({"withdraw"})' => ~BStruck({"withdraw"})) /\ (Excused => Excused')
  BY <1>u, <1>c DEF Missed, BStruck, Excused
<1>i. \A l \in Lineages : Issued(l) \in BrokerTokens /\ Issued(l) # NoToken /\ Issued(l)[1] = l /\ Issued(l)[2] = provider.serial[l] + 1
  BY <1>f, TokenShape DEF Issued
<1>1. BrokerTyped'
  BY <1>u, <1>c, <1>j DEF BrokerTyped, PersonTyped, ObjectTyped
<1>2. GrantIsWhole'
  BY <1>u DEF GrantIsWhole
<1>3. OpsAreWhole'
  BY <1>u, <1>j DEF OpsAreWhole, OpIsWhole
<1>4. ActiveIsOnGrant'
  <2>1. job.kind = "refresh" => /\ job.renew # NoToken /\ job.renew[1] = grant.renew[1]
                                /\ job.answer # "granted" => job.renew = grant.renew
    BY <1>j, <1>r, <1>i, TokenShape DEF AnswerGoes
  <2>2. job.kind = "disconnect" => job.renew = grant.renew
    BY <1>j DEF AnswerGoes
  <2>3. job.answer # "none" /\ (job.answer = "invalid_grant" => job.kind = "refresh")
    BY <1>j DEF AnswerGoes
  <2>4. Granting("refresh")' \/ Granting("exchange")' => job.access # NoToken /\ job.renew # NoToken
    BY <1>j, <1>f, <1>g, <1>i, <1>r, TokenShape DEF AnswerGoes
  <2> QED BY <1>u, <1>a, <1>j, <1>r, <1>g, <2>1, <2>2, <2>3, <2>4 DEF ActiveIsOnGrant
<1>l. /\ \A l \in Lineages : provider'.serial[l] = provider.serial[l] \/ provider'.serial[l] = provider.serial[l] + 1
      /\ \A l \in Lineages : provider'.serial[l] # provider.serial[l] =>
           \/ Active.kind = "exchange" /\ l = Active.code /\ l \in provider.codes /\ l \notin provider'.codes
           \/ Active.kind = "refresh" /\ l = grant.renew[1]
      /\ provider'.codes \subseteq provider.codes /\ provider'.due = provider.due
      /\ \/ provider'.live = provider.live /\ provider'.dead = provider.dead
         \/ provider'.live = provider.live \cup {Issued(Active.code)} /\ provider'.dead = provider.dead
            /\ Active.kind = "exchange" /\ provider'.serial[Active.code] = provider.serial[Active.code] + 1
         \/ provider'.live = provider.live \cup {Issued(grant.renew[1])} /\ provider'.dead = provider.dead
            /\ Active.kind = "refresh" /\ provider'.serial[grant.renew[1]] = provider.serial[grant.renew[1]] + 1
         \/ provider'.live \subseteq provider.live /\ provider'.dead = provider.dead \cup {grant.renew[1]}
            /\ Active.kind = "disconnect" /\ (job.answer = "granted" \/ Missed')
  BY <1>f, <1>j, <1>r DEF AnswerGoes, IssuesTokens, KillsLineage
<1>x. /\ grant.state # "missing" => grant.renew[1] \in Lineages /\ provider.serial[grant.renew[1]] > 0
      /\ \A n \in provider.codes : n \in Lineages /\ provider.serial[n] = 0 /\ n \notin provider.dead \cup dropped
  <2>1. grant.state # "missing" => grant.renew[1] \in Lineages
    BY <1>f, TokenShape DEF GrantIsWhole, MaybeTokens
  <2> QED BY SMTT(30), <2>1, <1>f, BrokerPlanShape DEF SerialsFollow, BrokerTyped, PersonTyped
<1>5. SerialsFollow'
  <2>1. grant'.state # "missing" => provider'.serial[grant'.renew[1]] > 0
    BY <1>u, <1>f, <1>l, <1>x
  <2>2. Granting("exchange")' => provider'.serial[Active'.renew[1]] > 0
    BY SMTT(30), <1>f, <1>g, <1>i, <1>j DEF AnswerGoes, IssuesTokens
  <2>3. \A l \in provider'.dead \cup dropped' : provider'.serial[l] > 0
    BY <1>u, <1>f, <1>l, <1>x, <1>r DEF SerialsFollow
  <2>4. \A t \in provider'.live \cup provider'.due : t[2] <= provider'.serial[t[1]]
    <3>1. \A t \in provider.live \cup provider.due : t[1] \in Lineages /\ t[2] \in Nat /\ t[2] <= provider.serial[t[1]]
      BY <1>f, TokenShape DEF SerialsFollow
    <3>2. \A t \in provider.live \cup provider.due : t[2] <= provider'.serial[t[1]]
      BY <3>1, <1>f, <1>l
    <3>3. \A l \in Lineages : provider'.serial[l] = provider.serial[l] + 1 => Issued(l)[2] <= provider'.serial[Issued(l)[1]]
      BY <1>i, <1>f
    <3> QED BY <3>2, <3>3, <1>l, <1>f, <1>r
  <2>5. \A n \in provider'.codes : provider'.serial[n] = 0 /\ link'[n] \notin {"none", "open"}
    BY <1>u, <1>f, <1>l, <1>x, <1>r DEF SerialsFollow
  <2>6. \A n \in 1..MaxLinks : link[n] \in {"none", "open"} => n \in Lineages /\ n \notin provider.codes
    BY BrokerPlanShape DEF SerialsFollow, BrokerTyped, PersonTyped
  <2>7. \A n \in 1..MaxLinks : /\ n > bspent'.links => link'[n] = "none"
                               /\ link'[n] \in {"none", "open"} => provider'.serial[n] = 0
    BY <1>u, <1>f, <1>l, <1>x, <1>r, <2>6 DEF SerialsFollow
  <2> QED BY <2>1, <2>2, <2>3, <2>4, <2>5, <2>7 DEF SerialsFollow
<1>6. NewestIsKept'
  <2>1. ASSUME ~Missed', grant.state # "missing", ~Granting("refresh")' PROVE Newest(grant.renew)'
    <3>1. Newest(grant.renew)
      BY <2>1, <1>k, <1>m DEF NewestIsKept
    <3>2. provider'.serial[grant.renew[1]] = provider.serial[grant.renew[1]]
      BY <2>1, <1>x, <1>f, <1>g, <1>j, <1>r DEF AnswerGoes, IssuesTokens, KillsLineage
    <3> QED BY <3>1, <3>2, <1>u DEF Newest
  <2>2. ASSUME Granting("refresh")' \/ Granting("exchange")' PROVE bplan.rotating => job.renew[2] = provider'.serial[job.renew[1]]
    <3>1. CASE Active.kind = "exchange"
      <4>1. job.renew = Issued(Active.code) /\ IssuesTokens(Active.code)
        BY <2>2, <3>1, <1>g, <1>j DEF AnswerGoes
      <4> QED BY <4>1, <1>f, <1>i DEF IssuesTokens
    <3>2. CASE Active.kind = "refresh"
      <4>1. (bplan.rotating => job.renew = Issued(grant.renew[1])) /\ IssuesTokens(grant.renew[1])
        BY <2>2, <3>2, <1>g, <1>j DEF AnswerGoes
      <4> QED BY <4>1, <3>2, <1>r, <1>f, <1>i DEF IssuesTokens
    <3> QED BY <2>2, <3>1, <3>2, <1>g, <1>j
  <2>3. ASSUME ~Missed', Granting("disconnect")' PROVE job.renew[1] \in provider'.dead
    <3>1. Newest(grant.renew)
      BY <2>3, <1>k, <1>m, <1>g, <1>j, <1>r DEF NewestIsKept
    <3>2. job.renew = grant.renew /\ (provider'.dead = provider.dead \cup {grant.renew[1]} \/ (provider' = provider /\ ~Honoured(grant.renew)))
      BY <2>3, <1>g, <1>j DEF AnswerGoes, KillsLineage
    <3> QED BY <3>1, <3>2 DEF Honoured, Newest
  <2>4. ~Missed' => dropped' \subseteq provider'.dead
    BY <1>k, <1>u, <1>l DEF NewestIsKept
  <2> QED BY <2>1, <2>2, <2>3, <2>4, <1>u, <1>j DEF NewestIsKept, Newest
<1>7. GrantIsAlive'
  <2>1. ASSUME ~BStruck({"withdraw"})', ~Missed', grant.state # "missing", ~Granting("disconnect")' PROVE grant.renew[1] \notin provider'.dead
    BY <2>1, <1>k, <1>w, <1>m, <1>g, <1>j, <1>l DEF GrantIsAlive
  <2>2. ASSUME Granting("exchange")' PROVE job.renew[1] \notin provider'.dead /\ job.renew[1] \notin dropped
    BY <2>2, <1>g, <1>j, <1>i, <1>x, <1>f DEF AnswerGoes, IssuesTokens
  <2>3. ASSUME ~BStruck({"withdraw"})', bplan.disconnects = 0 PROVE provider'.dead = {}
    <3>1. Active.kind # "disconnect"
      BY <2>3, <1>a, BrokerPlanShape DEF JobIsWhole, BrokerTyped, PersonTyped
    <3> QED BY <3>1, <2>3, <1>w, <1>l DEF GrantIsAlive
  <2> QED BY <2>1, <2>2, <2>3, <1>u, <1>j DEF GrantIsAlive
<1>h. ASSUME Active.kind = "refresh", ~Honoured(grant.renew), ~BStruck({"withdraw"}) PROVE Missed /\ (bplan.rotating \/ bplan.disconnects > 0)
  <2>1. Missed
    BY <1>h, <1>m, <1>r DEF GrantIsAlive, NewestIsKept, Honoured, Newest
  <2>2. bplan.disconnects = 0 => provider.dead = {}
    BY <1>h DEF GrantIsAlive
  <2>3. ~bplan.rotating => bplan.disconnects # 0
    BY <1>h, <2>2 DEF Honoured
  <2> QED BY <2>1, <2>3, BrokerPlanShape DEF BrokerTyped, PersonTyped
<1>8. VoidIsEarned'
  <2>1. job.answer = "invalid_grant" => Excused
    BY <1>h, <1>j DEF AnswerGoes, Excused
  <2> QED BY <2>1, <1>w, <1>u, <1>j DEF VoidIsEarned
<1>d. ASSUME Calm'
      PROVE  /\ Calm /\ bfaults' = bfaults /\ ~Missed' /\ Active.kind # "disconnect" /\ provider.live \subseteq provider'.live
             /\ Active.kind = "refresh" => job.answer = "granted"
  <2>1. bfaults' = {} \/ bfaults' = {"refuse"}
    BY <1>d DEF Calm
  <2>2. bfaults' = bfaults
    BY <2>1, <1>b DEF BrokerFault
  <2>3. Calm
    BY <2>2, <1>d, <1>u DEF Calm
  <2>4. ~Missed' /\ ~BStruck({"withdraw"}) /\ ~Missed /\ "outage" \notin bfaults'
    BY <2>1, <2>2 DEF Missed, BStruck
  <2>5. Active.kind # "disconnect"
    BY <2>3, <1>a, BrokerPlanShape DEF JobIsWhole, Calm, BrokerTyped, PersonTyped
  <2>6. Active.kind = "refresh" => Honoured(grant.renew)
    BY <1>h, <2>4
  <2> QED BY <2>2, <2>3, <2>4, <2>5, <2>6, <1>l, <1>j DEF AnswerGoes
<1>e. \A t : Calm' /\ Good(t) => t \in provider'.live \ provider'.due
  BY <1>d, <1>l DEF Good
<1>9. QuietlyServed'
  <2>1. bspent.ages = 0 => provider'.due = {}
    BY <1>l DEF QuietlyServed
  <2>2. ASSUME bspent.ages = 0, Calm', bfaults' = {} PROVE ~Refreshing' /\ \A o \in CertOps : QuietOp(certOp[o])'
    <3>1. ~Refreshing /\ \A o \in CertOps : QuietOp(certOp[o])
      BY <2>2, <1>d DEF QuietlyServed
    <3> QED BY <3>1, <2>2, <1>d, <1>j, <1>u DEF QuietOp
  <2> QED BY <2>1, <2>2, <1>u DEF QuietlyServed
<1>10. CalmlyServed'
  <2>1. ASSUME Calm' PROVE \A o \in CertOps : CalmOp(certOp[o])'
    BY <2>1, <1>d, <1>e, <1>u DEF CalmlyServed, CalmOp, Good
  <2>2. ASSUME Calm', Granting("refresh")' \/ Granting("exchange")' PROVE job.access \in provider'.live \ provider'.due
    <3>1. \A l \in Lineages : Issued(l) \notin provider.due
      BY <1>i, <1>f DEF SerialsFollow
    <3>2. PICK l \in Lineages : job.access = Issued(l) /\ provider'.live = provider.live \cup {Issued(l)}
      BY <2>2, <1>d, <1>g, <1>j, <1>f, <1>r DEF AnswerGoes, IssuesTokens
    <3> QED BY <3>1, <3>2, <1>l
  <2>3. Calm' => grant.state = "authorized" /\ (bfaults = {} /\ grant.fresh => Good(grant.access))
    BY <1>d DEF CalmlyServed
  <2> QED BY <2>1, <2>2, <2>3, <1>d, <1>e, <1>j, <1>u DEF CalmlyServed, Good
<1> QED BY <1>1, <1>2, <1>3, <1>4, <1>5, <1>6, <1>7, <1>8, <1>9, <1>10, <1>j

LEMMA JobEndsHolds ==
  ASSUME BrokerInv, lineup # <<>>, JobEnds(1)
  PROVE  BrokerInv'
<1> USE DEF BrokerInv
<1>u. /\ pendingLink' = pendingLink /\ provider' = provider /\ link' = link
      /\ bplan' = bplan /\ bspent' = bspent /\ bfaults' = bfaults
  BY DEF JobEnds
<1>a. /\ Active = lineup[1] /\ Active \in MutexJobs /\ Active.at = "answered" /\ JobIsWhole(Active)
      /\ Active.kind = "refresh" => Refreshing
  BY ActiveJob DEF JobEnds, QueueIsOrdered, Refreshing
<1>e. /\ grant' = IF Active.answer = "failed" THEN grant ELSE GrantBy(Active)
      /\ dropped' = IF Active.kind = "disconnect" /\ Active.answer = "granted" THEN dropped \cup {Active.renew[1]} ELSE dropped
      /\ Active.kind # "refresh" => certOp' = certOp
      /\ Active.kind = "refresh" /\ Active.answer = "granted" => RefreshGives(Active.access)
      /\ Active.kind = "refresh" /\ Active.answer # "granted" =>
           RefreshFails(IF Active.answer = "invalid_grant" THEN "reauthorization_required" ELSE "refresh_failed")
      /\ JobLeaves(1)
  BY <1>a DEF JobEnds
<1>f. /\ certOp \in [CertOps -> CertOpStates] /\ grant \in Grants /\ dropped \subseteq Lineages
      /\ Active.access \in MaybeTokens /\ Active.renew \in MaybeTokens /\ Active.kind \in JobKinds
      /\ Active.answer \in {"none", "granted", "invalid_grant", "failed"} /\ NoToken \in MaybeTokens
  BY <1>a DEF BrokerTyped, ObjectTyped, MutexJobs, MaybeTokens
<1>q. /\ QueueIsOrdered' /\ lineup' \in Seq(MutexJobs) /\ Idle'
      /\ Active.kind = "refresh" => ~Refreshing'
      /\ Active.kind # "refresh" => (Refreshing' <=> Refreshing)
  BY <1>u, <1>e, QueueLeaves
<1>g. /\ Granting("refresh") <=> Active.kind = "refresh" /\ Active.answer = "granted"
      /\ Granting("exchange") <=> Active.kind = "exchange" /\ Active.answer = "granted"
      /\ Granting("disconnect") <=> Active.kind = "disconnect" /\ Active.answer = "granted"
      /\ ~Granting("refresh")' /\ ~Granting("exchange")' /\ ~Granting("disconnect")'
  BY <1>a, <1>q DEF Granting, Idle
<1>s. /\ Active.answer # "none" /\ (Active.answer = "invalid_grant" => Active.kind = "refresh")
      /\ Active.kind = "disconnect" => grant.state # "missing" /\ Active.renew = grant.renew
      /\ Active.kind = "refresh" => /\ grant.state = "authorized" /\ Active.renew # NoToken /\ Active.renew[1] = grant.renew[1]
                                    /\ Active.answer # "granted" => Active.renew = grant.renew
      /\ Active.kind # "disconnect" /\ Active.answer = "granted" => Active.access # NoToken /\ Active.renew # NoToken
  BY <1>a, <1>f, <1>g DEF ActiveIsOnGrant, JobKinds
(* What the grant becomes. *)
<1>n. \/ Active.answer = "failed" /\ grant' = grant /\ dropped' = dropped
      \/ /\ Active.kind = "disconnect" /\ Active.answer = "granted" /\ dropped' = dropped \cup {grant.renew[1]}
         /\ grant'.state = "missing" /\ grant'.access = NoToken /\ grant'.renew = NoToken /\ grant'.fresh = FALSE /\ grant' \in Grants
      \/ /\ Active.kind \in {"refresh", "exchange"} /\ Active.answer = "granted" /\ dropped' = dropped
         /\ grant'.state = "authorized" /\ grant'.access = Active.access /\ grant'.renew = Active.renew /\ grant'.fresh = TRUE
         /\ grant' \in Grants
      \/ /\ Active.kind = "refresh" /\ Active.answer = "invalid_grant" /\ dropped' = dropped
         /\ grant'.state = "reauthorization_required" /\ grant'.access = NoToken /\ grant'.renew = grant.renew /\ grant'.fresh = FALSE
         /\ grant' \in Grants
  <2>1. CASE Active.answer = "failed"
    BY <2>1, <1>e
  <2>2. CASE Active.kind = "disconnect" /\ Active.answer = "granted"
    BY <2>2, <1>e, <1>f, <1>s DEF GrantBy, Missing, Grants
  <2>3. CASE Active.kind # "disconnect" /\ Active.answer = "granted"
    BY <2>3, <1>e, <1>f DEF GrantBy, Granted, Grants, JobKinds
  <2>4. CASE Active.answer = "invalid_grant"
    BY <2>4, <1>e, <1>f, <1>s DEF GrantBy, Grants
  <2> QED BY <2>1, <2>2, <2>3, <2>4, <1>f, <1>s
<1>o. /\ certOp' \in [CertOps -> CertOpStates]
      /\ Active.kind = "refresh" => \A o \in CertOps :
           /\ certOp[o].at # "waiting" => certOp'[o] = certOp[o]
           /\ certOp[o].at = "waiting" =>
                IF Active.answer = "granted"
                THEN certOp'[o].at = "calling" /\ certOp'[o].token = Active.access /\ certOp'[o].refused = certOp[o].refused
                ELSE certOp'[o].at = "done" /\ certOp'[o].token = NoToken
  <2>1. CASE Active.kind # "refresh"
    BY <2>1, <1>e, <1>f
  <2>2. CASE Active.kind = "refresh" /\ Active.answer = "granted"
    <3>1. RefreshGives(Active.access)
      BY <2>2, <1>e
    <3> QED BY <2>2, <3>1, <1>f, RefreshGivesAll
  <2>3. CASE Active.kind = "refresh" /\ Active.answer # "granted"
    <3>1. PICK reason \in Outcomes : RefreshFails(reason)
      BY <2>3, <1>e DEF Outcomes
    <3> QED BY <2>3, <3>1, <1>f, RefreshFailsAll
  <2> QED BY <2>1, <2>2, <2>3
<1>1. BrokerTyped'
  <2>1. grant' \in Grants
    BY <1>n, <1>f
  <2>2. dropped' \subseteq Lineages
    BY <1>n, <1>f, <1>s, TokenShape DEF MaybeTokens, GrantIsWhole, Grants
  <2> QED BY <2>1, <2>2, <1>u, <1>q, <1>o DEF BrokerTyped, PersonTyped, ObjectTyped
<1>2. GrantIsWhole'
  <2>1. grant.renew # NoToken \/ Active.kind # "refresh"
    BY <1>s DEF GrantIsWhole
  <2> QED BY <2>1, <1>u, <1>n, <1>s DEF GrantIsWhole
<1>3. OpsAreWhole'
  <2>1. ASSUME NEW o \in CertOps PROVE OpIsWhole(certOp[o])'
    <3>1. OpIsWhole(certOp[o])
      BY DEF OpsAreWhole
    <3>2. CASE Active.kind # "refresh"
      BY <3>1, <3>2, <1>e, <1>q DEF OpIsWhole
    <3>3. CASE Active.kind = "refresh"
      BY <3>1, <3>3, <1>o, <1>s DEF OpIsWhole
    <3> QED BY <3>2, <3>3
  <2> QED BY <2>1 DEF OpsAreWhole
<1>4. ActiveIsOnGrant'
  BY <1>q, <1>g DEF ActiveIsOnGrant, Idle
<1>5. SerialsFollow'
  <2>1. grant'.state # "missing" => provider.serial[grant'.renew[1]] > 0
    BY <1>n, <1>s, <1>g DEF SerialsFollow
  <2>2. \A l \in provider.dead \cup dropped' : provider.serial[l] > 0
    BY <1>n, <1>s DEF SerialsFollow
  <2> QED BY <2>1, <2>2, <1>u, <1>g DEF SerialsFollow
<1>6. NewestIsKept'
  <2>1. ASSUME ~Missed, grant'.state # "missing" PROVE Newest(grant'.renew)
    BY <2>1, <1>n, <1>s, <1>g DEF NewestIsKept
  <2>2. ~Missed => dropped' \subseteq provider.dead
    BY <1>n, <1>s, <1>g DEF NewestIsKept
  <2> QED BY <2>1, <2>2, <1>u, <1>g DEF NewestIsKept, Newest, Missed, BStruck
<1>7. GrantIsAlive'
  <2>1. ASSUME ~BStruck({"withdraw"}), ~Missed, grant'.state # "missing" PROVE grant'.renew[1] \notin provider.dead
    BY <2>1, <1>n, <1>s, <1>g DEF GrantIsAlive
  <2>2. grant'.state # "missing" => grant'.renew[1] \notin dropped'
    BY <1>n, <1>s, <1>g DEF GrantIsAlive
  <2>3. ~BStruck({"withdraw"}) /\ bplan.disconnects = 0 => provider.dead = {}
    BY DEF GrantIsAlive
  <2> QED BY <2>1, <2>2, <2>3, <1>u, <1>g DEF GrantIsAlive, Missed, BStruck
<1>8. VoidIsEarned'
  BY <1>n, <1>q, <1>u DEF VoidIsEarned, Idle, Excused, Missed, BStruck
<1>c. /\ Calm' <=> Calm
      /\ Calm => Active.kind # "disconnect" /\ (Active.kind = "refresh" => Active.answer = "granted")
  <2>1. Calm' <=> Calm
    BY <1>u DEF Calm
  <2>2. Calm => Active.kind # "disconnect"
    BY <1>a, BrokerPlanShape DEF JobIsWhole, Calm, BrokerTyped, PersonTyped
  <2> QED BY <2>1, <2>2, <1>a DEF CalmlyServed
<1>9. QuietlyServed'
  <2>1. ASSUME bspent.ages = 0, Calm, bfaults = {} PROVE ~Refreshing' /\ \A o \in CertOps : QuietOp(certOp[o])'
    <3>1. ~Refreshing /\ \A o \in CertOps : QuietOp(certOp[o])
      BY <2>1 DEF QuietlyServed
    <3> QED BY <3>1, <1>a, <1>e, <1>q, <1>u, OpsStay
  <2> QED BY <2>1, <1>c, <1>u DEF QuietlyServed
<1>10. CalmlyServed'
  <2>1. ASSUME Calm, NEW o \in CertOps PROVE CalmOp(certOp[o])'
    <3>1. CalmOp(certOp[o])
      BY <2>1 DEF CalmlyServed
    <3>2. PICK op : op = certOp'[o]
      OBVIOUS
    <3>3. CalmOp(op)
      <4>1. CASE Active.kind # "refresh"
        BY <3>1, <3>2, <4>1, <1>e
      <4>2. CASE Active.kind = "refresh"
        <5>1. Good(Active.access)
          BY <2>1, <4>2, <1>c, <1>g DEF CalmlyServed
        <5> QED BY <3>1, <3>2, <4>2, <5>1, <2>1, <1>o, <1>c DEF CalmOp
      <4> QED BY <4>1, <4>2
    <3>4. CalmOp(op)'
      BY <3>3, <1>u DEF CalmOp, Good
    <3> QED BY <3>2, <3>4
  <2>2. Calm => grant'.state = "authorized"
    BY <1>n, <1>c DEF CalmlyServed
  <2>3. ASSUME Calm, bfaults = {}, grant'.fresh PROVE Good(grant'.access)
    BY <2>3, <1>n, <1>c, <1>g DEF CalmlyServed
  <2> QED BY <2>1, <2>2, <2>3, <1>c, <1>g, <1>q, <1>u DEF CalmlyServed, Good, Idle
<1> QED BY <1>1, <1>2, <1>3, <1>4, <1>5, <1>6, <1>7, <1>8, <1>9, <1>10, <1>q

-----------------------------------------------------------------------------
(* The person: the grant, its tokens and the requests are left alone, and   *)
(* at most a job comes.                                                     *)
LEMMA PersonHolds ==
  ASSUME BrokerInv, PersonTyped', grant' = grant, certOp' = certOp, dropped' = dropped, bplan' = bplan, bfaults' = bfaults,
         bspent'.ages \in {bspent.ages, bspent.ages + 1},
         provider' \in ProviderStates, provider'.serial = provider.serial, provider'.dead = provider.dead,
         provider'.live = provider.live, provider'.due = provider.due,
         \A n \in provider'.codes : provider.serial[n] = 0 /\ link'[n] \notin {"none", "open"},
         \A n \in 1..MaxLinks : /\ n > bspent'.links => link'[n] = "none"
                                /\ link'[n] \in {"none", "open"} => provider.serial[n] = 0,
         QueueIsOrdered', lineup' \in Seq(MutexJobs), Active' = Active \/ (Idle' /\ Active.at = "queued"),
         Refreshing' <=> Refreshing
  PROVE  BrokerInv'
<1> USE DEF BrokerInv
<1>a. bspent.ages \in Nat /\ (bspent'.ages = 0 => bspent.ages = 0) /\ (bspent'.ages <= 1 => bspent.ages <= 1)
  BY DEF BrokerTyped, PersonTyped
<1>c. Calm' => Calm
  BY <1>a DEF Calm
<1>1. BrokerTyped'
  BY DEF BrokerTyped, ObjectTyped
<1>2. GrantIsWhole' /\ OpsAreWhole'
  BY <1>a DEF GrantIsWhole, OpsAreWhole, OpIsWhole
<1>3. ActiveIsOnGrant' /\ NewestIsKept' /\ GrantIsAlive' /\ VoidIsEarned'
  BY GrantFrame
<1>4. SerialsFollow'
  <2>1. provider'.live \cup provider'.due \subseteq provider.live \cup provider.due
    OBVIOUS
  <2> QED BY <2>1, SerialsFrame
<1>5. /\ (\A o \in CertOps : QuietOp(certOp[o])) => \A o \in CertOps : QuietOp(certOp[o])'
      /\ (\A o \in CertOps : CalmOp(certOp[o])) => \A o \in CertOps : CalmOp(certOp[o])'
  BY DEF QuietOp, CalmOp, Good
<1>6. QuietlyServed'
  BY <1>a, <1>c, <1>5 DEF QuietlyServed
<1>7. Active' # Active => ~Granting("refresh")' /\ ~Granting("exchange")' /\ Active'.at # "answered"
  BY DEF Granting, Idle
<1>8. Active' = Active => (Granting("refresh")' <=> Granting("refresh")) /\ (Granting("exchange")' <=> Granting("exchange"))
  BY DEF Granting
<1>9. CalmlyServed'
  BY <1>c, <1>5, <1>7, <1>8 DEF CalmlyServed, Good
<1> QED BY <1>1, <1>2, <1>3, <1>4, <1>6, <1>9

LEMMA LinksAreNumbered ==
  ASSUME BrokerTyped
  PROVE  /\ bspent.links \in Nat /\ bspent.disconnects \in Nat /\ bspent.ages \in Nat /\ bspent.links <= bplan.links
         /\ bplan.links <= MaxLinks /\ bplan.links \in Nat /\ MaxLinks \in Nat
         /\ bplan.disconnects \in Nat /\ 1..MaxLinks \subseteq Lineages /\ Lineages = 0..MaxLinks
BY BrokerPlanShape DEF BrokerTyped, PersonTyped, Lineages

LEMMA AuthorizeHolds ==
  ASSUME BrokerInv, Authorize
  PROVE  BrokerInv'
<1> USE DEF BrokerInv
<1> DEFINE n == bspent.links + 1
<1>u. /\ grant' = grant /\ lineup' = lineup /\ certOp' = certOp /\ provider' = provider /\ dropped' = dropped
      /\ bplan' = bplan /\ bfaults' = bfaults
      /\ pendingLink' = [link |-> n, fresh |-> TRUE] /\ link' = [link EXCEPT ![n] = "open"] /\ bspent' = [bspent EXCEPT !.links = n]
  BY DEF Authorize
<1>n. n \in 1..bplan.links /\ n \in 1..MaxLinks /\ n \in Lineages /\ n > bspent.links
  BY LinksAreNumbered DEF Authorize
<1>f. /\ bspent \in [links : 0..bplan.links, disconnects : 0..bplan.disconnects, ages : Nat]
      /\ link \in [1..MaxLinks -> {"none", "open", "consented", "denied"}] /\ provider \in ProviderStates
      /\ lineup \in Seq(MutexJobs) /\ bspent.links \in Nat
  BY LinksAreNumbered DEF BrokerTyped, PersonTyped, ObjectTyped
<1>b. bspent' \in [links : 0..bplan.links, disconnects : 0..bplan.disconnects, ages : Nat] /\ bspent'.ages = bspent.ages
      /\ bspent'.links = n
  BY <1>u, <1>n, <1>f
<1>t. PersonTyped'
  BY <1>u, <1>n, <1>f, <1>b DEF BrokerTyped, PersonTyped
<1>q. QueueIsOrdered' /\ Active' = Active /\ (Refreshing' <=> Refreshing)
  BY <1>u, <1>b, QueueFrame
<1>l. link'[n] = "open" /\ link[n] = "none" /\ \A m \in 1..MaxLinks : m # n => link'[m] = link[m]
  BY <1>u, <1>n, <1>f DEF SerialsFollow
<1>c. provider.codes \subseteq 1..MaxLinks /\ \A m \in provider.codes : m # n /\ provider.serial[m] = 0 /\ link'[m] \notin {"none", "open"}
  BY <1>f, <1>l DEF SerialsFollow, ProviderStates
<1>m. \A m \in 1..MaxLinks : /\ m > bspent'.links => link'[m] = "none"
                             /\ link'[m] \in {"none", "open"} => provider.serial[m] = 0
  <2>1. ASSUME NEW m \in 1..MaxLinks
        PROVE  (m > n => link'[m] = "none") /\ (link'[m] \in {"none", "open"} => provider.serial[m] = 0)
    <3>1. (m > bspent.links => link[m] = "none") /\ (link[m] \in {"none", "open"} => provider.serial[m] = 0)
      BY DEF SerialsFollow
    <3>2. m > n => m > bspent.links /\ m # n
      BY <1>n, <1>f
    <3> QED BY <3>1, <3>2, <1>l
  <2> QED BY <2>1, <1>b
<1> HIDE DEF n
<1> QED BY <1>u, <1>f, <1>b, <1>t, <1>q, <1>c, <1>m, PersonHolds

LEMMA ConsentHolds ==
  ASSUME BrokerInv, NEW n \in 1..MaxLinks, Consent(n)
  PROVE  BrokerInv'
<1> USE DEF BrokerInv
<1>u. /\ grant' = grant /\ pendingLink' = pendingLink /\ lineup' = lineup /\ certOp' = certOp /\ dropped' = dropped
      /\ bplan' = bplan /\ bspent' = bspent /\ bfaults' = bfaults /\ link[n] = "open"
  BY DEF Consent
<1>f. /\ link \in [1..MaxLinks -> {"none", "open", "consented", "denied"}] /\ provider \in ProviderStates
      /\ provider.codes \subseteq 1..MaxLinks /\ lineup \in Seq(MutexJobs) /\ bspent.ages \in Nat
  BY DEF BrokerTyped, PersonTyped, ObjectTyped, ProviderStates
<1>p. /\ provider' \in ProviderStates /\ provider'.serial = provider.serial /\ provider'.dead = provider.dead
      /\ provider'.live = provider.live /\ provider'.due = provider.due /\ provider'.codes \subseteq provider.codes \cup {n}
      /\ provider'.codes = provider.codes \/ link' = [link EXCEPT ![n] = "consented"]
  BY SMTT(30), <1>f DEF Consent, ProviderStates
<1>l. /\ link' \in [1..MaxLinks -> {"none", "open", "consented", "denied"}] /\ link'[n] \in {"consented", "denied"}
      /\ \A m \in 1..MaxLinks : m # n => link'[m] = link[m]
  BY <1>f DEF Consent
<1>t. PersonTyped'
  BY <1>u, <1>l DEF BrokerTyped, PersonTyped
<1>q. QueueIsOrdered' /\ Active' = Active /\ (Refreshing' <=> Refreshing)
  BY <1>u, QueueFrame
<1>s. provider.serial[n] = 0 /\ bspent.links >= n
  BY <1>u, LinksAreNumbered DEF SerialsFollow
<1>c. \A m \in provider'.codes : provider.serial[m] = 0 /\ link'[m] \notin {"none", "open"}
  BY <1>f, <1>l, <1>p, <1>s DEF SerialsFollow
<1>m. \A m \in 1..MaxLinks : /\ m > bspent'.links => link'[m] = "none"
                             /\ link'[m] \in {"none", "open"} => provider.serial[m] = 0
  <2>1. ASSUME NEW m \in 1..MaxLinks
        PROVE  (m > bspent.links => link'[m] = "none") /\ (link'[m] \in {"none", "open"} => provider.serial[m] = 0)
    <3>1. (m > bspent.links => link[m] = "none") /\ (link[m] \in {"none", "open"} => provider.serial[m] = 0)
      BY DEF SerialsFollow
    <3>2. m > bspent.links => m # n
      BY <1>s, LinksAreNumbered
    <3> QED BY <3>1, <3>2, <1>l
  <2> QED BY <2>1, <1>u
<1> QED BY <1>u, <1>f, <1>p, <1>t, <1>q, <1>c, <1>m, PersonHolds

(* What the lineages say of the links does not change with the queue. *)
LEMMA LinksStay ==
  ASSUME BrokerInv, link' = link, bspent'.links = bspent.links, provider' = provider
  PROVE  /\ provider' \in ProviderStates
         /\ \A n \in provider'.codes : provider.serial[n] = 0 /\ link'[n] \notin {"none", "open"}
         /\ \A n \in 1..MaxLinks : /\ n > bspent'.links => link'[n] = "none"
                                   /\ link'[n] \in {"none", "open"} => provider.serial[n] = 0
BY DEF BrokerInv, BrokerTyped, ObjectTyped, SerialsFollow

LEMMA CallbackHolds ==
  ASSUME BrokerInv, NEW n \in 1..MaxLinks, Callback(n)
  PROVE  BrokerInv'
<1> USE DEF BrokerInv
<1>u. /\ grant' = grant /\ certOp' = certOp /\ provider' = provider /\ link' = link /\ dropped' = dropped
      /\ bplan' = bplan /\ bspent' = bspent /\ bfaults' = bfaults /\ pendingLink' = NoLink
  BY DEF Callback
<1>t. PersonTyped' /\ lineup \in Seq(MutexJobs) /\ bspent.ages \in Nat
  BY <1>u, BrokerPlanShape DEF BrokerTyped, PersonTyped, ObjectTyped, NoLink
<1>q. /\ QueueIsOrdered' /\ lineup' \in Seq(MutexJobs) /\ (Active' = Active \/ (Idle' /\ Active.at = "queued"))
      /\ Refreshing' <=> Refreshing
  <2>1. CASE lineup' = lineup
    BY <1>u, <1>t, <2>1, QueueFrame
  <2>2. CASE lineup' = Append(lineup, MutexJob("exchange", "cached", n))
    <3>1. PICK job : job = MutexJob("exchange", "cached", n)
      OBVIOUS
    <3>2. job \in MutexJobs /\ job.at = "queued" /\ job.answer = "none" /\ job.kind = "exchange" /\ job.code = n
      <4>1. "exchange" \in JobKinds /\ "cached" \in Modes /\ n \in Lineages
        BY LinksAreNumbered DEF JobKinds, Modes
      <4> QED BY <3>1, <4>1, NewJob
    <3>3. lineup' = Append(lineup, job)
      BY <2>2, <3>1
    <3> QED BY <1>u, <3>2, <3>3, QueueComes
  <2> QED BY <2>1, <2>2 DEF Callback
<1>l. /\ provider' \in ProviderStates
      /\ \A m \in provider'.codes : provider.serial[m] = 0 /\ link'[m] \notin {"none", "open"}
      /\ \A m \in 1..MaxLinks : /\ m > bspent'.links => link'[m] = "none"
                                /\ link'[m] \in {"none", "open"} => provider.serial[m] = 0
  BY <1>u, LinksStay
<1> QED BY <1>u, <1>t, <1>q, <1>l, PersonHolds

LEMMA DisconnectHolds ==
  ASSUME BrokerInv, Disconnect
  PROVE  BrokerInv'
<1> USE DEF BrokerInv
<1>u. /\ grant' = grant /\ pendingLink' = pendingLink /\ certOp' = certOp /\ provider' = provider /\ link' = link
      /\ dropped' = dropped /\ bplan' = bplan /\ bfaults' = bfaults
  BY DEF Disconnect
<1>f. bspent \in [links : 0..bplan.links, disconnects : 0..bplan.disconnects, ages : Nat] /\ bplan.disconnects \in Nat
      /\ bspent.disconnects < bplan.disconnects
  BY LinksAreNumbered DEF BrokerTyped, PersonTyped, Disconnect
<1>b. /\ bspent' \in [links : 0..bplan.links, disconnects : 0..bplan.disconnects, ages : Nat]
      /\ bspent'.ages = bspent.ages /\ bspent'.links = bspent.links /\ bplan.disconnects > 0
  BY <1>f DEF Disconnect
<1>t. PersonTyped'
  BY <1>u, <1>b DEF BrokerTyped, PersonTyped
<1>q. /\ QueueIsOrdered' /\ lineup' \in Seq(MutexJobs) /\ (Active' = Active \/ (Idle' /\ Active.at = "queued"))
      /\ Refreshing' <=> Refreshing
  <2>1. PICK job : job = MutexJob("disconnect", "cached", 0)
    OBVIOUS
  <2>2. job \in MutexJobs /\ job.at = "queued" /\ job.answer = "none" /\ job.kind = "disconnect"
    <3>1. "disconnect" \in JobKinds /\ "cached" \in Modes /\ 0 \in Lineages
      BY LinksAreNumbered DEF JobKinds, Modes
    <3> QED BY <2>1, <3>1, NewJob
  <2>3. lineup' = Append(lineup, job)
    BY <2>1 DEF Disconnect
  <2> QED BY <1>u, <1>b, <2>2, <2>3, QueueComes
<1>l. /\ provider' \in ProviderStates
      /\ \A m \in provider'.codes : provider.serial[m] = 0 /\ link'[m] \notin {"none", "open"}
      /\ \A m \in 1..MaxLinks : /\ m > bspent'.links => link'[m] = "none"
                                /\ link'[m] \in {"none", "open"} => provider.serial[m] = 0
  BY <1>u, <1>b, LinksStay
<1> QED BY <1>u, <1>b, <1>t, <1>q, <1>l, PersonHolds

LEMMA LinkAgesHolds ==
  ASSUME BrokerInv, LinkAges \/ UNCHANGED brokerVars
  PROVE  BrokerInv'
<1> USE DEF BrokerInv
<1>u. /\ grant' = grant /\ certOp' = certOp /\ provider' = provider /\ link' = link /\ lineup' = lineup
      /\ dropped' = dropped /\ bplan' = bplan /\ bfaults' = bfaults
      /\ pendingLink' \in {pendingLink, [pendingLink EXCEPT !.fresh = FALSE]}
      /\ bspent' \in {bspent, [bspent EXCEPT !.ages = @ + 1]}
  BY DEF LinkAges, brokerVars
<1>f. /\ bspent \in [links : 0..bplan.links, disconnects : 0..bplan.disconnects, ages : Nat]
      /\ pendingLink \in [link : Lineages, fresh : BOOLEAN] /\ lineup \in Seq(MutexJobs)
  BY DEF BrokerTyped, PersonTyped, ObjectTyped
<1>b. /\ bspent' \in [links : 0..bplan.links, disconnects : 0..bplan.disconnects, ages : Nat]
      /\ bspent'.ages \in {bspent.ages, bspent.ages + 1} /\ bspent'.links = bspent.links
      /\ bspent'.ages = 0 => bspent.ages = 0
  <2>1. CASE bspent' = bspent
    BY <1>f, <2>1
  <2>2. CASE bspent' = [bspent EXCEPT !.ages = @ + 1]
    BY <1>f, <2>2
  <2> QED BY <1>u, <2>1, <2>2
<1>p. pendingLink' \in [link : Lineages, fresh : BOOLEAN]
  BY <1>u, <1>f
<1>t. PersonTyped'
  BY <1>u, <1>b, <1>p DEF BrokerTyped, PersonTyped
<1>q. QueueIsOrdered' /\ Active' = Active /\ (Refreshing' <=> Refreshing)
  BY <1>u, <1>b, QueueFrame
<1>l. /\ provider' \in ProviderStates
      /\ \A m \in provider'.codes : provider.serial[m] = 0 /\ link'[m] \notin {"none", "open"}
      /\ \A m \in 1..MaxLinks : /\ m > bspent'.links => link'[m] = "none"
                                /\ link'[m] \in {"none", "open"} => provider.serial[m] = 0
  BY <1>u, <1>b, LinksStay
<1> QED BY <1>u, <1>f, <1>b, <1>t, <1>q, <1>l, PersonHolds

-----------------------------------------------------------------------------
(* Time, and what goes wrong: the queue is left alone. *)
LEMMA TimeHolds ==
  ASSUME BrokerInv, TokenAges
  PROVE  BrokerInv'
<1> USE DEF BrokerInv
<1>u. /\ pendingLink' = pendingLink /\ lineup' = lineup /\ certOp' = certOp /\ link' = link /\ dropped' = dropped
      /\ bplan' = bplan /\ bfaults' = bfaults /\ grant.fresh
      /\ grant' = [grant EXCEPT !.fresh = FALSE] /\ bspent' = [bspent EXCEPT !.ages = @ + 1]
      /\ provider' = [provider EXCEPT !.due = provider.live \ {lineup[i].access : i \in 1..Len(lineup)}]
  BY DEF TokenAges
<1>f. /\ bspent \in [links : 0..bplan.links, disconnects : 0..bplan.disconnects, ages : Nat] /\ grant \in Grants
      /\ provider \in ProviderStates /\ lineup \in Seq(MutexJobs) /\ certOp \in [CertOps -> CertOpStates]
  BY DEF BrokerTyped, PersonTyped, ObjectTyped
<1>b. /\ bspent' \in [links : 0..bplan.links, disconnects : 0..bplan.disconnects, ages : Nat]
      /\ bspent'.ages = bspent.ages + 1 /\ bspent'.links = bspent.links /\ bspent'.ages # 0 /\ bspent.ages \in Nat
  BY <1>u, <1>f
<1>g. /\ grant' \in Grants /\ grant'.state = grant.state /\ grant'.access = grant.access /\ grant'.renew = grant.renew
      /\ grant'.fresh = FALSE
  BY <1>u, <1>f DEF Grants
<1>p. /\ provider' \in ProviderStates /\ provider'.serial = provider.serial /\ provider'.dead = provider.dead
      /\ provider'.live = provider.live /\ provider'.codes = provider.codes
      /\ provider'.due = provider.live \ {lineup[i].access : i \in 1..Len(lineup)}
  BY <1>u, <1>f DEF ProviderStates
<1>q. QueueIsOrdered' /\ Active' = Active /\ (Refreshing' <=> Refreshing)
  BY <1>u, <1>b, QueueFrame
<1>1. BrokerTyped'
  BY <1>u, <1>f, <1>b, <1>g, <1>p DEF BrokerTyped, PersonTyped, ObjectTyped
<1>2. GrantIsWhole'
  BY <1>b, <1>g DEF GrantIsWhole
<1>3. OpsAreWhole'
  BY <1>u, <1>q DEF OpsAreWhole, OpIsWhole
<1>4. ActiveIsOnGrant' /\ NewestIsKept' /\ GrantIsAlive' /\ VoidIsEarned'
  BY <1>u, <1>g, <1>p, <1>q, GrantFrame
<1>5. SerialsFollow'
  <2>1. /\ provider'.live \cup provider'.due \subseteq provider.live \cup provider.due
        /\ \A n \in provider'.codes : provider.serial[n] = 0 /\ link'[n] \notin {"none", "open"}
        /\ \A n \in 1..MaxLinks : /\ n > bspent'.links => link'[n] = "none"
                                  /\ link'[n] \in {"none", "open"} => provider.serial[n] = 0
    BY <1>u, <1>b, <1>p DEF SerialsFollow
  <2> QED BY <2>1, <1>u, <1>g, <1>p, <1>q, SerialsFrame
<1>6. QuietlyServed'
  BY <1>b DEF QuietlyServed
<1>c. ASSUME Calm'
      PROVE  Calm /\ ~Refreshing /\ grant.state = "authorized" /\ \A o \in CertOps : QuietOp(certOp[o]) /\ CalmOp(certOp[o])
  <2>1. bfaults = {} /\ bspent.ages = 0
    BY <1>c, <1>b, <1>u DEF Calm
  <2>2. Calm
    BY <1>c, <2>1, <1>u DEF Calm
  <2> QED BY <2>1, <2>2 DEF QuietlyServed, CalmlyServed
<1>7. CalmlyServed'
  <2>1. ~Refreshing => ~(Active.kind = "refresh")
    BY <1>f, ActiveJob DEF Refreshing, Active, MutexJob
  <2>2. ASSUME Calm', NEW o \in CertOps PROVE CalmOp(certOp[o])'
    BY <2>2, <1>c, <1>u DEF CalmOp, QuietOp
  <2>3. ASSUME Calm', Granting("exchange") PROVE Active.access \in provider'.live \ provider'.due
    <3>1. lineup # <<>>
      BY <2>3 DEF Granting, Active, MutexJob
    <3>2. Active = lineup[1] /\ 1 \in 1..Len(lineup)
      BY <3>1, <1>f, ActiveJob
    <3>3. Active.access \in provider.live
      BY <2>3, <1>c, <1>u, <1>b DEF CalmlyServed, Good, Calm
    <3> QED BY <3>2, <3>3, <1>p
  <2> QED BY <2>1, <2>2, <2>3, <1>c, <1>g, <1>q DEF CalmlyServed, Granting, Good
<1> QED BY <1>1, <1>2, <1>3, <1>4, <1>5, <1>6, <1>7, <1>q

LEMMA TokenGoesHolds ==
  ASSUME BrokerInv, Refuse \/ \E token \in provider.live : TokenEnds(token)
  PROVE  BrokerInv'
<1> USE DEF BrokerInv
<1>u. /\ grant' = grant /\ pendingLink' = pendingLink /\ lineup' = lineup /\ certOp' = certOp /\ link' = link
      /\ dropped' = dropped /\ bplan' = bplan /\ bspent' = bspent
  BY DEF Refuse, TokenEnds
<1>b. \/ BrokerFault("refuse")
      \/ bfaults' = bfaults /\ \E token \in provider.due : provider'.live = provider.live \ {token}
  <2>1. ASSUME NEW token \in provider.live, TokenEnds(token)
        PROVE  bfaults' = bfaults /\ token \in provider.due /\ provider'.live = provider.live \ {token}
    BY <2>1 DEF TokenEnds, BrokerTyped, ObjectTyped, ProviderStates
  <2> QED BY <2>1 DEF Refuse
<1>c. bfaults' \subseteq BrokerFaults /\ bfaults \subseteq bfaults'
  BY <1>b DEF BrokerFault, BrokerFaults, BrokerTyped, PersonTyped
<1>f. provider \in ProviderStates /\ lineup \in Seq(MutexJobs) /\ bspent.ages \in Nat
  BY DEF BrokerTyped, PersonTyped, ObjectTyped
<1>p. /\ provider' \in ProviderStates /\ provider'.serial = provider.serial /\ provider'.dead = provider.dead
      /\ provider'.live \subseteq provider.live /\ provider'.codes = provider.codes /\ provider'.due = provider.due
  BY <1>f DEF Refuse, TokenEnds, ProviderStates
<1>q. QueueIsOrdered' /\ Active' = Active /\ (Refreshing' <=> Refreshing)
  BY <1>u, QueueFrame
<1>1. BrokerTyped'
  BY <1>u, <1>c, <1>p DEF BrokerTyped, PersonTyped, ObjectTyped
<1>2. GrantIsWhole' /\ OpsAreWhole'
  BY <1>u, <1>q DEF GrantIsWhole, OpsAreWhole, OpIsWhole
<1>3. ActiveIsOnGrant' /\ NewestIsKept' /\ GrantIsAlive' /\ VoidIsEarned'
  BY <1>u, <1>c, <1>p, <1>q, GrantFrame
<1>4. SerialsFollow'
  <2>1. /\ provider'.live \cup provider'.due \subseteq provider.live \cup provider.due
        /\ \A n \in provider'.codes : provider.serial[n] = 0 /\ link'[n] \notin {"none", "open"}
        /\ \A n \in 1..MaxLinks : /\ n > bspent'.links => link'[n] = "none"
                                  /\ link'[n] \in {"none", "open"} => provider.serial[n] = 0
    BY <1>u, <1>p DEF SerialsFollow
  <2> QED BY <2>1, <1>u, <1>p, <1>q, SerialsFrame
<1>5. CASE BrokerFault("refuse")
  <2>1. bfaults' # {} /\ bfaults' # bfaults
    BY <1>5 DEF BrokerFault
  <2>2. QuietlyServed'
    BY <2>1, <1>u, <1>p DEF QuietlyServed
  <2>3. ASSUME Calm' PROVE Calm /\ ~Refreshing /\ grant.state = "authorized" /\ \A o \in CertOps : QuietOp(certOp[o]) /\ CalmOp(certOp[o])
    <3>1. bfaults' = {"refuse"} /\ bspent.ages = 0
      BY <2>3, <2>1, <1>u DEF Calm
    <3>2. bfaults = {}
      BY <3>1, <1>5 DEF BrokerFault
    <3>3. Calm
      BY <2>3, <3>1, <3>2, <1>u DEF Calm
    <3> QED BY <3>1, <3>2, <3>3 DEF QuietlyServed, CalmlyServed
  <2>4. ~Refreshing => ~(Active.kind = "refresh")
    BY <1>f, ActiveJob DEF Refreshing, Active, MutexJob
  <2>5. ASSUME Calm', NEW o \in CertOps PROVE CalmOp(certOp[o])'
    BY <2>5, <2>3, <1>u DEF CalmOp, QuietOp
  <2>6. CalmlyServed'
    BY <2>1, <2>3, <2>4, <2>5, <1>u, <1>q DEF CalmlyServed, Granting
  <2> QED BY <1>1, <1>2, <1>3, <1>4, <2>2, <2>6, <1>q
<1>6. CASE bfaults' = bfaults /\ \E token \in provider.due : provider'.live = provider.live \ {token}
  <2>1. Calm' <=> Calm
    BY <1>6, <1>u DEF Calm
  <2>2. QuietlyServed'
    BY <1>6, <1>u, <1>p DEF QuietlyServed
  <2>3. \A t : Good(t) => t \in provider'.live \ provider'.due
    BY <1>6, <1>p DEF Good
  <2>4. ASSUME Calm, NEW o \in CertOps PROVE CalmOp(certOp[o])'
    BY <2>4, <2>3, <1>u DEF CalmlyServed, CalmOp, Good
  <2>5. Granting("refresh")' <=> Granting("refresh")
    BY <1>q DEF Granting
  <2>6. Granting("exchange")' <=> Granting("exchange")
    BY <1>q DEF Granting
  <2>7. CalmlyServed'
    BY <1>6, <2>1, <2>3, <2>4, <2>5, <2>6, <1>u, <1>q DEF CalmlyServed, Good
  <2> QED BY <1>1, <1>2, <1>3, <1>4, <2>2, <2>7, <1>q
<1> QED BY <1>b, <1>5, <1>6

LEMMA WithdrawGrantHolds ==
  ASSUME BrokerInv, WithdrawGrant
  PROVE  BrokerInv'
<1> USE DEF BrokerInv
<1>u. /\ grant' = grant /\ pendingLink' = pendingLink /\ lineup' = lineup /\ certOp' = certOp /\ link' = link
      /\ dropped' = dropped /\ bplan' = bplan /\ bspent' = bspent /\ BrokerFault("withdraw") /\ grant.state = "authorized"
      /\ provider' = Withdrawn(grant.renew[1])
  BY DEF WithdrawGrant
<1>c. bfaults' \subseteq BrokerFaults /\ bfaults \subseteq bfaults' /\ BStruck({"withdraw"})' /\ ~Calm'
  BY <1>u DEF BrokerFault, BrokerFaults, BrokerTyped, PersonTyped, BStruck, Calm
<1>f. /\ provider \in ProviderStates /\ grant.renew \in MaybeTokens /\ grant.renew # NoToken
      /\ bspent.ages \in Nat
  BY <1>u DEF BrokerTyped, PersonTyped, ObjectTyped, Grants, GrantIsWhole
<1>l. grant.renew[1] \in Lineages
  BY <1>f, TokenShape DEF MaybeTokens
<1>p. /\ provider' \in ProviderStates /\ provider'.serial = provider.serial /\ provider'.dead = provider.dead \cup {grant.renew[1]}
      /\ provider'.live \subseteq provider.live /\ provider'.codes = provider.codes /\ provider'.due = provider.due
  BY <1>u, <1>f, <1>l DEF Withdrawn, ProviderStates
<1>q. QueueIsOrdered' /\ Active' = Active /\ (Refreshing' <=> Refreshing)
  BY <1>u, QueueFrame
<1>g. (Granting("refresh")' <=> Granting("refresh")) /\ (Granting("exchange")' <=> Granting("exchange"))
      /\ (Granting("disconnect")' <=> Granting("disconnect"))
  BY <1>q DEF Granting
<1>k. ~Missed' => ~Missed
  BY <1>c DEF Missed, BStruck
<1>1. BrokerTyped'
  BY <1>u, <1>c, <1>p DEF BrokerTyped, PersonTyped, ObjectTyped
<1>2. GrantIsWhole' /\ OpsAreWhole'
  BY <1>u, <1>q DEF GrantIsWhole, OpsAreWhole, OpIsWhole
<1>3. ActiveIsOnGrant'
  BY <1>u, <1>q, <1>g DEF ActiveIsOnGrant
<1>4. SerialsFollow'
  BY <1>u, <1>p, <1>q, <1>g DEF SerialsFollow
<1>5. NewestIsKept'
  BY <1>u, <1>p, <1>q, <1>g, <1>k DEF NewestIsKept, Newest
<1>6. GrantIsAlive'
  BY <1>c, <1>u, <1>q, <1>g DEF GrantIsAlive
<1>7. VoidIsEarned'
  BY <1>c DEF VoidIsEarned, Excused
<1>8. QuietlyServed' /\ CalmlyServed'
  BY <1>c, <1>u, <1>p DEF QuietlyServed, CalmlyServed
<1> QED BY <1>1, <1>2, <1>3, <1>4, <1>5, <1>6, <1>7, <1>8, <1>q

LEMMA EvictHolds ==
  ASSUME BrokerInv, Evict
  PROVE  BrokerInv'
<1> USE DEF BrokerInv
<1>u. /\ grant' = grant /\ pendingLink' = pendingLink /\ provider' = provider /\ link' = link
      /\ dropped' = dropped /\ bplan' = bplan /\ bspent' = bspent /\ BrokerFault("evict") /\ lineup' = <<>>
      /\ certOp' = [o \in CertOps |-> IF certOp[o].at \in {"new", "done"} THEN certOp[o] ELSE OpEnds(certOp[o], "gone")]
  BY DEF Evict
<1>c. bfaults' \subseteq BrokerFaults /\ bfaults \subseteq bfaults' /\ Missed' /\ ~Calm'
  BY <1>u DEF BrokerFault, BrokerFaults, BrokerTyped, PersonTyped, BStruck, Missed, Calm
<1>f. certOp \in [CertOps -> CertOpStates]
  BY DEF BrokerTyped, ObjectTyped
<1>e. ASSUME NEW op \in CertOpStates
      PROVE  OpEnds(op, "gone") \in CertOpStates /\ OpEnds(op, "gone").at = "done" /\ OpEnds(op, "gone").token = NoToken
  BY DEF OpEnds, CertOpStates, MaybeTokens, Outcomes
<1>o. /\ certOp' \in [CertOps -> CertOpStates]
      /\ \A o \in CertOps : \/ certOp'[o] = certOp[o] /\ certOp[o].at \in {"new", "done"}
                            \/ certOp'[o].at = "done" /\ certOp'[o].token = NoToken
  BY <1>u, <1>f, <1>e
<1>q. QueueIsOrdered' /\ lineup' \in Seq(MutexJobs) /\ Idle'
  BY <1>u DEF QueueIsOrdered, Idle, Active, MutexJob
<1>1. BrokerTyped'
  BY <1>u, <1>c, <1>o, <1>q DEF BrokerTyped, PersonTyped, ObjectTyped
<1>2. GrantIsWhole'
  BY <1>u DEF GrantIsWhole
<1>3. OpsAreWhole'
  <2>1. ASSUME NEW o \in CertOps PROVE OpIsWhole(certOp[o])'
    BY <1>o DEF OpsAreWhole, OpIsWhole
  <2> QED BY <2>1 DEF OpsAreWhole
<1>4. ActiveIsOnGrant' /\ NewestIsKept' /\ GrantIsAlive' /\ VoidIsEarned'
  BY <1>u, <1>c, <1>q, GrantFrame
<1>5. SerialsFollow'
  BY <1>u, <1>q, SerialsFrame DEF SerialsFollow
<1>6. QuietlyServed' /\ CalmlyServed'
  BY <1>c, <1>u DEF QuietlyServed, CalmlyServed
<1> QED BY <1>1, <1>2, <1>3, <1>4, <1>5, <1>6, <1>q

-----------------------------------------------------------------------------
LEMMA BrokerInitHolds ==
  ASSUME BrokerInit
  PROVE  BrokerInv
<1>p. bplan \in BrokerPlans
  BY DEF BrokerInit
<1>s. /\ bplan.connected \in BOOLEAN /\ bplan.links \in Nat /\ bplan.disconnects \in Nat /\ bplan.links <= MaxLinks
      /\ 0 \in Lineages /\ <<0, 1>> \in BrokerTokens /\ MaxLinks \in Nat /\ Lineages = 0..MaxLinks
  BY <1>p, BrokerPlanShape, TokenShape DEF Lineages
<1>t. <<0, 1>>[1] = 0 /\ <<0, 1>>[2] = 1 /\ <<0, 1>> # NoToken
  BY DEF NoToken
<1>u. /\ pendingLink = [link |-> 0, fresh |-> FALSE] /\ lineup = <<>> /\ dropped = {} /\ bfaults = {}
      /\ bspent = [links |-> 0, disconnects |-> 0, ages |-> 0] /\ link = [n \in 1..MaxLinks |-> "none"]
      /\ certOp = [o \in CertOps |-> NewOp]
  BY DEF BrokerInit, NoLink
<1>o. NewOp \in CertOpStates /\ NewOp.at = "new" /\ NewOp.token = NoToken /\ NewOp.refused = NoToken
  BY DEF NewOp, CertOpStates, MaybeTokens, Outcomes
<1>a. Active.kind = "none" /\ Active.at = "queued" /\ Active.answer = "none" /\ ~Refreshing /\ Len(lineup) = 0
      /\ ~Granting("refresh") /\ ~Granting("exchange") /\ ~Granting("disconnect")
  BY <1>u DEF Active, MutexJob, Refreshing, Granting
<1>g. /\ grant \in Grants
      /\ bplan.connected => grant.state = "authorized" /\ grant.access = <<0, 1>> /\ grant.renew = <<0, 1>> /\ grant.fresh = TRUE
      /\ ~bplan.connected => grant.state = "missing" /\ grant.access = NoToken /\ grant.renew = NoToken /\ grant.fresh = FALSE
  <2>1. CASE bplan.connected
    BY <1>s, <2>1 DEF BrokerInit, Granted, Grants, MaybeTokens
  <2>2. CASE ~bplan.connected
    BY <1>s, <2>2 DEF BrokerInit, Missing, Grants, MaybeTokens
  <2> QED BY <2>1, <2>2
<1>v. /\ provider.dead = {} /\ provider.due = {} /\ provider.codes = {}
      /\ provider.serial = [l \in Lineages |-> IF l = 0 /\ bplan.connected THEN 1 ELSE 0]
      /\ provider.live = IF bplan.connected THEN {<<0, 1>>} ELSE {}
      /\ provider \in ProviderStates
  <2> DEFINE serial == [l \in Lineages |-> IF l = 0 /\ bplan.connected THEN 1 ELSE 0]
             live == IF bplan.connected THEN {<<0, 1>>} ELSE {}
  <2>1. serial \in [Lineages -> Nat] /\ live \in SUBSET BrokerTokens
    BY <1>s
  <2>2. provider = [serial |-> serial, dead |-> {}, live |-> live, due |-> {}, codes |-> {}]
    BY DEF BrokerInit
  <2> HIDE DEF serial, live
  <2>3. provider.dead = {} /\ provider.due = {} /\ provider.codes = {} /\ provider.serial = serial /\ provider.live = live
        /\ provider \in ProviderStates
    BY <2>1, <2>2 DEF ProviderStates
  <2> QED BY <2>3 DEF serial, live
<1>1. BrokerTyped
  <2>1. PersonTyped
    BY <1>p, <1>s, <1>u DEF PersonTyped
  <2>2. certOp \in [CertOps -> CertOpStates] /\ lineup \in Seq(MutexJobs)
    BY <1>u, <1>o
  <2> QED BY <2>1, <2>2, <1>u, <1>g, <1>v DEF BrokerTyped, ObjectTyped
<1>2. GrantIsWhole
  BY <1>s, <1>t, <1>g DEF GrantIsWhole
<1>3. OpsAreWhole /\ QueueIsOrdered
  BY <1>u, <1>o, <1>a DEF OpsAreWhole, OpIsWhole, QueueIsOrdered
<1>4. ActiveIsOnGrant
  BY <1>a DEF ActiveIsOnGrant
<1>5. SerialsFollow
  <2>1. provider.serial[0] = (IF bplan.connected THEN 1 ELSE 0) /\ \A n \in 1..MaxLinks : provider.serial[n] = 0
    BY <1>s, <1>v
  <2> QED BY <2>1, <1>s, <1>t, <1>u, <1>a, <1>g, <1>v DEF SerialsFollow
<1>6. NewestIsKept /\ GrantIsAlive /\ VoidIsEarned
  <2>1. bplan.connected => provider.serial[0] = 1
    BY <1>s, <1>v
  <2> QED BY <2>1, <1>s, <1>t, <1>u, <1>a, <1>g, <1>v DEF NewestIsKept, Newest, GrantIsAlive, VoidIsEarned
<1>7. QuietlyServed /\ CalmlyServed
  <2>1. \A o \in CertOps : QuietOp(certOp[o]) /\ CalmOp(certOp[o])
    BY <1>u, <1>o DEF QuietOp, CalmOp
  <2>2. bplan.connected => Good(grant.access)
    BY <1>g, <1>v DEF Good
  <2> QED BY <2>1, <2>2, <1>a, <1>g, <1>v DEF QuietlyServed, CalmlyServed, Calm
<1> QED BY <1>1, <1>2, <1>3, <1>4, <1>5, <1>6, <1>7 DEF BrokerInv

LEMMA BrokerStepHolds ==
  ASSUME BrokerInv, [BrokerNext]_brokerVars
  PROVE  BrokerInv'
BY BrokerSteps, JobBeginsHolds, ProviderAnswersHolds, JobEndsHolds, OpHolds, AuthorizeHolds, ConsentHolds, CallbackHolds,
   DisconnectHolds, LinkAgesHolds, TimeHolds, TokenGoesHolds, WithdrawGrantHolds, EvictHolds

LEMMA BrokerSound ==
  ASSUME BrokerInv
  PROVE  BrokerIsSound
<1> USE DEF BrokerInv
<1>f. /\ grant.state \in {"missing", "authorized", "reauthorization_required"} /\ grant.fresh \in BOOLEAN
      /\ grant.access \in MaybeTokens /\ grant.renew \in MaybeTokens /\ pendingLink.link \in 0..MaxLinks
  BY DEF BrokerTyped, PersonTyped, ObjectTyped, Grants, Lineages
<1>1. BrokerTypeOK
  <2>1. Cardinality({i \in 1..Len(lineup) : lineup[i].kind = "refresh"}) <= 1
    <3> DEFINE S == {i \in 1..Len(lineup) : lineup[i].kind = "refresh"}
    <3>1. \A i, j \in S : i = j
      BY DEF QueueIsOrdered
    <3> HIDE DEF S
    <3>2. Cardinality(S) <= 1
      BY <3>1, AtMostOne
    <3> QED BY <3>2 DEF S
  <2>2. /\ (grant.access \in BrokerTokens) <=> (grant.state = "authorized")
        /\ (grant.renew \in BrokerTokens) <=> (grant.state # "missing")
    BY <1>f, TokenShape DEF GrantIsWhole, MaybeTokens
  <2>3. \A o \in CertOps : /\ (certOp[o].at = "waiting") => Refreshing
                           /\ (certOp[o].token = NoToken) <=> certOp[o].at \in {"new", "waiting", "done"}
    BY DEF OpsAreWhole, OpIsWhole
  <2> QED BY <2>1, <2>2, <2>3, <1>f DEF BrokerTypeOK, GrantIsWhole
<1>2. ReauthorizationIsEarned
  BY DEF ReauthorizationIsEarned, VoidIsEarned, Excused, Missed
<1>3. DisconnectIsFinal
  BY DEF DisconnectIsFinal, GrantIsAlive, NewestIsKept, Missed
<1>4. GrantServes
  <2>1. ASSUME bplan.connected, bplan.disconnects = 0, bfaults \subseteq {"refuse"}, bspent.ages + Cardinality(bfaults) <= 1
        PROVE  Calm
    <3>1. bfaults = {} \/ bfaults = {"refuse"}
      BY <2>1
    <3>2. Cardinality({}) = 0 /\ Cardinality({"refuse"}) = 1
      BY FS_EmptySet, FS_Singleton
    <3>3. bspent.ages \in Nat
      BY DEF BrokerTyped, PersonTyped
    <3>4. bfaults = {} => bspent.ages <= 1
      BY <2>1, <3>2, <3>3
    <3>5. bfaults = {"refuse"} => bspent.ages = 0
      BY <2>1, <3>2, <3>3
    <3> QED BY <2>1, <3>1, <3>4, <3>5 DEF Calm
  <2>2. Calm => \A o \in CertOps : certOp[o].at = "done" => certOp[o].out = "served"
    BY DEF CalmlyServed, CalmOp
  <2> QED BY <2>1, <2>2 DEF GrantServes
<1> QED BY <1>1, <1>2, <1>3, <1>4 DEF BrokerIsSound, BrokerIsTrue

(* The invariant of a behaviour of the broker (cloudflare-oauth.ts): only   *)
(* the first of the queue is at work, on the grant that is stored, and a    *)
(* broker that missed no answer holds the newest token of its lineage.      *)
THEOREM BrokerInvariant == BrokerSpec => []BrokerInv
<1>1. BrokerInit => BrokerInv
  BY BrokerInitHolds
<1>2. BrokerInv /\ [BrokerNext]_brokerVars => BrokerInv'
  BY BrokerStepHolds
<1> QED BY <1>1, <1>2, PTL DEF BrokerSpec

(* For any number of requests, links, disconnections and tokens that age:   *)
(* the grant is whole, it is declared void only for a reason, a             *)
(* disconnection stands, and a grant that stands serves                     *)
(* (cloudflare-oauth.ts).                                                   *)
THEOREM BrokerStaysSound == BrokerSpec => []BrokerIsSound
<1>1. BrokerInv => BrokerIsSound
  BY BrokerSound
<1> QED BY <1>1, BrokerInvariant, PTL

-----------------------------------------------------------------------------
(* CertRotation.                                                            *)

(* The states of each kind of thread. *)
Working     == {"status", "delete", "stamp", "release"}
Fresh       == {"sent", "read", "sign"}
Holding     == {"swap", "reclaim", "direct"}
Asking      == {"clash", "idClash", "look", "verify", "install"}
Pcs         == {"idle", "settle", "retire", "drain", "reply"} \cup Working \cup Fresh \cup Holding \cup Asking
PcsOf(t)    == {"idle", "settle"} \cup Working
                 \cup (CASE t = Prune -> {"retire", "drain"}
                         [] t = Admin -> Asking
                         [] OTHER -> Fresh \cup Holding \cup {"reply"})

Rows == {r \in RowType : r.curId \in {r.cur, None} /\ r.prevId \in {r.prev, None}}

Task == [pc : Pcs, auth : Ids, slot : {"none", "current", "grace"}, seen : Rows \cup {NoRow},
         cert : Ids, id : Ids, trusted : BOOLEAN, unknown : BOOLEAN, ok : BOOLEAN,
         todo : SUBSET Certs, claimed : Ids, poll : BOOLEAN]

(* What a thread knows in each of its states. *)
Fits(t, x) ==
  /\ x \in Task /\ x.pc \in PcsOf(t)
  /\ x.pc \in Working <=> x.claimed # None
  /\ x.pc \in Holding => x.cert \in Certs
  /\ x.ok => x.cert \in Certs /\ x.pc \notin Fresh \cup Holding
  /\ x.pc \in {"sign", "swap", "retire", "verify", "install"} => x.seen \in Rows
  /\ x.pc = "retire" => x.seen.prev # None
  /\ t = Admin /\ x.pc # "idle" => x.id \in plan.handles \cup {None} /\ (x.unknown => x.cert = Spare)
  /\ t = Admin /\ x.pc \in {"verify", "install"} =>
       /\ x.cert \in Certs
       /\ x.cert \notin {x.seen.cur, x.seen.prev} /\ ~x.trusted => x.id # None \/ x.unknown
  /\ t = Admin /\ x.pc = "install" => x.id \in {x.cert, None}

TasksFit == task \in [Threads -> Task] /\ \A t \in Threads : Fits(t, task[t])

Counts == [renewals : Nat, swaps : Nat, edits : Nat, windows : Nat]

RowFits ==
  /\ row \in Rows /\ done \in Counts /\ row.until \in 0..done.windows
  /\ lapsed \in 0..done.windows /\ isAdmin \in BOOLEAN /\ late \in BOOLEAN

Retirement == {r \in [cert : Certs, id : Ids, source : {"prior_slot", "orphan_cleanup"},
                      claim : {"free", "held", "stale"}, revoked : BOOLEAN] : r.id \in {r.cert, None}}

QueueFits == retired \in SUBSET Retirement

RestFits ==
  /\ ca \in [Certs -> {"none", "active", "pending", "revoked"}]
  /\ installed \in returned /\ returned \subseteq Certs
  /\ awaited \in Requests \cup {NoRequest}
  /\ byGrace \subseteq Certs /\ leaked \subseteq Certs
  /\ plan \in Plans

TypeInv == TasksFit /\ RowFits /\ QueueFits /\ RestFits

(* A prune that is about to retire the slot it read: the window has lapsed, *)
(* and the slot, if it is still there, still has the id it was read with.   *)
PruneKnows ==
  LET x == task[Prune]
  IN  x.pc = "retire" =>
        /\ x.seen.until <= lapsed
        /\ row.prev = x.seen.prev /\ row.until = x.seen.until => row.prevId = x.seen.prevId

(* A thread revokes a certificate only after the CA said it is dead. *)
StampIsTrue == \A t \in Threads : task[t].pc = "stamp" => ca[task[t].claimed] = "revoked"

BooksInv == TypeInv /\ PruneKnows /\ StampIsTrue /\ FreedIsDead /\ Tracked

NotElevated == isAdmin => byGrace = {}

(* Without interference, one renewal at a time, by the installed            *)
(* certificate, and what it swapped in is still current when it answers.    *)
OneAtATime ==
  Without({"timeout"}) /\ plan.swaps = 0 =>
    /\ task[Admin].pc = "idle"
    /\ \A t \in Requests : task[t].pc # "idle" =>
         /\ awaited = t /\ task[t].auth = installed
         /\ task[t].ok => task[t].cert = row.cur

LockoutInv == TypeInv /\ PruneKnows /\ OneAtATime /\ NoLockout

Holds(t, c) == task[t].cert = c /\ task[t].pc \in Holding

(* While no batch is lost and no old id is named: slots, queue and the      *)
(* hands of renewals are disjoint, what is in a slot, in hand or free in    *)
(* the queue is active, and a claim keeps everybody else away.              *)
Exclusive ==
  /\ row.cur # row.prev
  /\ \A r, q \in Pending : r.cert = q.cert => r = q
  /\ \A r \in Pending : /\ r.cert \notin {row.cur, row.prev} /\ ca[r.cert] # "none"
                        /\ r.claim = "free" => ca[r.cert] = "active"
  /\ \A t \in Threads : task[t].pc \in Working =>
       /\ \E r \in Pending : r.id = task[t].claimed /\ r.claim = "held"
       /\ \A u \in Threads \ {t} : task[u].claimed # task[t].claimed
       /\ task[t].pc = "release" => ca[task[t].claimed] = "active"

HandsAreClean ==
  /\ \A t \in Requests : task[t].cert # None =>
       /\ ca[task[t].cert] # "none"
       /\ \A u \in Requests \ {t} : task[u].cert # task[t].cert
  /\ \A c \in (returned \cup {Spare, row.cur, row.prev, task[Admin].cert}) \ {None} :
       ca[c] # "none" /\ \A t \in Requests : ~Holds(t, c)
  /\ \A t \in Requests : task[t].pc \in Holding =>
       ca[task[t].cert] = "active" /\ \A r \in Pending : r.cert # task[t].cert

(* The certificate an operator may import by hand. *)
SpareIsNew ==
  /\ plan.handles = {} =>
       /\ ca[Spare] = "active" /\ (row.cur = Spare => row.curId = None) /\ (row.prev = Spare => row.prevId = None)
       /\ \A r \in Pending : r.cert = Spare => r.id = None
  /\ plan.swaps <= 1 =>
       /\ done.swaps <= 1
       /\ done.swaps = 0 => task[Admin].pc = "idle"
       /\ task[Admin].pc \in Asking \/ done.swaps = 0 =>
            /\ ca[Spare] = "active" /\ Spare \notin {row.cur, row.prev}
            /\ \A r \in Pending : r.cert # Spare

Kept == Without({"commit"}) /\ NamesOnlyNew

Alive == \A c \in {row.cur, row.prev} \ {None} : ca[c] = "active"

Undamaged == Exclusive /\ HandsAreClean /\ SpareIsNew /\ Alive

AliveInv == TypeInv /\ PruneKnows /\ (Kept => Undamaged)

-----------------------------------------------------------------------------
(* Type correctness.                                                        *)

LEMMA Constants ==
  /\ First \in Certs /\ Spare \in Certs /\ First # Spare /\ None \notin Certs
  /\ Certs \subseteq Nat /\ Ids = Certs \cup {None}
  /\ Prune \in Threads /\ Admin \in Threads /\ Requests \subseteq Threads
  /\ Prune # Admin /\ Prune \notin Requests /\ Admin \notin Requests /\ NoRequest \notin Requests
  BY CertAssumption DEF First, Spare, None, Certs, Ids, Prune, Admin, Threads, NoRequest

LEMMA Kinds ==
  /\ PcsOf(Prune) = {"idle", "settle", "retire", "drain"} \cup Working
  /\ PcsOf(Admin) = {"idle", "settle"} \cup Working \cup Asking
  /\ \A t \in Requests : PcsOf(t) = {"idle", "settle", "reply"} \cup Working \cup Fresh \cup Holding
  BY Constants DEF PcsOf

LEMMA IdleFits == \A t \in Threads : Fits(t, IdleTask)
<1>1. IdleTask \in Task
  BY DEF Task, IdleTask, NoRow, None, Ids, Pcs
<1>2. \A t \in Threads : "idle" \in PcsOf(t)
  BY DEF PcsOf
<1> QED BY <1>1, <1>2 DEF Fits, IdleTask, None, Working, Holding, Fresh

(* A thread that goes to a state it fits leaves every thread fitting. *)
LEMMA TaskStep ==
  ASSUME TasksFit, UNCHANGED plan, NEW t \in Threads, NEW x, Fits(t, x), Turns(t, x)
  PROVE  TasksFit' /\ task'[t] = x /\ \A u \in Threads \ {t} : task'[u] = task[u]
<1>1. x \in Task
  BY DEF Fits
<1>2. task' \in [Threads -> Task] /\ task'[t] = x /\ \A u \in Threads \ {t} : task'[u] = task[u]
  BY <1>1 DEF TasksFit, Turns
<1>3. \A u \in Threads : Fits(u, task[u]) => Fits(u, task[u])'
  BY <1>2 DEF Fits
<1> QED BY <1>2 DEF TasksFit, Fits

(* The threads that settle: claims, and what is done with them. *)
LEMMA SettlingFits ==
  ASSUME TypeInv, NEW t \in Threads, Settling(t)
  PROVE  TasksFit'
<1> DEFINE x == task[t]
<1>x. x \in Task /\ Fits(t, x) /\ TasksFit
  BY DEF TypeInv, TasksFit, Fits
<1>s. \A u \in Threads : {"settle"} \cup Working \subseteq PcsOf(u) /\ "settle" \notin Working
  BY DEF PcsOf, Working
<1>p. UNCHANGED plan
  BY DEF Settling, Claim, Status, Delete, Stamp, Release, Settled, budget
<1> DEFINE Y(pc, todo, c) == [x EXCEPT !.pc = pc, !.todo = todo, !.claimed = c]
<1>y. ASSUME NEW pc \in {"settle"} \cup Working, NEW todo \in SUBSET Certs, NEW c \in Ids,
             pc = "settle" <=> c = None, x.pc \in {"settle"} \cup Working,
             Turns(t, Y(pc, todo, c))
      PROVE  TasksFit'
  <2>1. Y(pc, todo, c) \in Task
    BY <1>x, <1>y DEF Task, Pcs, Working
  <2>2. Fits(t, Y(pc, todo, c))
    BY <1>x, <1>s, <1>y, <2>1 DEF Fits, Task, Working, Fresh, Holding
  <2> QED BY <1>x, <1>p, <1>y, <2>2, TaskStep
<1>t. /\ x.todo \in SUBSET Certs /\ x.claimed \in Ids /\ None \in Ids
      /\ x.pc = "settle" => x.claimed = None
      /\ x.pc \in Working => x.claimed # None
      /\ "settle" \notin Working /\ {"status", "delete"} \subseteq Working
      /\ \A c \in Certs : c \in Ids /\ c # None
  BY <1>x, Constants DEF Task, Fits, Working
<1>k. ASSUME x.pc \in Working, NextClaim(t) PROVE TasksFit'
  <2>1. [x EXCEPT !.pc = "settle", !.claimed = None] = Y("settle", x.todo, None)
    BY <1>x DEF Task
  <2> QED BY <1>k, <1>y, <1>t, <2>1 DEF NextClaim
<1>g. ASSUME x.pc \in Working, NEW pc \in Working, Go(t, pc) PROVE TasksFit'
  <2>1. [x EXCEPT !.pc = pc] = Y(pc, x.todo, x.claimed)
    BY <1>x DEF Task
  <2>2. Turns(t, Y(pc, x.todo, x.claimed))
    BY <1>g, <2>1 DEF Go
  <2> HIDE DEF Y, x
  <2> QED BY <1>g, <1>y, <1>t, <2>2
<1>1. ASSUME NEW c \in Certs, Claim(t, c) PROVE TasksFit'
  <2>1. PICK pc \in {"settle", "status", "delete"}, d \in {None, c} :
          /\ Turns(t, Y(pc, x.todo \ {c}, d))
          /\ pc = "settle" <=> d = None
    <3>1. [x EXCEPT !.todo = x.todo \ {c}] = Y("settle", x.todo \ {c}, None)
      BY <1>1, <1>x, <1>t DEF Task, Claim
    <3>2. \A pc, d : [x EXCEPT !.todo = x.todo \ {c}, !.pc = pc, !.claimed = d] = Y(pc, x.todo \ {c}, d)
      BY <1>x DEF Task
    <3> QED BY <1>1, <3>1, <3>2, <1>t DEF Claim
  <2>2. x.pc = "settle" /\ x.todo \ {c} \in SUBSET Certs
    BY <1>1, <1>t DEF Claim
  <2> HIDE DEF Y, x
  <2> QED BY <2>1, <2>2, <1>y, <1>t
<1>2. CASE Status(t)
  BY <1>2, <1>k, <1>g DEF Status, Working
<1>3. CASE Delete(t)
  BY <1>3, <1>k, <1>g DEF Delete, Working
<1>4. CASE Stamp(t) \/ Release(t)
  BY <1>4, <1>k DEF Stamp, Release, Working
<1>5. CASE Settled(t)
  <2>1. CASE t \in Requests
    <3>1. Turns(t, [x EXCEPT !.pc = "reply"])
      BY <1>5, <2>1 DEF Settled, Go
    <3>2. [x EXCEPT !.pc = "reply"] \in Task
      BY <1>x DEF Task, Pcs
    <3>3. Fits(t, [x EXCEPT !.pc = "reply"])
      BY <1>x, <1>5, <2>1, <3>2, Kinds, Constants DEF Fits, Settled, Task, Working, Fresh, Holding
    <3> QED BY <3>1, <3>3, <1>x, <1>p, TaskStep
  <2>2. CASE t \notin Requests
    BY <2>2, <1>5, <1>x, <1>p, IdleFits, TaskStep DEF Settled
  <2> QED BY <2>1, <2>2
<1> QED BY <1>1, <1>2, <1>3, <1>4, <1>5 DEF Settling

(* The renewals. *)
LEMMA RenewalFits ==
  ASSUME TypeInv, NEW t \in Requests, Ask(t) \/ Renewal(t)
  PROVE  TasksFit'
<1> DEFINE x == task[t]
<1>x. x \in Task /\ Fits(t, x) /\ TasksFit /\ t \in Threads /\ t # Admin
  BY Constants DEF TypeInv, TasksFit, Fits
<1>p. UNCHANGED plan
  BY DEF Ask, Renewal, Identify, Read, Sign, Swap, Reclaim, Direct, Reply, budget
<1>i. IdleTask \in Task /\ installed \in Ids /\ None \in Ids /\ row \in Rows
  BY IdleFits, Constants, <1>x DEF Fits, TypeInv, RestFits, RowFits
<1>k. PcsOf(t) = {"idle", "settle", "reply"} \cup Working \cup Fresh \cup Holding
  BY Kinds
<1> USE DEF Working, Fresh, Holding
<1>r. ASSUME Go(t, "reply"), x.pc \in Fresh \cup Holding PROVE TasksFit'
  <2>1. [x EXCEPT !.pc = "reply"] \in Task
    BY <1>x DEF Task, Pcs
  <2>2. Fits(t, [x EXCEPT !.pc = "reply"])
    BY <1>x, <1>k, <1>r, <2>1 DEF Fits, Task
  <2> QED BY <1>r, <1>x, <1>p, <2>2, TaskStep DEF Go
<1>h. ASSUME NEW pc \in Holding, NEW c \in Certs, Turns(t, [x EXCEPT !.cert = c, !.pc = pc]),
             x.pc = "sign"
      PROVE  TasksFit'
  <2>1. [x EXCEPT !.cert = c, !.pc = pc] \in Task
    BY ZenonT(40), <1>x, <1>h, Constants DEF Task, Pcs
  <2>2. Fits(t, [x EXCEPT !.cert = c, !.pc = pc])
    BY <1>x, <1>k, <1>h, <2>1 DEF Fits, Task
  <2> QED BY <1>h, <1>x, <1>p, <2>2, TaskStep
<1>1. CASE Ask(t)
  <2> DEFINE y == [IdleTask EXCEPT !.pc = "sent", !.auth = installed]
  <2>1. y \in Task
    BY <1>i DEF Task, Pcs
  <2>2. y.pc = "sent" /\ y.claimed = None /\ y.ok = FALSE
    BY <1>i DEF Task, IdleTask
  <2>3. Fits(t, y)
    BY <1>x, <1>k, <2>1, <2>2 DEF Fits
  <2> QED BY <1>1, <1>x, <1>p, <2>3, TaskStep DEF Ask
<1>2. CASE Identify(t)
  <2>1. PICK slot \in {"none", "current", "grace"}, pc \in {"reply", "read"} :
          Turns(t, [x EXCEPT !.slot = slot, !.pc = pc])
    BY <1>2 DEF Identify, Slot
  <2>2. [x EXCEPT !.slot = slot, !.pc = pc] \in Task
    BY <1>x DEF Task, Pcs
  <2>3. Fits(t, [x EXCEPT !.slot = slot, !.pc = pc])
    BY <1>x, <1>k, <1>2, <2>2 DEF Fits, Task, Identify
  <2> QED BY <2>1, <2>3, <1>x, <1>p, TaskStep
<1>3. CASE Read(t)
  <2>1. PICK pc \in {"reply", "sign"} : Turns(t, [x EXCEPT !.seen = row, !.pc = pc])
    BY <1>3 DEF Read
  <2>2. [x EXCEPT !.seen = row, !.pc = pc] \in Task
    BY <1>x, <1>i DEF Task, Pcs
  <2>3. Fits(t, [x EXCEPT !.seen = row, !.pc = pc])
    BY <1>x, <1>i, <1>k, <1>3, <2>2 DEF Fits, Task, Read
  <2> QED BY <2>1, <2>3, <1>x, <1>p, TaskStep
<1>4. CASE Sign(t)
  BY <1>4, <1>h, <1>r DEF Sign
<1>5. CASE Swap(t)
  <2>t. x.pc = "swap" /\ x.seen \in Rows /\ x.cert \in Certs
    BY <1>5, <1>x DEF Swap, Fits
  <2>1. CASE Go(t, "reclaim")
    <3>1. [x EXCEPT !.pc = "reclaim"] \in Task
      BY <1>x DEF Task, Pcs
    <3>2. Fits(t, [x EXCEPT !.pc = "reclaim"])
      BY <1>x, <1>k, <2>t, <3>1 DEF Fits, Task
    <3> QED BY <2>1, <1>x, <1>p, <3>2, TaskStep DEF Go
  <2>2. CASE Turns(t, [x EXCEPT !.pc = "settle", !.ok = TRUE, !.todo = {Renewed(t).out[2]} \ {None}])
    <3>1. Renewed(t).out[2] \in Ids
      BY <2>t, Constants DEF Renewed, Rotated, Recovered, Rows, RowType
    <3> DEFINE y == [x EXCEPT !.pc = "settle", !.ok = TRUE, !.todo = {Renewed(t).out[2]} \ {None}]
    <3>2. {Renewed(t).out[2]} \ {None} \in SUBSET Certs
      BY <3>1, Constants
    <3>3. y \in Task
      BY <1>x, <3>2 DEF Task, Pcs
    <3>4. Fits(t, y)
      BY <1>x, <1>k, <2>t, <3>3 DEF Fits, Task
    <3> QED BY <2>2, <1>x, <1>p, <3>4, TaskStep
  <2> QED BY <1>5, <2>1, <2>2 DEF Swap
<1>6. CASE Reclaim(t)
  <2>t. x.pc = "reclaim" /\ x.cert \in Certs
    BY <1>6, <1>x DEF Reclaim, Fits
  <2>1. CASE Turns(t, [x EXCEPT !.pc = "settle", !.todo = {x.cert}])
    <3>1. [x EXCEPT !.pc = "settle", !.todo = {x.cert}] \in Task
      BY <1>x, <2>t DEF Task, Pcs
    <3>2. Fits(t, [x EXCEPT !.pc = "settle", !.todo = {x.cert}])
      BY <1>x, <1>k, <2>t, <3>1 DEF Fits, Task
    <3> QED BY <2>1, <1>x, <1>p, <3>2, TaskStep
  <2>2. CASE Go(t, "direct")
    <3>1. [x EXCEPT !.pc = "direct"] \in Task
      BY <1>x DEF Task, Pcs
    <3>2. Fits(t, [x EXCEPT !.pc = "direct"])
      BY <1>x, <1>k, <2>t, <3>1 DEF Fits, Task
    <3> QED BY <2>2, <1>x, <1>p, <3>2, TaskStep DEF Go
  <2> QED BY <1>6, <2>1, <2>2 DEF Reclaim
<1>7. CASE Direct(t)
  BY <1>7, <1>r DEF Direct
<1>8. CASE Reply(t)
  BY <1>8, <1>x, <1>p, IdleFits, TaskStep DEF Reply
<1> QED BY <1>1, <1>2, <1>3, <1>4, <1>5, <1>6, <1>7, <1>8 DEF Renewal

(* The daily prune. *)
LEMMA PruneFits ==
  ASSUME TypeInv, Pruning
  PROVE  TasksFit'
<1> DEFINE x == task[Prune]
<1>x. x \in Task /\ Fits(Prune, x) /\ TasksFit /\ Prune \in Threads /\ Prune # Admin
  BY Constants DEF TypeInv, TasksFit, Fits
<1>p. UNCHANGED plan
  BY DEF Pruning, PruneStart, Retire, Drain, budget
<1>i. IdleTask \in Task /\ row \in Rows
  BY IdleFits, <1>x DEF Fits, TypeInv, RowFits
<1>k. PcsOf(Prune) = {"idle", "settle", "retire", "drain"} \cup Working
  BY Kinds
<1> USE DEF Working, Fresh, Holding
<1>1. CASE PruneStart
  <2>1. PICK pc \in {"retire", "drain"} :
          /\ Turns(Prune, [IdleTask EXCEPT !.pc = pc, !.seen = row, !.poll = TRUE])
          /\ pc = "retire" => row.prev # None
    BY <1>1 DEF PruneStart, Due
  <2> DEFINE y == [IdleTask EXCEPT !.pc = pc, !.seen = row, !.poll = TRUE]
  <2>2. y \in Task
    BY <1>i DEF Task, Pcs
  <2>3. y.pc = pc /\ y.claimed = None /\ y.ok = FALSE /\ y.seen = row
    BY <1>i DEF Task, IdleTask
  <2>4. Fits(Prune, y)
    BY <1>x, <1>i, <1>k, <2>1, <2>2, <2>3 DEF Fits
  <2> QED BY <2>1, <2>4, <1>x, <1>p, TaskStep
<1>2. CASE Retire
  <2>1. [x EXCEPT !.pc = "drain"] \in Task
    BY <1>x DEF Task, Pcs
  <2>2. Fits(Prune, [x EXCEPT !.pc = "drain"])
    BY <1>x, <1>k, <1>2, <2>1 DEF Fits, Task, Retire
  <2> QED BY <1>2, <2>2, <1>x, <1>p, TaskStep DEF Retire, Go
<1>3. CASE Drain
  <2> DEFINE ids == {r.id : r \in Pending} \ {None}
  <2>1. ids \in SUBSET Certs
    BY Constants DEF Pending, TypeInv, QueueFits, Retirement
  <2>2. [x EXCEPT !.pc = "settle", !.todo = ids] \in Task
    BY <1>x, <2>1 DEF Task, Pcs
  <2>3. Fits(Prune, [x EXCEPT !.pc = "settle", !.todo = ids])
    BY <1>x, <1>k, <1>3, <2>2 DEF Fits, Task, Drain
  <2> QED BY <1>3, <2>3, <1>x, <1>p, TaskStep DEF Drain
<1> QED BY <1>1, <1>2, <1>3 DEF Pruning

(* The administrator's request. *)
LEMMA AdminFits ==
  ASSUME TypeInv,
         \/ Administration
         \/ \E fp \in returned \cup {None, Spare}, id \in plan.handles \cup {None}, u \in BOOLEAN :
              AskAdmin(fp, id, u)
  PROVE  TasksFit'
<1> DEFINE x == task[Admin]
<1>x. x \in Task /\ Fits(Admin, x) /\ TasksFit /\ Admin \in Threads /\ Admin # Prune
  BY Constants DEF TypeInv, TasksFit, Fits
<1>p. UNCHANGED plan
  BY DEF Administration, AskAdmin, Clash, IdClash, Look, Verify, Install, budget
<1>h. plan.handles \subseteq Certs
  BY CertAssumption DEF TypeInv, RestFits, Certs
<1>i. IdleTask \in Task /\ row \in Rows /\ returned \cup {None, Spare} \subseteq Ids
      /\ row.cur \in Certs /\ row.curId \in {row.cur, None} /\ row.prevId \in {row.prev, None}
  BY IdleFits, Constants, <1>x DEF Fits, TypeInv, RestFits, RowFits, Rows, RowType
<1>k. PcsOf(Admin) = {"idle", "settle"} \cup Working \cup Asking
  BY Kinds
<1>d. ASSUME Drop PROVE TasksFit'
  BY <1>d, <1>x, <1>p, IdleFits, TaskStep DEF Drop
<1> USE DEF Working, Fresh, Holding, Asking
<1>1. ASSUME NEW fp \in returned \cup {None, Spare}, NEW id \in plan.handles \cup {None}, NEW u \in BOOLEAN,
             AskAdmin(fp, id, u)
      PROVE  TasksFit'
  <2> DEFINE y == [IdleTask EXCEPT !.pc = "clash", !.cert = fp, !.id = id, !.unknown = u]
  <2>0. fp \in Ids /\ id \in Ids
    BY <1>i, <1>h, Constants
  <2>1. y \in Task
    BY <1>i, <2>0 DEF Task, Pcs
  <2>2. y.pc = "clash" /\ y.claimed = None /\ y.ok = FALSE /\ y.cert = fp /\ y.id = id /\ y.unknown = u
    BY <1>i DEF Task, IdleTask
  <2>3. u => fp = Spare
    BY <1>1 DEF AskAdmin
  <2>4. Fits(Admin, y)
    BY <1>x, <1>k, <2>1, <2>2, <2>3 DEF Fits
  <2> QED BY <1>1, <1>x, <1>p, <2>4, TaskStep DEF AskAdmin
<1>2. CASE Clash
  <2>1. CASE \E b \in BOOLEAN : Turns(Admin, [x EXCEPT !.pc = "idClash", !.trusted = b])
    <3>1. PICK b \in BOOLEAN : Turns(Admin, [x EXCEPT !.pc = "idClash", !.trusted = b])
      BY <2>1
    <3>2. [x EXCEPT !.pc = "idClash", !.trusted = b] \in Task
      BY <1>x DEF Task, Pcs
    <3>3. Fits(Admin, [x EXCEPT !.pc = "idClash", !.trusted = b])
      BY <1>x, <1>k, <1>2, <3>2 DEF Fits, Task, Clash
    <3> QED BY <3>1, <3>3, <1>x, <1>p, TaskStep
  <2> QED BY <1>2, <1>d, <2>1 DEF Clash
<1>3. CASE IdClash
  <2>1. CASE Go(Admin, "look")
    <3>1. [x EXCEPT !.pc = "look"] \in Task
      BY <1>x DEF Task, Pcs
    <3>2. Fits(Admin, [x EXCEPT !.pc = "look"])
      BY <1>x, <1>k, <1>3, <3>1 DEF Fits, Task, IdClash
    <3> QED BY <2>1, <3>2, <1>x, <1>p, TaskStep DEF Go
  <2> QED BY <1>3, <1>d, <2>1 DEF IdClash
<1>4. CASE Look
  <2> DEFINE want == IF x.cert = None THEN row.cur ELSE x.cert
             changed == want # row.cur
             back == changed /\ want = row.prev
             displacedId == \/ x.id = row.prevId /\ ~back
                            \/ x.id = row.curId /\ changed
             unsourced == changed /\ ~back /\ ~x.trusted /\ x.id = None /\ ~x.unknown
             y(pc) == [x EXCEPT !.cert = want, !.seen = row, !.pc = pc]
  <2>1. ASSUME ~((x.id # None /\ displacedId) \/ unsourced),
               NEW pc \in {"install", "verify"},
               pc = "install" <=> x.id \in {None, row.curId, row.prevId},
               Turns(Admin, y(pc))
        PROVE  TasksFit'
    <3>1. want \in Certs /\ x.cert \in Ids
      BY <1>x, <1>i, Constants DEF Task
    <3>2. y(pc) \in Task
      <4>1. want \in Ids /\ row \in Rows \cup {NoRow} /\ pc \in Pcs
        BY <1>i, <3>1, Constants DEF Pcs
      <4> HIDE DEF want
      <4> QED BY <1>x, <4>1 DEF Task
    <3>3. /\ y(pc).cert = want /\ y(pc).seen = row /\ y(pc).pc = pc /\ y(pc).id = x.id
          /\ y(pc).unknown = x.unknown /\ y(pc).trusted = x.trusted /\ y(pc).claimed = x.claimed /\ y(pc).ok = x.ok
      BY <1>x DEF Task
    <3>4. x.pc = "look" /\ x.claimed = None /\ x.id \in plan.handles \cup {None} /\ (x.ok => x.cert \in Certs)
          /\ (x.unknown => x.cert = Spare)
      BY <1>x, <1>4 DEF Fits, Look
    <3>5. x.cert = Spare => want = Spare
      BY Constants
    <3>6. pc = "install" => x.id \in {want, None}
      BY <2>1, <1>i
    <3>7. want \notin {row.cur, row.prev} /\ ~x.trusted => x.id # None \/ x.unknown
      BY <2>1
    <3> HIDE DEF want, y, x
    <3>8. Fits(Admin, y(pc))
      BY <1>x, <1>i, <1>k, <3>1, <3>2, <3>3, <3>4, <3>5, <3>6, <3>7 DEF Fits
    <3> QED BY <2>1, <3>8, <1>x, <1>p, TaskStep
  <2>2. \/ Drop
        \/ /\ ~((x.id # None /\ displacedId) \/ unsourced)
           /\ Turns(Admin, y(IF x.id \in {None, row.curId, row.prevId} THEN "install" ELSE "verify"))
    BY <1>4 DEF Look
  <2> HIDE DEF y, displacedId, unsourced
  <2> QED BY <1>d, <2>1, <2>2
<1>5. CASE Verify
  <2>1. CASE x.id = x.cert /\ Go(Admin, "install")
    <3>1. [x EXCEPT !.pc = "install"] \in Task
      BY <1>x DEF Task, Pcs
    <3>2. Fits(Admin, [x EXCEPT !.pc = "install"])
      BY <1>x, <1>k, <1>5, <2>1, <3>1 DEF Fits, Task, Verify
    <3> QED BY <2>1, <3>2, <1>x, <1>p, TaskStep DEF Go
  <2> QED BY <1>5, <1>d, <2>1 DEF Verify
<1>6. CASE Install
  <2>t. x.pc = "install" /\ x.seen \in Rows
    BY <1>6, <1>x DEF Install, Fits
  <2>1. ASSUME NEW ids \in SUBSET Certs, Turns(Admin, [x EXCEPT !.pc = "settle", !.todo = ids])
        PROVE  TasksFit'
    <3>1. [x EXCEPT !.pc = "settle", !.todo = ids] \in Task
      BY <1>x DEF Task, Pcs
    <3>2. Fits(Admin, [x EXCEPT !.pc = "settle", !.todo = ids])
      BY <1>x, <1>k, <1>6, <3>1 DEF Fits, Task, Install
    <3> QED BY <2>1, <3>2, <1>x, <1>p, TaskStep
  <2> DEFINE displaced == {<<x.seen.cur, x.seen.curId>>}
                            \cup (IF x.seen.prev = x.cert THEN {} ELSE {<<x.seen.prev, x.seen.prevId>>})
  <2>2. {d[2] : d \in displaced} \ {None} \in SUBSET Certs
    BY <2>t, Constants DEF Rows, RowType
  <2>3. \/ Drop
        \/ Turns(Admin, [x EXCEPT !.pc = "settle",
                          !.todo = IF x.cert # x.seen.cur THEN {d[2] : d \in displaced} \ {None} ELSE {}])
    BY <1>6 DEF Install
  <2> DEFINE ids == IF x.cert # x.seen.cur THEN {d[2] : d \in displaced} \ {None} ELSE {}
  <2>4. ids \in SUBSET Certs
    BY <2>2
  <2>5. Drop \/ Turns(Admin, [x EXCEPT !.pc = "settle", !.todo = ids])
    BY <2>3
  <2> HIDE DEF displaced, ids
  <2> QED BY <1>d, <2>1, <2>4, <2>5
<1> QED BY <1>1, <1>2, <1>3, <1>4, <1>5, <1>6 DEF Administration

(* Whatever a step does, it leaves every thread in a state that fits it. *)
LEMMA TasksStayFit ==
  ASSUME TypeInv, [Next]_vars
  PROVE  TasksFit'
<1>1. ASSUME NEW t \in Threads, Crash(t) PROVE TasksFit'
  BY <1>1, IdleFits, TaskStep DEF Crash, budget, TypeInv
<1>2. CASE UNCHANGED <<task, plan>>
  BY <1>2 DEF TypeInv, TasksFit, Fits
<1>3. GiveUp \/ Edit \/ Lapse \/ Age \/ (\E c \in Certs : Finish(c)) \/ UNCHANGED vars => UNCHANGED <<task, plan>>
  BY DEF GiveUp, Edit, Lapse, Age, Finish, budget, vars
<1> QED BY <1>1, <1>2, <1>3, RenewalFits, SettlingFits, PruneFits, AdminFits DEF Next

(* Which steps may change what. *)
LEMMA Frames ==
  ASSUME [Next]_vars
  PROVE  /\ \/ UNCHANGED row
            \/ (\E t \in Requests : Swap(t)) \/ Retire \/ Install
         /\ \/ UNCHANGED done
            \/ \E t \in Requests : Ask(t) \/ Swap(t)
            \/ \E fp, id, u : AskAdmin(fp, id, u)
            \/ Edit
         /\ \/ UNCHANGED retired
            \/ \E t \in Threads : (\E c \in Certs : Claim(t, c)) \/ Stamp(t) \/ Release(t)
            \/ \E t \in Requests : Swap(t) \/ Reclaim(t)
            \/ Retire \/ Install \/ Age
         /\ \/ UNCHANGED ca
            \/ (\E t \in Threads : Delete(t)) \/ (\E t \in Requests : Sign(t) \/ Direct(t))
            \/ \E c \in Certs : Finish(c)
         /\ \/ UNCHANGED <<installed, returned>>
            \/ (\E t \in Requests : Reply(t)) \/ Install
         /\ \/ UNCHANGED awaited
            \/ (\E t \in Requests : Ask(t) \/ Reply(t)) \/ (\E t \in Threads : Crash(t)) \/ GiveUp
         /\ UNCHANGED <<lapsed, late>> \/ Lapse
         /\ UNCHANGED isAdmin \/ Edit
         /\ UNCHANGED byGrace \/ (\E t \in Requests : Swap(t)) \/ Edit
         /\ UNCHANGED leaked \/ \E t \in Requests : Direct(t)
         /\ UNCHANGED plan
<1> USE DEF vars, collectorVars, historyVars, budget
<1>1. ASSUME NEW t \in Requests, Ask(t) \/ Renewal(t)
      PROVE  /\ UNCHANGED row \/ Swap(t)
             /\ UNCHANGED done \/ Ask(t) \/ Swap(t)
             /\ UNCHANGED retired \/ Swap(t) \/ Reclaim(t)
             /\ UNCHANGED ca \/ Sign(t) \/ Direct(t)
             /\ UNCHANGED <<installed, returned>> \/ Reply(t)
             /\ UNCHANGED awaited \/ Ask(t) \/ Reply(t)
             /\ UNCHANGED byGrace \/ Swap(t)
             /\ UNCHANGED leaked \/ Direct(t)
             /\ UNCHANGED <<lapsed, late, isAdmin, plan>>
  BY <1>1 DEF Renewal, Ask, Identify, Read, Sign, Swap, Reclaim, Direct, Reply
<1>2. ASSUME NEW t \in Threads, Settling(t) \/ Crash(t)
      PROVE  /\ UNCHANGED retired \/ (\E c \in Certs : Claim(t, c)) \/ Stamp(t) \/ Release(t)
             /\ UNCHANGED ca \/ Delete(t)
             /\ UNCHANGED awaited \/ Crash(t)
             /\ UNCHANGED <<row, done, installed, returned, byGrace, leaked, lapsed, late, isAdmin, plan>>
  BY <1>2 DEF Settling, Claim, Status, Delete, Stamp, Release, Settled, Crash
<1>3. ASSUME \/ GiveUp \/ Pruning \/ Administration \/ Edit \/ Lapse \/ Age
             \/ \E fp, id, u : AskAdmin(fp, id, u)
             \/ \E c \in Certs : Finish(c)
             \/ UNCHANGED vars
      PROVE  /\ UNCHANGED row \/ Retire \/ Install
             /\ UNCHANGED done \/ Edit \/ \E fp, id, u : AskAdmin(fp, id, u)
             /\ UNCHANGED retired \/ Retire \/ Install \/ Age
             /\ UNCHANGED ca \/ \E c \in Certs : Finish(c)
             /\ UNCHANGED <<installed, returned>> \/ Install
             /\ UNCHANGED awaited \/ GiveUp
             /\ UNCHANGED byGrace \/ Edit
             /\ UNCHANGED <<lapsed, late>> \/ Lapse
             /\ UNCHANGED isAdmin \/ Edit
             /\ UNCHANGED <<leaked, plan>>
  BY <1>3 DEF Pruning, PruneStart, Retire, Drain, Administration, AskAdmin, Clash, IdClash, Look, Verify, Install,
              GiveUp, Edit, Lapse, Age, Finish
<1> QED
  BY <1>1, <1>2, <1>3 DEF Next

LEMMA RowsAre ==
  ASSUME NEW w
  PROVE  w \in Rows <=> w \in RowType /\ w.curId \in {w.cur, None} /\ w.prevId \in {w.prev, None}
  BY DEF Rows

(* A swap that takes effect, on the row the renewal read. *)
Commits(t) == row = task[t].seen /\ (OnCurrent(t) \/ (Grace(t) /\ GraceAllowed)) /\ Commit(t)

LEMMA RenewedRow ==
  ASSUME TypeInv, NEW t \in Requests, Swap(t)
  PROVE  /\ task[t].seen \in Rows /\ task[t].cert \in Certs
         /\ OnCurrent(t) => Renewed(t) = Rotated(task[t].seen, task[t].cert)
         /\ ~OnCurrent(t) => Renewed(t) = Recovered(task[t].seen, task[t].cert)
         /\ Commits(t) \/ UNCHANGED <<row, retired, done, byGrace>>
<1>1. task[t].seen \in Rows /\ task[t].cert \in Certs
  BY Constants DEF Swap, TypeInv, TasksFit, Fits, Holding
<1>2. Commits(t) \/ UNCHANGED <<row, retired, done, byGrace>>
  BY DEF Swap, Commits
<1> QED BY <1>1, <1>2 DEF Renewed

LEMMA RowStaysFit ==
  ASSUME TypeInv, [Next]_vars
  PROVE  RowFits'
<1>r. /\ row \in Rows /\ done \in Counts /\ row.until \in 0..done.windows /\ done.windows \in Nat
      /\ lapsed \in 0..done.windows /\ isAdmin \in BOOLEAN /\ late \in BOOLEAN
  BY DEF TypeInv, RowFits, Counts
<1>1. ASSUME NEW t \in Requests, Swap(t), Commits(t) PROVE RowFits'
  <2> DEFINE s == task[t].seen
             c == task[t].cert
  <2>1. s \in Rows /\ c \in Certs /\ c \in Ids /\ row = s
    BY <1>1, RenewedRow, Constants DEF Commits
  <2>2. CASE OnCurrent(t)
    <3>1. row' = [cur |-> c, curId |-> c, prev |-> s.cur, prevId |-> s.curId, until |-> done.windows + 1]
      BY <1>1, <2>2, RenewedRow DEF Commits, Commit, Rotated
    <3>2. row' \in Rows
      BY <1>r, <2>1, <3>1, Constants DEF Rows, RowType
    <3>3. done' \in Counts /\ done'.windows = done.windows + 1
      BY <1>1, <1>r, <2>2 DEF Commits, Commit, Counts
    <3>4. row'.until = done.windows + 1
      BY <3>1
    <3> QED BY <1>1, <1>r, <3>2, <3>3, <3>4 DEF RowFits, Swap
  <2>3. CASE ~OnCurrent(t)
    <3> DEFINE w == [s EXCEPT !.cur = c, !.curId = c]
    <3>r. Renewed(t) = Recovered(s, c)
      BY <1>1, <2>3, RenewedRow
    <3>1. row' = w /\ done' = done
      BY <1>1, <2>3, <3>r DEF Commits, Commit, Recovered
    <3>t. s \in RowType /\ s.prevId \in {s.prev, None}
      BY <2>1 DEF Rows
    <3>w. w \in RowType /\ w.until = s.until /\ w.cur = c /\ w.curId = c /\ w.prev = s.prev /\ w.prevId = s.prevId
      BY <2>1, <3>t DEF RowType
    <3> HIDE DEF w
    <3>2. row' \in Rows /\ row'.until = row.until
      BY <2>1, <3>1, <3>t, <3>w, RowsAre
    <3> QED BY <1>1, <1>r, <3>1, <3>2 DEF RowFits, Swap
  <2> QED BY <2>2, <2>3
<1>2. CASE Retire
  <2> DEFINE w == [row EXCEPT !.prev = None, !.prevId = None, !.until = 0]
  <2>1. row' = row \/ row' = w
    BY <1>2 DEF Retire
  <2>t. row \in RowType /\ row.curId \in {row.cur, None}
    BY <1>r DEF Rows
  <2>2. /\ w \in RowType /\ w.until = 0 /\ w.cur = row.cur /\ w.curId = row.curId
        /\ w.prev = None /\ w.prevId = None
    BY <2>t, Constants DEF RowType
  <2> HIDE DEF w
  <2>3. w \in Rows
    BY <2>t, <2>2, RowsAre
  <2>4. row' \in Rows /\ row'.until \in 0..done.windows
    BY <1>r, <2>1, <2>2, <2>3
  <2> QED BY <1>2, <1>r, <2>4 DEF RowFits, Retire, budget, historyVars
<1>3. CASE Install
  <2> DEFINE s == task[Admin].seen
             c == task[Admin].cert
  <2>1. s \in Rows /\ c \in Certs /\ c \in Ids /\ None \in Ids /\ task[Admin].id \in {c, None}
    BY <1>3, Constants DEF Install, TypeInv, TasksFit, Fits
  <2>2. CarriedId({r \in Pending : r.cert = c /\ Consumable(r) /\ r.id # None}) \in {c, None}
    BY DEF CarriedId, Pending, TypeInv, QueueFits, Retirement
  <2>3. s.prev = c => s.prevId \in {c, None}
    BY <2>1 DEF Rows
  <2>4. \/ row' = row
        \/ \E given \in {c, None} :
              row' = [cur |-> c, curId |-> given, prev |-> None, prevId |-> None, until |-> 0]
        \/ /\ row = s /\ c = s.cur
           /\ \E id \in {c, s.curId} : row' = [s EXCEPT !.curId = id]
    <3>1. {r \in {r \in Pending : r.cert = c} : Consumable(r) /\ r.id # None}
            = {r \in Pending : r.cert = c /\ Consumable(r) /\ r.id # None}
      OBVIOUS
    <3> QED BY <1>3, <2>1, <2>2, <2>3, <3>1 DEF Install
  <2>5. row' \in Rows /\ row'.until \in 0..done.windows
    BY <1>r, <2>1, <2>4, Constants DEF Rows, RowType
  <2> QED BY <1>3, <1>r, <2>5 DEF RowFits, Install, budget, historyVars
<1>4. CASE UNCHANGED row
  <2>1. done' \in Counts /\ done'.windows = done.windows
    <3>1. CASE UNCHANGED done
      BY <3>1, <1>r
    <3>2. CASE \E n \in {"renewals", "swaps", "edits"} : done' = [done EXCEPT ![n] = done[n] + 1]
      BY <3>2, <1>r DEF Counts
    <3>3. ASSUME NEW t \in Requests, Swap(t) PROVE UNCHANGED done
      <4>1. CASE Commits(t) /\ OnCurrent(t)
        <5>1. row'.until = done.windows + 1
          BY <3>3, <4>1, RenewedRow DEF Commits, Commit, Rotated
        <5> QED BY <5>1, <1>4, <1>r
      <4> QED BY <3>3, <4>1, RenewedRow DEF Commits, Commit
    <3>4. (\E t \in Requests : Ask(t)) \/ (\E fp, id, u : AskAdmin(fp, id, u)) \/ Edit
            => \E n \in {"renewals", "swaps", "edits"} : done' = [done EXCEPT ![n] = done[n] + 1]
      BY DEF Ask, AskAdmin, Edit
    <3> QED BY <3>1, <3>2, <3>3, <3>4, Frames
  <2>2. isAdmin' \in BOOLEAN /\ late' \in BOOLEAN /\ lapsed' \in 0..done.windows
    BY <1>r, <1>4, Frames DEF Edit, Lapse
  <2> QED BY <1>4, <1>r, <2>1, <2>2 DEF RowFits
<1> QED BY <1>1, <1>2, <1>3, <1>4, Frames, RenewedRow

(* What is put in the queue, and what a claim makes of it, are reservations. *)
LEMMA RetiredFits ==
  ASSUME NEW c \in Certs, NEW id \in {c, None}, NEW source \in {"prior_slot", "orphan_cleanup"}
  PROVE  Retired(c, id, source) \in Retirement
  BY Constants DEF Retired, Retirement

LEMMA DisplaceFits ==
  ASSUME QueueFits, NEW ds, NEW source \in {"prior_slot", "orphan_cleanup"},
         \A d \in ds : d[1] \in Ids /\ d[2] \in {d[1], None}
  PROVE  Displace(ds, source) \in SUBSET Retirement
<1>1. \A d \in {e \in ds : e[1] # None} : Retired(d[1], d[2], source) \in Retirement
  BY RetiredFits, Constants
<1> QED BY <1>1 DEF Displace, QueueFits

Marked(r, claim, revoked) == [r EXCEPT !.claim = claim, !.revoked = revoked]

LEMMA Marks ==
  ASSUME NEW r \in Retirement, NEW claim \in {"free", "held", "stale"}, NEW revoked \in BOOLEAN
  PROVE  /\ Marked(r, claim, revoked) \in Retirement
         /\ Marked(r, claim, revoked).cert = r.cert /\ Marked(r, claim, revoked).id = r.id
         /\ Marked(r, claim, revoked).claim = claim /\ Marked(r, claim, revoked).revoked = revoked
<1>1. r \in [cert : Certs, id : Ids, source : {"prior_slot", "orphan_cleanup"},
             claim : {"free", "held", "stale"}, revoked : BOOLEAN] /\ r.id \in {r.cert, None}
  BY DEF Retirement
<1> DEFINE q == [r EXCEPT !.claim = claim, !.revoked = revoked]
<1>2. q \in [cert : Certs, id : Ids, source : {"prior_slot", "orphan_cleanup"},
             claim : {"free", "held", "stale"}, revoked : BOOLEAN]
      /\ q.id = r.id /\ q.cert = r.cert /\ q.revoked = revoked /\ q.claim = claim
  BY <1>1
<1> HIDE DEF q
<1>3. q \in Retirement
  BY <1>1, <1>2 DEF Retirement
<1> QED BY <1>2, <1>3 DEF q, Marked

LEMMA Updates ==
  ASSUME NEW rows, NEW claim, NEW revoked
  PROVE  Update(rows, claim, revoked) = (retired \ rows) \cup {Marked(r, claim, revoked) : r \in rows}
  BY DEF Update, Marked

LEMMA UpdateFits ==
  ASSUME QueueFits, NEW rows \in SUBSET retired, NEW claim \in {"free", "held", "stale"}, NEW revoked \in BOOLEAN
  PROVE  Update(rows, claim, revoked) \in SUBSET Retirement
<1>1. \A r \in rows : Marked(r, claim, revoked) \in Retirement
  BY Marks DEF QueueFits
<1> QED BY <1>1, Updates DEF QueueFits

LEMMA StampFits ==
  ASSUME QueueFits, NEW rows \in SUBSET retired
  PROVE  /\ {[r EXCEPT !.revoked = TRUE] : r \in rows} \in SUBSET Retirement
         /\ \A r \in rows : /\ [r EXCEPT !.revoked = TRUE].cert = r.cert
                           /\ [r EXCEPT !.revoked = TRUE].id = r.id
                           /\ [r EXCEPT !.revoked = TRUE].revoked = TRUE
<1>1. ASSUME NEW r \in rows
      PROVE  LET q == [r EXCEPT !.revoked = TRUE]
             IN  q \in Retirement /\ q.cert = r.cert /\ q.id = r.id /\ q.revoked = TRUE
  <2>1. r \in [cert : Certs, id : Ids, source : {"prior_slot", "orphan_cleanup"},
               claim : {"free", "held", "stale"}, revoked : BOOLEAN] /\ r.id \in {r.cert, None}
    BY DEF QueueFits, Retirement
  <2> DEFINE q == [r EXCEPT !.revoked = TRUE]
  <2>2. q \in [cert : Certs, id : Ids, source : {"prior_slot", "orphan_cleanup"},
               claim : {"free", "held", "stale"}, revoked : BOOLEAN]
        /\ q.id = r.id /\ q.cert = r.cert /\ q.revoked = TRUE
    BY <2>1
  <2> HIDE DEF q
  <2>3. q \in Retirement
    BY <2>1, <2>2 DEF Retirement
  <2> QED BY <2>2, <2>3 DEF q
<1> QED BY <1>1

LEMMA QueueStaysFit ==
  ASSUME TypeInv, [Next]_vars
  PROVE  QueueFits'
<1>q. QueueFits /\ row \in Rows /\ Pending \in SUBSET retired
  BY DEF TypeInv, RowFits, Pending
<1>1. ASSUME NEW t \in Threads, NEW c \in Certs, Claim(t, c) PROVE QueueFits'
  <2>1. Claimable(c) \in SUBSET retired
    BY <1>q DEF Claimable
  <2>2. Update(Claimable(c), "held", FALSE) \in SUBSET Retirement
    BY <1>q, <2>1, UpdateFits
  <2> QED BY <1>1, <1>q, <2>2 DEF Claim, QueueFits
<1>2. ASSUME NEW t \in Threads, Stamp(t) PROVE QueueFits'
  <2> DEFINE rows == {r \in Pending : r.id = task[t].claimed}
  <2>1. rows \in SUBSET retired
    BY <1>q
  <2>2. {[r EXCEPT !.revoked = TRUE] : r \in rows} \in SUBSET Retirement
    BY <1>q, <2>1, StampFits
  <2>3. UNCHANGED retired \/ retired' = (retired \ rows) \cup {[r EXCEPT !.revoked = TRUE] : r \in rows}
    BY <1>2 DEF Stamp
  <2> QED BY <1>q, <2>2, <2>3 DEF QueueFits
<1>3. ASSUME NEW t \in Threads, Release(t) PROVE QueueFits'
  <2> DEFINE rows == {r \in Pending : r.id = task[t].claimed}
  <2>1. rows \in SUBSET retired
    BY <1>q
  <2>2. Update(rows, "free", FALSE) \in SUBSET Retirement
    BY <1>q, <2>1, UpdateFits
  <2>3. UNCHANGED retired \/ retired' = Update(rows, "free", FALSE)
    BY <1>3 DEF Release
  <2> QED BY <1>q, <2>2, <2>3 DEF QueueFits
<1>4. ASSUME NEW t \in Requests, Swap(t) PROVE QueueFits'
  <2>1. CASE Commits(t) /\ OnCurrent(t)
    <3>1. Renewed(t) = Rotated(task[t].seen, task[t].cert) /\ task[t].seen \in Rows
      BY <1>4, <2>1, RenewedRow
    <3>2. retired' = Displace({<<task[t].seen.prev, task[t].seen.prevId>>}, "prior_slot")
      BY <2>1, <3>1 DEF Commits, Commit, Rotated
    <3>3. task[t].seen.prev \in Ids /\ task[t].seen.prevId \in {task[t].seen.prev, None}
      BY <3>1 DEF Rows, RowType
    <3> QED BY <1>q, <3>2, <3>3, DisplaceFits DEF QueueFits
  <2>2. CASE Commits(t) /\ ~OnCurrent(t)
    <3>1. Renewed(t) = Recovered(task[t].seen, task[t].cert) /\ task[t].seen \in Rows
      BY <1>4, <2>2, RenewedRow
    <3>2. retired' = Displace({<<task[t].seen.cur, task[t].seen.curId>>}, "orphan_cleanup")
      BY <2>2, <3>1 DEF Commits, Commit, Recovered
    <3>3. task[t].seen.cur \in Ids /\ task[t].seen.curId \in {task[t].seen.cur, None}
      BY <3>1, Constants DEF Rows, RowType
    <3> QED BY <1>q, <3>2, <3>3, DisplaceFits DEF QueueFits
  <2> QED BY <1>4, <1>q, <2>1, <2>2, RenewedRow DEF QueueFits
<1>5. ASSUME NEW t \in Requests, Reclaim(t) PROVE QueueFits'
  <2>1. task[t].cert \in Certs
    BY <1>5, Constants DEF Reclaim, TypeInv, TasksFit, Fits, Holding
  <2>2. Retired(task[t].cert, task[t].cert, "orphan_cleanup") \in Retirement
    BY <2>1, RetiredFits
  <2> QED BY <1>5, <1>q, <2>2 DEF Reclaim, QueueFits
<1>6. CASE Retire
  <2> DEFINE s == task[Prune].seen
  <2>1. s \in Rows
    BY <1>6, Constants DEF Retire, TypeInv, TasksFit, Fits
  <2>2. s.prev \in Ids /\ s.prevId \in {s.prev, None}
    BY <2>1 DEF Rows, RowType
  <2>3. UNCHANGED retired \/ retired' = Displace({<<s.prev, s.prevId>>}, "prior_slot")
    BY <1>6 DEF Retire
  <2> HIDE DEF s
  <2> QED BY <1>q, <2>2, <2>3, DisplaceFits DEF QueueFits
<1>7. CASE Install
  <2> DEFINE s == task[Admin].seen
             displaced == {<<s.cur, s.curId>>} \cup (IF s.prev = task[Admin].cert THEN {} ELSE {<<s.prev, s.prevId>>})
  <2>1. s \in Rows
    BY <1>7, Constants DEF Install, TypeInv, TasksFit, Fits
  <2>2. \A d \in displaced : d[1] \in Ids /\ d[2] \in {d[1], None}
    BY <2>1, Constants DEF Rows, RowType
  <2>3. UNCHANGED retired \/ retired' \in SUBSET Displace(displaced, "prior_slot")
    BY <1>7 DEF Install
  <2> HIDE DEF displaced
  <2>4. Displace(displaced, "prior_slot") \in SUBSET Retirement
    BY <1>q, <2>2, DisplaceFits
  <2> QED BY <1>q, <2>3, <2>4 DEF QueueFits
<1>8. CASE Age
  <2>1. PICK old \in SUBSET retired : retired' = Update(old, "stale", FALSE)
    BY <1>8, <1>q DEF Age
  <2>2. Update(old, "stale", FALSE) \in SUBSET Retirement
    BY <1>q, UpdateFits
  <2> QED BY <2>1, <2>2 DEF QueueFits
<1>9. CASE UNCHANGED retired
  BY <1>9, <1>q DEF QueueFits
<1> QED BY <1>1, <1>2, <1>3, <1>4, <1>5, <1>6, <1>7, <1>8, <1>9, Frames

LEMMA RestStaysFit ==
  ASSUME TypeInv, [Next]_vars
  PROVE  RestFits'
<1>r. RestFits /\ row \in Rows
  BY DEF TypeInv, RowFits
<1>1. ca' \in [Certs -> {"none", "active", "pending", "revoked"}]
  <2>1. \A c \in Certs : Accepted(c) \cup {ca[c]} \subseteq {"none", "active", "pending", "revoked"}
    BY <1>r DEF Accepted, RestFits
  <2>2. ASSUME NEW c, NEW a \in {"none", "active", "pending", "revoked"}, Becomes(c, a)
        PROVE  ca' \in [Certs -> {"none", "active", "pending", "revoked"}]
    BY <1>r, <2>2 DEF Becomes, RestFits
  <2>3. ASSUME NEW t \in Threads, Delete(t)
        PROVE  ca' \in [Certs -> {"none", "active", "pending", "revoked"}]
    <3>1. task[t].claimed \in Certs
      BY <2>3, Constants DEF Delete, TypeInv, TasksFit, Fits, Working, Task
    <3> QED BY <2>1, <2>2, <2>3, <3>1, <1>r DEF Delete, RestFits
  <2>4. ASSUME NEW t \in Requests, Direct(t)
        PROVE  ca' \in [Certs -> {"none", "active", "pending", "revoked"}]
    <3>1. task[t].cert \in Certs
      BY <2>4, Constants DEF Direct, TypeInv, TasksFit, Fits, Holding
    <3> QED BY <2>1, <2>2, <2>4, <3>1, <1>r DEF Direct, RestFits
  <2> QED BY <2>2, <2>3, <2>4, <1>r, Frames DEF Sign, Finish, RestFits
<1>2. installed' \in returned' /\ returned' \subseteq Certs
  <2>1. ASSUME NEW t \in Requests, Reply(t) PROVE installed' \in returned' /\ returned' \subseteq Certs
    <3>1. task[t].ok => task[t].cert \in Certs
      BY <2>1, Constants DEF TypeInv, TasksFit, Fits
    <3> QED BY <2>1, <3>1, <1>r DEF Reply, RestFits
  <2>2. CASE Install
    <3>1. task[Admin].cert \in Certs
      BY <2>2, Constants DEF Install, TypeInv, TasksFit, Fits
    <3> QED BY <2>2, <3>1, <1>r DEF Install, RestFits
  <2> QED BY <2>1, <2>2, <1>r, Frames DEF RestFits
<1>3. awaited' \in Requests \cup {NoRequest}
  BY <1>r, Frames DEF RestFits, Ask, Reply, Crash, GiveUp
<1>4. byGrace' \subseteq Certs
  <2>1. ASSUME NEW t \in Requests, Swap(t) PROVE byGrace' \subseteq Certs
    BY <2>1, <1>r, RenewedRow DEF RestFits, Commits, Commit
  <2> QED BY <2>1, <1>r, Frames DEF Edit, RestFits
<1>5. leaked' \subseteq Certs
  <2>1. ASSUME NEW t \in Requests, Direct(t) PROVE leaked' \subseteq Certs
    <3>1. task[t].cert \in Certs
      BY <2>1, Constants DEF Direct, TypeInv, TasksFit, Fits, Holding
    <3> QED BY <2>1, <3>1, <1>r DEF Direct, RestFits
  <2> QED BY <2>1, <1>r, Frames DEF RestFits
<1> QED BY <1>1, <1>2, <1>3, <1>4, <1>5, <1>r, Frames DEF RestFits

LEMMA TypeStep == TypeInv /\ [Next]_vars => TypeInv'
  BY TasksStayFit, RowStaysFit, QueueStaysFit, RestStaysFit DEF TypeInv

LEMMA TypeInit == Init => TypeInv
<1> SUFFICES ASSUME Init PROVE TypeInv
  OBVIOUS
<1>1. plan \in Plans /\ plan.id \in BOOLEAN /\ plan.admin \in BOOLEAN
  BY CertAssumption DEF Init
<1>2. TasksFit
  BY IdleFits DEF Init, TasksFit, Fits
<1>3. RowFits
  <2> DEFINE w == [cur |-> First, curId |-> IF plan.id THEN First ELSE None, prev |-> None, prevId |-> None, until |-> 0]
  <2>1. w \in RowType /\ w.curId \in {First, None} /\ w.cur = First /\ w.prev = None /\ w.prevId = None /\ w.until = 0
    BY Constants DEF RowType
  <2> HIDE DEF w
  <2>2. w \in Rows
    BY <2>1, RowsAre
  <2>3. row = w
    BY DEF Init, w
  <2>4. done \in Counts /\ done.windows = 0 /\ lapsed = 0 /\ isAdmin \in BOOLEAN /\ late = FALSE
    BY <1>1 DEF Init, Counts
  <2>5. row \in Rows /\ row.until = 0
    BY <2>1, <2>2, <2>3
  <2>6. row.until \in 0..done.windows /\ lapsed \in 0..done.windows
    BY <2>4, <2>5
  <2> QED BY <2>4, <2>5, <2>6 DEF RowFits
<1>4. QueueFits /\ RestFits
  BY <1>1, Constants DEF Init, QueueFits, RestFits
<1> QED BY <1>2, <1>3, <1>4 DEF TypeInv

LEMMA TypeInvariance == Spec => []TypeInv
  BY TypeInit, TypeStep, PTL DEF Spec

(* Every state is well typed: a slot, a reservation and a request never     *)
(* hold an id of another certificate, and a claim is held exactly while a   *)
(* certificate is being settled.                                            *)
THEOREM TypeCorrect == Spec => []TypeOK
<1>1. TypeInv => TypeOK
  <2> SUFFICES ASSUME TypeInv PROVE TypeOK
    OBVIOUS
  <2>1. row \in RowType /\ row.curId \in {row.cur, None} /\ row.prevId \in {row.prev, None}
    BY DEF TypeInv, RowFits, Rows
  <2>2. retired \subseteq [cert : Certs, id : Ids, source : {"prior_slot", "orphan_cleanup"},
                        claim : {"free", "held", "stale"}, revoked : BOOLEAN]
    BY DEF TypeInv, QueueFits, Retirement
  <2>3. ASSUME NEW t \in Threads
        PROVE /\ {task[t].auth, task[t].cert, task[t].id, task[t].claimed} \subseteq Ids
              /\ task[t].todo \subseteq Certs /\ task[t].seen \in RowType \cup {NoRow}
              /\ task[t].pc \in {"delete", "status", "stamp", "release"} <=> task[t].claimed # None
    BY DEF TypeInv, TasksFit, Fits, Working, Task, Rows
  <2> QED BY <2>1, <2>2, <2>3 DEF TypeOK, TypeInv, RowFits, RestFits
<1> QED BY <1>1, TypeInvariance, PTL

-----------------------------------------------------------------------------
(* Grace and lockout.                                                       *)

(* The certificate a grace renewal installs is never that of an             *)
(* administrator: not one is on record while the machine has the rights.    *)
THEOREM GraceIsNoPromotion == Spec => []GraceNeverElevates
<1>1. Init => NotElevated
  BY DEF Init, NotElevated
<1>2. TypeInv /\ NotElevated /\ [Next]_vars => NotElevated'
  <2> SUFFICES ASSUME TypeInv, NotElevated, [Next]_vars PROVE NotElevated'
    OBVIOUS
  <2>1. ASSUME NEW t \in Requests, Swap(t) PROVE NotElevated'
    <3>1. UNCHANGED isAdmin
      BY <2>1 DEF Swap
    <3>2. UNCHANGED byGrace \/ ~isAdmin
      BY <2>1, RenewedRow DEF Commits, Commit, GraceAllowed
    <3> QED BY <3>1, <3>2 DEF NotElevated
  <2>2. CASE Edit
    BY <2>2 DEF Edit, NotElevated
  <2>3. CASE UNCHANGED <<isAdmin, byGrace>>
    BY <2>3 DEF NotElevated
  <2> QED BY <2>1, <2>2, <2>3, Frames
<1>3. NotElevated => GraceNeverElevates
  BY DEF NotElevated, GraceNeverElevates
<1> QED BY <1>1, <1>2, <1>3, TypeInvariance, PTL DEF Spec

(* Settling moves one thread, and what that thread knows of its request     *)
(* stays.                                                                   *)
LEMMA SettlingMoves ==
  ASSUME TypeInv, NEW t \in Threads, Settling(t)
  PROVE  /\ \A u \in Threads \ {t} : task'[u] = task[u]
         /\ task[t].pc \in {"settle"} \cup Working
         /\ \/ task'[t] = IdleTask /\ t \notin Requests
            \/ /\ task'[t].pc \in {"settle"} \cup Working \/ (t \in Requests /\ task'[t].pc = "reply")
               /\ task'[t].cert = task[t].cert /\ task'[t].auth = task[t].auth
               /\ task'[t].ok = task[t].ok /\ task'[t].seen = task[t].seen
               /\ task'[t].id = task[t].id /\ task'[t].unknown = task[t].unknown
               /\ task'[t].trusted = task[t].trusted
<1> DEFINE x == task[t]
<1>x. task \in [Threads -> Task] /\ x \in Task
  BY DEF TypeInv, TasksFit
<1> DEFINE Y(todo, pc, d) == [x EXCEPT !.todo = todo, !.pc = pc, !.claimed = d]
           Z(todo) == [x EXCEPT !.todo = todo]
<1>1. x.pc \in {"settle"} \cup Working
  BY DEF Settling, Claim, Status, Delete, Stamp, Release, Settled, Working
<1>2. \/ Turns(t, IdleTask) /\ t \notin Requests
      \/ Go(t, "reply") /\ t \in Requests
      \/ NextClaim(t)
      \/ \E pc \in Working : Go(t, pc)
      \/ \E pc \in {"settle"} \cup Working : \E todo, c : Turns(t, Y(todo, pc, c))
      \/ \E todo : Turns(t, Z(todo)) /\ x.pc = "settle"
  <2>1. ASSUME NEW c \in Certs, Claim(t, c)
        PROVE  \/ \E pc \in {"settle"} \cup Working : \E todo, d :
                     Turns(t, Y(todo, pc, d))
               \/ \E todo : Turns(t, Z(todo)) /\ x.pc = "settle"
    <3> DEFINE pc == IF Claimable(c) = {} THEN "settle" ELSE IF x.poll THEN "status" ELSE "delete"
               d == IF Claimable(c) = {} THEN None ELSE c
    <3>1. \/ Turns(t, Y(x.todo \ {c}, pc, d))
          \/ Turns(t, Z(x.todo \ {c})) /\ x.pc = "settle"
      BY <2>1 DEF Claim
    <3>2. pc \in {"settle"} \cup Working
      BY DEF Working
    <3> HIDE DEF pc, d, x, Y, Z
    <3> QED BY <3>1, <3>2
  <2>2. Status(t) => NextClaim(t) \/ \E pc \in Working : Go(t, pc)
    BY DEF Status, Working
  <2>3. Delete(t) => NextClaim(t) \/ \E pc \in Working : Go(t, pc)
    BY DEF Delete, Working
  <2>4. Stamp(t) \/ Release(t) => NextClaim(t)
    BY DEF Stamp, Release
  <2>5. Settled(t) => (Turns(t, IdleTask) /\ t \notin Requests) \/ (Go(t, "reply") /\ t \in Requests)
    BY DEF Settled
  <2> HIDE DEF x, Y, Z
  <2> QED BY <2>1, <2>2, <2>3, <2>4, <2>5 DEF Settling
<1>3. CASE Turns(t, IdleTask) /\ t \notin Requests
  BY <1>1, <1>3, <1>x DEF Turns
<1>4. CASE Go(t, "reply") /\ t \in Requests
  BY <1>1, <1>4, <1>x DEF Go, Turns, Task
<1>5. CASE NextClaim(t)
  BY <1>1, <1>5, <1>x DEF NextClaim, Turns, Task
<1>6. CASE \E pc \in Working : Go(t, pc)
  <2>1. PICK pc \in Working : Go(t, pc)
    BY <1>6
  <2> QED BY <1>1, <2>1, <1>x DEF Go, Turns, Task
<1>7. ASSUME NEW todo, NEW pc \in {"settle"} \cup Working, NEW c, Turns(t, Y(todo, pc, c))
      PROVE  /\ \A u \in Threads \ {t} : task'[u] = task[u]
             /\ task'[t].pc = pc
             /\ task'[t].cert = task[t].cert /\ task'[t].auth = task[t].auth
             /\ task'[t].ok = task[t].ok /\ task'[t].seen = task[t].seen
             /\ task'[t].id = task[t].id /\ task'[t].unknown = task[t].unknown
             /\ task'[t].trusted = task[t].trusted
  BY <1>7, <1>x DEF Turns, Task
<1>8. ASSUME NEW todo, Turns(t, Z(todo)), x.pc = "settle"
      PROVE  /\ \A u \in Threads \ {t} : task'[u] = task[u]
             /\ task'[t].pc = "settle"
             /\ task'[t].cert = task[t].cert /\ task'[t].auth = task[t].auth
             /\ task'[t].ok = task[t].ok /\ task'[t].seen = task[t].seen
             /\ task'[t].id = task[t].id /\ task'[t].unknown = task[t].unknown
             /\ task'[t].trusted = task[t].trusted
  BY <1>8, <1>x DEF Turns, Task
<1> HIDE DEF Y, Z
<1> QED BY <1>1, <1>2, <1>3, <1>4, <1>5, <1>6, <1>7, <1>8

LEMMA PruneStep ==
  ASSUME TypeInv, PruneKnows, [Next]_vars
  PROVE  PruneKnows'
<1> DEFINE x == task[Prune]
<1>r. /\ row \in Rows /\ done.windows \in Nat /\ row.until \in 0..done.windows /\ lapsed \in 0..done.windows
      /\ x \in Task /\ Fits(Prune, x) /\ Prune \in Threads /\ task \in [Threads -> Task]
  BY Constants DEF TypeInv, RowFits, Counts, TasksFit, Fits
<1>1. CASE PruneStart
  <2>1. \/ x'.pc # "retire"
        \/ x'.seen = row /\ row.until <= lapsed
    BY <1>1, <1>r DEF PruneStart, Turns, IdleTask, Due, Open, Rows, RowType
  <2> QED BY <1>1, <2>1, Frames DEF PruneStart, PruneKnows
<1>2. CASE x' = x /\ x.pc = "retire"
  <2>1. x.seen \in Rows /\ x.seen.prev # None /\ x.seen.until <= lapsed
        /\ (row.prev = x.seen.prev /\ row.until = x.seen.until => row.prevId = x.seen.prevId)
    BY <1>2, <1>r DEF Fits, PruneKnows
  <2>2. lapsed <= lapsed' /\ lapsed' \in Nat /\ lapsed \in Nat /\ x.seen.until \in Nat
    BY <1>r, <2>1, Frames DEF Lapse, Open, Rows, RowType
  <2>3. row'.prev = x.seen.prev /\ row'.until = x.seen.until => row'.prevId = x.seen.prevId
    <3>1. ASSUME NEW t \in Requests, Swap(t), Commits(t), OnCurrent(t)
          PROVE  row'.until = done.windows + 1
      <4>1. Renewed(t) = Rotated(task[t].seen, task[t].cert)
        BY <3>1, RenewedRow
      <4> QED BY <3>1, <4>1 DEF Commits, Commit, Rotated
    <3>2. ASSUME NEW t \in Requests, Swap(t), Commits(t), ~OnCurrent(t)
          PROVE  row'.prev = row.prev /\ row'.until = row.until /\ row'.prevId = row.prevId
      <4>1. Renewed(t) = Recovered(task[t].seen, task[t].cert) /\ task[t].seen = row
        BY <3>2, RenewedRow DEF Commits
      <4>2. row' = [row EXCEPT !.cur = task[t].cert, !.curId = task[t].cert]
        BY <3>2, <4>1 DEF Commits, Commit, Recovered
      <4> QED BY <4>2, <1>r DEF Rows, RowType
    <3>3. CASE Retire
      <4>1. row' = row \/ row' = [row EXCEPT !.prev = None, !.prevId = None, !.until = 0]
        BY <3>3 DEF Retire
      <4>2. row' = row \/ row'.prev = None
        BY <4>1, <1>r DEF Rows, RowType
      <4> QED BY <4>2, <2>1
    <3>4. CASE Install
      <4>1. \/ row' = row \/ row'.prev = None
            \/ row'.prev = row.prev /\ row'.until = row.until /\ row'.prevId = row.prevId
        <5>1. \/ row' = row
              \/ row'.prev = None
              \/ row' = [row EXCEPT !.curId = IF task[Admin].id # None THEN task[Admin].id ELSE row.curId]
          BY <3>4 DEF Install
        <5> QED BY <5>1, <1>r DEF Rows, RowType
      <4> QED BY <4>1, <2>1
    <3> QED BY <3>1, <3>2, <3>3, <3>4, <2>1, <2>2, <1>r, Frames, RenewedRow
  <2> QED BY <1>2, <2>1, <2>2, <2>3 DEF PruneKnows
<1>3. CASE x' # x
  <2>1. x'.pc = "retire" => PruneStart
    <3>1. ASSUME NEW t \in Threads, Settling(t) \/ Crash(t) PROVE x' = x \/ x'.pc # "retire"
      BY <3>1, <1>r, SettlingMoves DEF Crash, Turns, IdleTask, Working
    <3>2. ASSUME NEW t \in Requests, Ask(t) \/ Renewal(t) PROVE x' = x
      <4>1. \E y : Turns(t, y)
        BY <3>2 DEF Ask, Renewal, Identify, Read, Sign, Swap, Reclaim, Direct, Reply, Go
      <4> QED BY <4>1, <1>r, Constants DEF Turns
    <3>3. ASSUME Administration \/ \E fp, id, u : AskAdmin(fp, id, u) PROVE x' = x
      <4>1. \E y : Turns(Admin, y)
        BY <3>3 DEF Administration, AskAdmin, Clash, IdClash, Look, Verify, Install, Go, Drop
      <4> QED BY <4>1, <1>r, Constants DEF Turns
    <3>4. Retire \/ Drain => x'.pc # "retire"
      BY <1>r DEF Retire, Drain, Go, Turns, Task
    <3>5. GiveUp \/ Edit \/ Lapse \/ Age \/ (\E c \in Certs : Finish(c)) \/ UNCHANGED vars => x' = x
      BY DEF GiveUp, Edit, Lapse, Age, Finish, vars
    <3> QED BY <1>3, <3>1, <3>2, <3>3, <3>4, <3>5 DEF Next, Pruning
  <2> QED BY <1>1, <2>1 DEF PruneKnows
<1> QED BY <1>1, <1>2, <1>3 DEF PruneKnows

LEMMA InSlots == ASSUME NEW c PROVE Slot(c) # "none" <=> c = row.cur \/ (c = row.prev /\ Open)
  BY DEF Slot

(* What a request knows while it is served: only its own steps change it.   *)
LEMMA RenewalMoves ==
  ASSUME TypeInv, NEW t \in Requests, Ask(t) \/ Renewal(t)
  PROVE  /\ \A u \in Threads \ {t} : task'[u] = task[u]
         /\ Ask(t) => task'[t].auth = installed /\ task'[t].ok = FALSE /\ task'[t].pc = "sent" /\ task'[t].cert = None
         /\ Reply(t) => task'[t] = IdleTask
         /\ Renewal(t) /\ ~Reply(t) => task'[t].auth = task[t].auth /\ task[t].pc \in Fresh \cup Holding
         /\ Swap(t) => task'[t].cert = task[t].cert
         /\ Renewal(t) /\ ~Reply(t) /\ ~Swap(t) => task'[t].ok = task[t].ok
         /\ Renewal(t) /\ ~Reply(t) /\ ~Sign(t) => task'[t].cert = task[t].cert
<1> DEFINE x == task[t]
<1>x. task \in [Threads -> Task] /\ x \in Task /\ t \in Threads
  BY Constants DEF TypeInv, TasksFit
<1>t. ASSUME NEW y, Turns(t, y) PROVE task'[t] = y /\ \A u \in Threads \ {t} : task'[u] = task[u]
  BY <1>t, <1>x DEF Turns
<1> USE DEF Fresh, Holding
<1>1. CASE Ask(t)
  <2>1. IdleTask \in Task
    BY <1>x, IdleFits DEF Fits
  <2> DEFINE y == [IdleTask EXCEPT !.pc = "sent", !.auth = installed]
  <2>2. y.auth = installed /\ y.ok = FALSE /\ y.pc = "sent" /\ y.cert = None
    BY DEF IdleTask
  <2>3. Turns(t, y) /\ x.pc = "idle"
    BY <1>1 DEF Ask
  <2>4. ~Renewal(t)
    BY <2>3 DEF Renewal, Identify, Read, Sign, Swap, Reclaim, Direct, Reply
  <2> HIDE DEF y
  <2> QED BY <1>t, <2>2, <2>3, <2>4 DEF Renewal
<1>2. CASE Reply(t)
  <2>1. x.pc = "reply" /\ Turns(t, IdleTask)
    BY <1>2 DEF Reply
  <2> QED BY <1>t, <2>1, <1>2 DEF Renewal, Ask, Swap, Sign
<1>3. CASE Renewal(t) /\ ~Reply(t)
  <2>1. x.pc \in Fresh \cup Holding
    BY <1>3 DEF Renewal, Identify, Read, Sign, Swap, Reclaim, Direct
  <2> DEFINE W(y) == /\ y.auth = x.auth
                     /\ Swap(t) => y.cert = x.cert
                     /\ ~Swap(t) => y.ok = x.ok
                     /\ ~Sign(t) => y.cert = x.cert
  <2>2. \E y : Turns(t, y) /\ W(y)
    <3>1. ASSUME NEW pc, Go(t, pc) PROVE \E y : Turns(t, y) /\ W(y)
      <4> DEFINE y == [x EXCEPT !.pc = pc]
      <4>1. Turns(t, y) /\ y.auth = x.auth /\ y.cert = x.cert /\ y.ok = x.ok
        BY <3>1, <1>x DEF Go, Task
      <4> HIDE DEF y
      <4> QED BY <4>1
    <3>2. CASE Identify(t)
      <4>1. PICK slot, pc : Turns(t, [x EXCEPT !.slot = slot, !.pc = pc])
        BY <3>2 DEF Identify
      <4> DEFINE y == [x EXCEPT !.slot = slot, !.pc = pc]
      <4>2. Turns(t, y) /\ y.auth = x.auth /\ y.cert = x.cert /\ y.ok = x.ok
        BY <4>1, <1>x DEF Task
      <4> HIDE DEF y
      <4> QED BY <4>2
    <3>3. CASE Read(t)
      <4>1. PICK pc : Turns(t, [x EXCEPT !.seen = row, !.pc = pc])
        BY <3>3 DEF Read
      <4> DEFINE y == [x EXCEPT !.seen = row, !.pc = pc]
      <4>2. Turns(t, y) /\ y.auth = x.auth /\ y.cert = x.cert /\ y.ok = x.ok
        BY <4>1, <1>x DEF Task
      <4> HIDE DEF y
      <4> QED BY <4>2
    <3>4. CASE Sign(t)
      <4>1. ASSUME NEW c, NEW pc, Turns(t, [x EXCEPT !.cert = c, !.pc = pc]) PROVE \E y : Turns(t, y) /\ W(y)
        <5> DEFINE y == [x EXCEPT !.cert = c, !.pc = pc]
        <5>1. Turns(t, y) /\ y.auth = x.auth /\ y.ok = x.ok
          BY <4>1, <1>x DEF Task
        <5>2. ~Swap(t)
          BY <3>4 DEF Sign, Swap
        <5> HIDE DEF y
        <5> QED BY <3>4, <5>1, <5>2
      <4> QED BY <3>1, <3>4, <4>1 DEF Sign
    <3>5. CASE Swap(t)
      <4>1. ASSUME NEW ids, Turns(t, [x EXCEPT !.pc = "settle", !.ok = TRUE, !.todo = ids]) PROVE \E y : Turns(t, y) /\ W(y)
        <5> DEFINE y == [x EXCEPT !.pc = "settle", !.ok = TRUE, !.todo = ids]
        <5>1. Turns(t, y) /\ y.auth = x.auth /\ y.cert = x.cert
          BY <4>1, <1>x DEF Task
        <5> HIDE DEF y
        <5> QED BY <3>5, <5>1
      <4> QED BY <3>1, <3>5, <4>1 DEF Swap
    <3>6. CASE Reclaim(t)
      <4>1. ASSUME NEW ids, Turns(t, [x EXCEPT !.pc = "settle", !.todo = ids]) PROVE \E y : Turns(t, y) /\ W(y)
        <5> DEFINE y == [x EXCEPT !.pc = "settle", !.todo = ids]
        <5>1. Turns(t, y) /\ y.auth = x.auth /\ y.cert = x.cert /\ y.ok = x.ok
          BY <4>1, <1>x DEF Task
        <5> HIDE DEF y
        <5> QED BY <3>6, <5>1
      <4> QED BY <3>1, <3>6, <4>1 DEF Reclaim
    <3>7. CASE Direct(t)
      BY <3>1, <3>7 DEF Direct
    <3> QED BY <1>3, <3>2, <3>3, <3>4, <3>5, <3>6, <3>7 DEF Renewal
  <2>3. ~Ask(t)
    BY <2>1 DEF Ask
  <2> QED BY <1>t, <1>3, <2>1, <2>2, <2>3
<1> QED BY <1>1, <1>2, <1>3 DEF Renewal

Undisturbed == Without({"timeout"}) /\ plan.swaps = 0

LEMMA LockoutStep ==
  ASSUME LockoutInv, Undisturbed, [Next]_vars
  PROVE  OneAtATime' /\ NoLockout'
<1>t. TypeInv /\ PruneKnows /\ InstalledAuthenticates
  BY DEF LockoutInv, NoLockout, Undisturbed
<1>o. /\ task[Admin].pc = "idle"
      /\ \A t \in Requests : task[t].pc # "idle" =>
           awaited = t /\ task[t].auth = installed /\ (task[t].ok => task[t].cert = row.cur)
  BY DEF LockoutInv, OneAtATime, Undisturbed
<1>r. /\ row \in Rows /\ done.windows \in Nat /\ done.swaps \in Nat /\ row.until \in 0..done.windows
      /\ lapsed \in 0..done.windows /\ task \in [Threads -> Task] /\ installed \in Certs
      /\ awaited \in Requests \cup {NoRequest} /\ \A t \in Threads : Fits(t, task[t])
  BY <1>t DEF TypeInv, RowFits, Counts, TasksFit, RestFits
<1> DEFINE OneNow == /\ task'[Admin].pc = "idle"
                     /\ \A t \in Requests : task'[t].pc # "idle" =>
                          awaited' = t /\ task'[t].auth = installed' /\ (task'[t].ok => task'[t].cert = row'.cur)
           SlotNow == late' \/ installed' = row'.cur \/ (installed' = row'.prev /\ row'.until > lapsed')
<1>s. late \/ installed = row.cur \/ (installed = row.prev /\ row.until > lapsed)
  BY <1>t, InSlots DEF InstalledAuthenticates, Open
<1>g. OneNow /\ SlotNow => OneAtATime' /\ NoLockout'
  <2>1. SlotNow => InstalledAuthenticates'
    <3>1. installed' \in Certs
      BY <1>t, RestStaysFit DEF RestFits
    <3> QED BY <3>1, InSlots, Constants DEF InstalledAuthenticates, Open, Slot
  <2> QED BY <2>1 DEF OneAtATime, NoLockout
<1>i. IdleTask.pc = "idle"
  BY DEF IdleTask
<1>1. ASSUME NEW t \in Requests, Ask(t) PROVE OneNow /\ SlotNow
  <2>1. \A u \in Requests : task[u].pc = "idle"
    BY <1>1, <1>o, Constants DEF Ask
  <2>2. awaited' = t /\ UNCHANGED <<installed, row, late, lapsed>>
    BY <1>1 DEF Ask, historyVars
  <2>3. /\ \A u \in Threads \ {t} : task'[u] = task[u]
        /\ task'[t].auth = installed /\ task'[t].ok = FALSE
    BY <1>1, <1>t, RenewalMoves
  <2> QED BY <1>o, <1>s, <2>1, <2>2, <2>3, Constants
<1>2. ASSUME NEW t \in Requests, Renewal(t), ~Reply(t), ~Swap(t) PROVE OneNow /\ SlotNow
  <2>1. UNCHANGED <<installed, row, late, lapsed, awaited>>
    BY <1>2 DEF Renewal, Identify, Read, Sign, Reclaim, Direct, historyVars, collectorVars
  <2>2. /\ \A u \in Threads \ {t} : task'[u] = task[u]
        /\ task'[t].auth = task[t].auth /\ task[t].pc \in Fresh \cup Holding /\ task'[t].ok = task[t].ok
    BY <1>2, <1>t, RenewalMoves
  <2>3. task[t].ok = FALSE /\ task[t].pc # "idle"
    BY <2>2, <1>r, Constants DEF Fits, Task, Fresh, Holding
  <2> QED BY <1>o, <1>s, <2>1, <2>2, <2>3, Constants
<1>3. ASSUME NEW t \in Requests, Swap(t) PROVE OneNow /\ SlotNow
  <2>1. UNCHANGED <<installed, late, lapsed, awaited>> /\ task[t].pc = "swap"
    BY <1>3 DEF Swap, collectorVars
  <2>2. /\ \A u \in Threads \ {t} : task'[u] = task[u]
        /\ task'[t].auth = task[t].auth /\ task'[t].cert = task[t].cert
    BY <1>3, <1>t, <2>1, RenewalMoves DEF Renewal, Reply
  <2>3. awaited = t /\ task[t].auth = installed /\ task[t].ok = FALSE
        /\ \A u \in Requests \ {t} : task[u].pc = "idle"
    BY <2>1, <1>o, <1>r, Constants DEF Fits, Task, Holding
  <2>4. CASE Commits(t)
    <3>1. row'.cur = task[t].cert
          /\ (installed = row'.prev /\ row'.until > lapsed)
      <4>1. CASE OnCurrent(t)
        <5>1. Renewed(t) = Rotated(task[t].seen, task[t].cert)
          BY <1>3, <1>t, <4>1, RenewedRow
        <5>2. row' = [cur |-> task[t].cert, curId |-> task[t].cert, prev |-> task[t].seen.cur,
                      prevId |-> task[t].seen.curId, until |-> done.windows + 1]
          BY <2>4, <5>1 DEF Commits, Commit, Rotated
        <5> QED BY <5>2, <2>3, <4>1, <1>r DEF OnCurrent
      <4>2. CASE ~OnCurrent(t)
        <5>1. Renewed(t) = Recovered(task[t].seen, task[t].cert) /\ task[t].seen = row
          BY <1>3, <1>t, <2>4, <4>2, RenewedRow DEF Commits
        <5> DEFINE w == [row EXCEPT !.cur = task[t].cert, !.curId = task[t].cert]
        <5>2. row' = w
          BY <2>4, <5>1 DEF Commits, Commit, Recovered
        <5>3. w.cur = task[t].cert /\ w.prev = row.prev /\ w.until = row.until
          BY <1>r DEF Rows, RowType
        <5>4. row.prev = installed /\ row.until > lapsed
          BY <2>3, <2>4, <4>2, <5>1 DEF Commits, Grace, GraceAllowed, Open
        <5> HIDE DEF w
        <5> QED BY <5>2, <5>3, <5>4
      <4> QED BY <4>1, <4>2
    <3> QED BY <1>o, <2>1, <2>2, <2>3, <3>1, Constants
  <2>5. CASE ~Commits(t)
    <3>1. UNCHANGED row /\ Go(t, "reclaim")
      BY <1>3, <2>5 DEF Swap, Commits
    <3>2. task'[t].ok = FALSE
      BY <3>1, <2>3, <1>r, Constants DEF Go, Turns, Task
    <3> QED BY <1>o, <1>s, <2>1, <2>2, <2>3, <3>1, <3>2, Constants
  <2> QED BY <2>4, <2>5
<1>4. ASSUME NEW t \in Requests, Reply(t) PROVE OneNow /\ SlotNow
  <2>1. UNCHANGED <<row, late, lapsed>> /\ task[t].pc = "reply"
        /\ (UNCHANGED installed \/ (task[t].ok /\ installed' = task[t].cert))
    BY <1>4 DEF Reply, historyVars
  <2>2. task'[t] = IdleTask /\ \A u \in Threads \ {t} : task'[u] = task[u]
    BY <1>4, <1>t, RenewalMoves DEF Renewal
  <2>3. awaited = t /\ (task[t].ok => task[t].cert = row.cur) /\ \A u \in Requests \ {t} : task[u].pc = "idle"
    BY <2>1, <1>o, Constants
  <2> QED BY <1>o, <1>s, <1>i, <2>1, <2>2, <2>3, Constants
<1>5. ASSUME NEW t \in Threads, Settling(t) PROVE OneNow /\ SlotNow
  <2>1. UNCHANGED <<installed, row, late, lapsed, awaited>>
    BY <1>5 DEF Settling, Claim, Status, Delete, Stamp, Release, Settled, historyVars, collectorVars
  <2>2. /\ \A u \in Threads \ {t} : task'[u] = task[u]
        /\ task[t].pc \in {"settle"} \cup Working
        /\ t \in Requests => /\ task'[t].auth = task[t].auth /\ task'[t].ok = task[t].ok
                             /\ task'[t].cert = task[t].cert
    BY <1>5, <1>t, SettlingMoves
  <2>3. task[t].pc # "idle"
    BY <2>2 DEF Working
  <2> QED BY <1>o, <1>s, <2>1, <2>2, <2>3, Constants
<1>6. ASSUME NEW t \in Threads, Crash(t) PROVE OneNow /\ SlotNow
  <2>1. UNCHANGED <<installed, row, late, lapsed>> /\ task[t].pc # "idle"
        /\ awaited' = IF awaited = t THEN NoRequest ELSE awaited
    BY <1>6 DEF Crash, historyVars
  <2>2. task'[t] = IdleTask /\ \A u \in Threads \ {t} : task'[u] = task[u]
    BY <1>6, <1>r DEF Crash, Turns
  <2> QED BY <1>o, <1>s, <1>i, <2>1, <2>2, Constants
<1>7. CASE Pruning
  <2>1. UNCHANGED <<installed, late, lapsed, awaited>> /\ \A u \in Threads \ {Prune} : task'[u] = task[u]
    <3>1. \E y : Turns(Prune, y)
      BY <1>7 DEF Pruning, PruneStart, Retire, Drain, Go
    <3>2. PICK y : Turns(Prune, y)
      BY <3>1
    <3>3. \A u \in Threads \ {Prune} : task'[u] = task[u]
      BY <3>2, <1>r DEF Turns
    <3> QED BY <1>7, <3>3 DEF Pruning, PruneStart, Retire, Drain, historyVars, collectorVars
  <2>2. row'.cur = row.cur /\ (row.until > lapsed => UNCHANGED row)
    <3>1. CASE Retire
      <4>1. \/ UNCHANGED row
            \/ /\ row' = [row EXCEPT !.prev = None, !.prevId = None, !.until = 0]
               /\ row.until = task[Prune].seen.until
        BY <3>1 DEF Retire
      <4>2. task[Prune].seen.until <= lapsed
        BY <3>1, <1>t DEF PruneKnows, Retire
      <4>3. task[Prune].seen.until \in Nat /\ lapsed \in Nat
        BY <3>1, <1>r, Constants DEF Fits, Retire, Rows, RowType
      <4>4. row'.cur = row.cur
        BY <4>1, <1>r DEF Rows, RowType
      <4> QED BY <4>1, <4>2, <4>3, <4>4
    <3> QED BY <1>7, <3>1 DEF Pruning, PruneStart, Drain
  <2>3. OneNow
    <3>1. task'[Admin] = task[Admin] /\ \A t \in Requests : task'[t] = task[t]
      BY <2>1, Constants
    <3> QED BY <1>o, <2>1, <2>2, <3>1
  <2>4. SlotNow
    <3>1. CASE row.until > lapsed
      BY <1>s, <2>1, <2>2, <3>1
    <3>2. CASE ~(row.until > lapsed)
      BY <1>s, <2>1, <2>2, <3>2
    <3> QED BY <3>1, <3>2
  <2> HIDE DEF OneNow, SlotNow
  <2> QED BY <1>g, <2>3, <2>4
<1>8. ~Administration /\ ~GiveUp /\ ~(\E fp, id, u : AskAdmin(fp, id, u))
  <2>1. ~Administration
    BY <1>o DEF Administration, Clash, IdClash, Look, Verify, Install
  <2>2. ~GiveUp
    BY DEF GiveUp, Fault, Undisturbed, Without
  <2>3. ASSUME NEW fp, NEW id, NEW u, AskAdmin(fp, id, u) PROVE FALSE
    BY <1>r, <2>3 DEF AskAdmin, Undisturbed
  <2> QED BY <2>1, <2>2, <2>3
<1>9. CASE Edit \/ Age \/ (\E c \in Certs : Finish(c)) \/ UNCHANGED vars
  <2>1. UNCHANGED <<installed, awaited, row, late, lapsed, task>>
    BY <1>9 DEF Edit, Age, Finish, vars, historyVars, collectorVars
  <2>2. OneNow
    BY <1>o, <2>1
  <2>3. SlotNow
    BY <1>s, <2>1
  <2> HIDE DEF OneNow, SlotNow
  <2> QED BY <1>g, <2>2, <2>3
<1>10. CASE Lapse
  <2>1. UNCHANGED <<installed, awaited, row, task>> /\ late' = (late \/ row.prev = installed)
    BY <1>10 DEF Lapse, collectorVars
  <2>2. OneNow
    BY <1>o, <2>1
  <2>3. SlotNow
    BY <1>s, <2>1
  <2> HIDE DEF OneNow, SlotNow
  <2> QED BY <1>g, <2>2, <2>3
<1> QED BY <1>1, <1>2, <1>3, <1>4, <1>5, <1>6, <1>7, <1>8, <1>9, <1>10, <1>g DEF Next, Renewal

(* A machine whose collector waits for each answer, and whose slots nobody  *)
(* else writes, always keeps a certificate it can authenticate with, unless *)
(* a whole window passes: lost replies, failed calls, dead requests and the *)
(* prune do not lock it out.                                                *)
THEOREM NeverLockedOut == Spec => []NoLockout
<1>1. Init => LockoutInv
  <2> SUFFICES ASSUME Init PROVE LockoutInv
    OBVIOUS
  <2>1. PruneKnows /\ OneAtATime
    BY Constants DEF Init, PruneKnows, OneAtATime, IdleTask
  <2>2. NoLockout
    BY InSlots DEF Init, NoLockout, InstalledAuthenticates
  <2> QED BY <2>1, <2>2, TypeInit DEF LockoutInv
<1>2. LockoutInv /\ [Next]_vars => LockoutInv'
  <2> SUFFICES ASSUME LockoutInv, [Next]_vars PROVE LockoutInv'
    OBVIOUS
  <2>1. TypeInv' /\ PruneKnows'
    BY TypeStep, PruneStep DEF LockoutInv
  <2>2. CASE Undisturbed
    BY <2>1, <2>2, LockoutStep DEF LockoutInv
  <2>3. CASE ~Undisturbed
    BY <2>1, <2>3, Frames DEF LockoutInv, OneAtATime, NoLockout, Undisturbed, Without
  <2> QED BY <2>2, <2>3
<1>3. LockoutInv => NoLockout
  BY DEF LockoutInv
<1> QED BY <1>1, <1>2, <1>3, PTL DEF Spec

-----------------------------------------------------------------------------
(* What each operation does to the queue.                                   *)

(* A claim, its release and its ageing mark the reservations they find.     *)
MarkOf(q, rows, claim) == q.claim = claim /\ \E r \in rows : q.cert = r.cert /\ q.id = r.id

LEMMA UpdateMoves ==
  ASSUME QueueFits, NEW rows, NEW claim, rows \in SUBSET Pending, claim \in {"free", "held", "stale"},
         retired' = Update(rows, claim, FALSE)
  PROVE  /\ \A q \in retired' : q.revoked => q \in retired
         /\ \A r \in Pending \ rows : r \in Pending'
         /\ \A r \in rows : \E q \in Pending' : q.cert = r.cert /\ q.id = r.id /\ q.claim = claim
         /\ \A q \in Pending' :
              q \in Pending \ rows \/ MarkOf(q, rows, claim)
         /\ (\A r, q \in Pending : r.cert = q.cert => r = q) => \A r, q \in Pending' : r.cert = q.cert => r = q
<1> DEFINE M(r) == Marked(r, claim, FALSE)
<1>r. rows \in SUBSET retired /\ Pending \in SUBSET retired /\ \A r \in Pending : ~r.revoked
  BY DEF Pending
<1>2. retired' = (retired \ rows) \cup {M(r) : r \in rows}
  BY Updates
<1>1. \A r \in rows : /\ M(r) \in retired' /\ M(r).cert = r.cert /\ M(r).id = r.id
                      /\ M(r).revoked = FALSE /\ M(r).claim = claim
  BY <1>r, <1>2, Marks DEF QueueFits
<1> HIDE DEF M
<1>3. \A q : q \in Pending' <=> q \in retired' /\ ~q.revoked
  BY DEF Pending
<1>4. \A q \in Pending' : q \in Pending \ rows \/ \E r \in rows : q = M(r)
  BY <1>2, <1>3 DEF Pending
<1>5. \A r \in rows : M(r) \in Pending'
  BY <1>1, <1>3
<1>6. ASSUME \A r, q \in Pending : r.cert = q.cert => r = q
      PROVE  \A r, q \in Pending' : r.cert = q.cert => r = q
  <2> SUFFICES ASSUME NEW r \in Pending', NEW q \in Pending', r.cert = q.cert PROVE r = q
    OBVIOUS
  <2>1. PICK a \in Pending : a.cert = r.cert /\ ((r = a /\ a \notin rows) \/ (r = M(a) /\ a \in rows))
    BY <1>1, <1>4
  <2>2. PICK b \in Pending : b.cert = q.cert /\ ((q = b /\ b \notin rows) \/ (q = M(b) /\ b \in rows))
    BY <1>1, <1>4
  <2>3. a = b
    BY <1>6, <2>1, <2>2
  <2> QED BY <2>1, <2>2, <2>3
<1>7. \A q \in retired' : q.revoked => q \in retired
  BY <1>1, <1>2
<1>8. \A r \in Pending \ rows : r \in Pending'
  BY <1>r, <1>2, <1>3
<1>9. \A r \in rows : \E q \in Pending' : q.cert = r.cert /\ q.id = r.id /\ q.claim = claim
  BY <1>1, <1>5
<1>10. \A q \in Pending' : q \in Pending \ rows \/ MarkOf(q, rows, claim)
  <2> SUFFICES ASSUME NEW q \in Pending', q \notin Pending \ rows
               PROVE  q.claim = claim /\ \E r \in rows : q.cert = r.cert /\ q.id = r.id
    BY DEF MarkOf
  <2>1. PICK r \in rows : q = M(r)
    BY <1>4
  <2>2. M(r).cert = r.cert /\ M(r).id = r.id /\ M(r).claim = claim
    BY <1>1
  <2> QED BY <2>1, <2>2
<1> QED BY <1>6, <1>7, <1>8, <1>9, <1>10

Remains(q, r, claim) == q \in Pending' /\ q.cert = r.cert /\ q.id = r.id /\ q.claim = claim

LEMMA UpdateKeeps ==
  ASSUME QueueFits, NEW rows, NEW claim, rows \in SUBSET Pending, claim \in {"free", "held", "stale"},
         retired' = Update(rows, claim, FALSE)
  PROVE  /\ \A r \in Pending \ rows : Remains(r, r, r.claim)
         /\ \A r \in rows : \E q : Remains(q, r, claim)
<1>r. rows \in SUBSET retired
  BY DEF Pending
<1>1. retired' = (retired \ rows) \cup {Marked(p, claim, FALSE) : p \in rows}
  BY Updates
<1>2. ASSUME NEW r \in rows PROVE Remains(Marked(r, claim, FALSE), r, claim)
  <2> DEFINE q == Marked(r, claim, FALSE)
  <2>1. q \in retired'
    BY <1>1, <1>2
  <2>2. q.cert = r.cert /\ q.id = r.id /\ q.revoked = FALSE /\ q.claim = claim
    BY <1>r, Marks DEF QueueFits
  <2> HIDE DEF q
  <2>3. Remains(q, r, claim)
    BY <2>1, <2>2 DEF Pending, Remains
  <2> QED BY <2>3 DEF q
<1>3. ASSUME NEW r \in Pending \ rows PROVE Remains(r, r, r.claim)
  BY <1>1 DEF Pending, Remains
<1> QED BY <1>2, <1>3

(* A stamp ends the reservations of one certificate. *)
LEMMA StampMoves ==
  ASSUME QueueFits, NEW c, retired' = (retired \ {r \in Pending : r.id = c}) \cup {[r EXCEPT !.revoked = TRUE] : r \in {r \in Pending : r.id = c}}
  PROVE  /\ \A q \in retired' : q.revoked => q \in retired \/ \E r \in Pending : r.id = c /\ q.cert = r.cert
         /\ Pending' = {r \in Pending : r.id # c}
<1> DEFINE rows == {r \in Pending : r.id = c}
           M(r) == [r EXCEPT !.revoked = TRUE]
<1>r. rows \in SUBSET retired /\ rows \in SUBSET Pending
  BY DEF Pending
<1>1. \A r \in rows : M(r).cert = r.cert /\ M(r).revoked = TRUE
  BY <1>r, StampFits
<1>2. retired' = (retired \ rows) \cup {M(r) : r \in rows}
  OBVIOUS
<1> HIDE DEF M
<1>3. Pending' = {q \in retired' : ~q.revoked}
  BY DEF Pending
<1> QED BY <1>r, <1>1, <1>2, <1>3 DEF Pending

(* What leaves the slots is reserved, with the id it had there. *)
LeftBy(q, ds, source) == \E d \in ds : d[1] # None /\ q = Retired(d[1], d[2], source)

LEMMA DisplaceMoves ==
  ASSUME QueueFits, NEW ds, NEW source, NEW gone \in SUBSET retired, retired' = Displace(ds, source) \ gone
  PROVE  /\ \A q \in retired' : q.revoked => q \in retired
         /\ \A r \in Pending \ gone : r \in Pending'
         /\ \A d \in ds : d[1] # None /\ (\A r \in gone : r.cert # d[1]) =>
              \E q \in Pending' : q.cert = d[1] /\ q.id = d[2]
         /\ \A q \in Pending' : q \in Pending \ gone \/ LeftBy(q, ds, source)
<1>1. Displace(ds, source) = retired \cup {Retired(d[1], d[2], source) : d \in {e \in ds : e[1] # None}}
  BY DEF Displace
<1>2. \A c, id : Retired(c, id, source).cert = c /\ Retired(c, id, source).id = id
                /\ Retired(c, id, source).revoked = FALSE
  BY DEF Retired
<1> HIDE DEF Retired
<1>3. \A q : q \in Pending' <=> q \in retired' /\ ~q.revoked
  BY DEF Pending
<1>4. ASSUME NEW d \in ds, d[1] # None, \A r \in gone : r.cert # d[1]
      PROVE  \E q \in Pending' : q.cert = d[1] /\ q.id = d[2]
  <2>1. Retired(d[1], d[2], source) \in retired'
    BY <1>1, <1>2, <1>4
  <2> QED BY <1>2, <1>3, <2>1
<1> QED BY <1>1, <1>2, <1>3, <1>4 DEF Pending, LeftBy

(* What leaves the slots when a renewal's certificate enters them. *)
LEMMA SwapMoves ==
  ASSUME TypeInv, NEW t \in Requests, Swap(t), Commits(t)
  PROVE  /\ row'.cur = task[t].cert /\ row'.curId = task[t].cert
         /\ OnCurrent(t) =>
              /\ row'.prev = row.cur /\ row'.prevId = row.curId
              /\ retired' = Displace({<<row.prev, row.prevId>>}, "prior_slot")
         /\ ~OnCurrent(t) =>
              /\ row'.prev = row.prev /\ row'.prevId = row.prevId
              /\ retired' = Displace({<<row.cur, row.curId>>}, "orphan_cleanup")
<1>r. row \in RowType /\ task[t].seen = row
  BY DEF TypeInv, RowFits, Rows, Commits
<1>1. CASE OnCurrent(t)
  <2>1. Renewed(t) = Rotated(row, task[t].cert)
    BY <1>r, <1>1, RenewedRow
  <2>2. /\ row' = [cur |-> task[t].cert, curId |-> task[t].cert, prev |-> row.cur, prevId |-> row.curId, until |-> done.windows + 1]
        /\ retired' = Displace({<<row.prev, row.prevId>>}, "prior_slot")
    BY <2>1 DEF Commits, Commit, Rotated
  <2> QED BY <1>1, <2>2
<1>2. CASE ~OnCurrent(t)
  <2>1. Renewed(t) = Recovered(row, task[t].cert)
    BY <1>r, <1>2, RenewedRow
  <2>2. /\ row' = [row EXCEPT !.cur = task[t].cert, !.curId = task[t].cert]
        /\ retired' = Displace({<<row.cur, row.curId>>}, "orphan_cleanup")
    BY <2>1 DEF Commits, Commit, Recovered
  <2> QED BY <1>r, <1>2, <2>2 DEF RowType
<1> QED BY <1>1, <1>2

(* What leaves the slots when a certificate is installed by hand, and the   *)
(* reservations of that certificate that it ends.                           *)
LEMMA InstallMoves ==
  ASSUME TypeInv, Install
  PROVE  LET c == task[Admin].cert
             rows == {r \in Pending : r.cert = c}
             displaced == {<<row.cur, row.curId>>} \cup (IF row.prev = c THEN {} ELSE {<<row.prev, row.prevId>>})
         IN  /\ c \in Certs /\ task[Admin].id \in {c, None}
             /\ \/ UNCHANGED <<row, retired, installed, returned>>
                \/ /\ c # row.cur /\ task[Admin].seen = row /\ (task[Admin].trusted => rows # {})
                   /\ \A r \in rows : Consumable(r)
                   /\ row'.cur = c /\ row'.prev = None /\ row'.prevId = None
                   /\ \/ /\ row'.curId = c
                         /\ task[Admin].id = c \/ (c = row.prev /\ row.prevId = c) \/ \E r \in rows : r.id = c
                      \/ /\ row'.curId = None /\ task[Admin].id = None /\ (c = row.prev => row.prevId = None)
                         /\ \A r \in rows : r.id = None
                   /\ retired' = Displace(displaced, "prior_slot") \ rows
                   /\ installed' = c /\ returned' = returned \cup {c}
                \/ /\ c = row.cur /\ task[Admin].seen = row /\ UNCHANGED <<retired, installed, returned>>
                   /\ row'.cur = row.cur /\ row'.prev = row.prev /\ row'.prevId = row.prevId
                   /\ row'.curId \in {task[Admin].id, row.curId} /\ (row.curId = c => row'.curId = c)
                   /\ row'.until = row.until /\ rows = {}
<1> DEFINE s == task[Admin].seen
           c == task[Admin].cert
           id == task[Admin].id
           rows == {r \in Pending : r.cert = c}
           sources == {r \in rows : Consumable(r) /\ r.id # None}
           known == IF id # None THEN id ELSE IF c = s.prev THEN s.prevId ELSE None
           given == IF known = None THEN CarriedId(sources) ELSE known
           displaced == {<<s.cur, s.curId>>} \cup (IF s.prev = c THEN {} ELSE {<<s.prev, s.prevId>>})
           wins == /\ row = s
                   /\ \A r \in rows : c # s.cur /\ Consumable(r)
                   /\ task[Admin].trusted => sources # {}
           taken == /\ row' = [cur |-> c, curId |-> given, prev |-> None, prevId |-> None, until |-> 0]
                    /\ retired' = Displace(displaced, "prior_slot") \ rows
                    /\ installed' = c /\ returned' = returned \cup {c}
           noted == /\ row' = [s EXCEPT !.curId = IF id # None THEN id ELSE s.curId]
                    /\ UNCHANGED <<retired, installed, returned>>
<1>r. s \in Rows /\ c \in Certs /\ id \in {c, None} /\ None \notin Certs
  BY Constants DEF Install, TypeInv, TasksFit, Fits
<1>1. \/ UNCHANGED <<row, retired, installed, returned>>
      \/ wins /\ c # s.cur /\ taken
      \/ wins /\ c = s.cur /\ noted
  BY DEF Install
<1>2. \A r \in rows : r.id \in {c, None}
  BY DEF Pending, TypeInv, QueueFits, Retirement
<1>3. /\ given \in {c, None}
      /\ given = None => id = None /\ (c = s.prev => s.prevId = None) /\ sources = {}
      /\ given = c => id = c \/ (c = s.prev /\ s.prevId = c) \/ sources # {}
  <2>1. sources # {} => CarriedId(sources) = c
    <3>1. sources # {} => (CHOOSE r \in sources : TRUE) \in sources
      OBVIOUS
    <3> QED BY <1>2, <3>1 DEF CarriedId
  <2>2. sources = {} => CarriedId(sources) = None
    BY DEF CarriedId
  <2>3. s.prevId \in {s.prev, None}
    BY <1>r DEF Rows
  <2> HIDE DEF s, c, id, rows, sources
  <2>4. /\ known \in {c, None} /\ (known = None => id = None /\ (c = s.prev => s.prevId = None))
        /\ known = c => id = c \/ (c = s.prev /\ s.prevId = c)
    BY <1>r, <2>3
  <2> HIDE DEF known
  <2> QED BY <2>1, <2>2, <2>4, <1>r
<1>4. ASSUME wins, c # s.cur, taken
      PROVE  /\ row'.cur = c /\ row'.prev = None /\ row'.prevId = None
             /\ \/ /\ row'.curId = c
                   /\ id = c \/ (c = row.prev /\ row.prevId = c) \/ \E r \in rows : r.id = c
                \/ /\ row'.curId = None /\ id = None /\ (c = row.prev => row.prevId = None)
                   /\ \A r \in rows : r.id = None
  <2>1. row' = [cur |-> c, curId |-> given, prev |-> None, prevId |-> None, until |-> 0] /\ row = s
    BY <1>4
  <2>2. row'.cur = c /\ row'.prev = None /\ row'.prevId = None /\ row'.curId = given
    <3> HIDE DEF c, given
    <3> QED BY <2>1
  <2>3. (sources = {} => \A r \in rows : r.id = None) /\ (sources # {} => \E r \in rows : r.id = c)
    BY <1>2, <1>4
  <2> HIDE DEF given, s, c, id, rows, sources
  <2> QED BY <1>3, <2>1, <2>2, <2>3
<1>5. ASSUME wins, c = s.cur, noted
      PROVE  /\ row'.cur = row.cur /\ row'.prev = row.prev /\ row'.prevId = row.prevId
             /\ row'.curId \in {id, row.curId} /\ (row.curId = c => row'.curId = c)
             /\ row'.until = row.until /\ rows = {}
  <2> DEFINE j == IF id # None THEN id ELSE s.curId
             w == [s EXCEPT !.curId = j]
  <2>1. row = s /\ row' = w
    BY <1>5
  <2>2. w.cur = s.cur /\ w.prev = s.prev /\ w.prevId = s.prevId /\ w.curId = j /\ w.until = s.until
    BY <1>r DEF Rows, RowType
  <2>3. rows = {}
    BY <1>5
  <2>4. j \in {id, s.curId} /\ (s.curId = c => j = c)
    BY <1>r
  <2> HIDE DEF w, j, s, rows
  <2> QED BY <2>1, <2>2, <2>3, <2>4
<1>6. wins => row = s /\ (\A r \in rows : Consumable(r)) /\ (task[Admin].trusted => rows # {})
  OBVIOUS
<1>7. wins /\ taken => /\ retired' = Displace({<<row.cur, row.curId>>} \cup (IF row.prev = c THEN {} ELSE {<<row.prev, row.prevId>>}), "prior_slot") \ rows
                       /\ installed' = c /\ returned' = returned \cup {c}
  OBVIOUS
<1>8. noted => UNCHANGED <<retired, installed, returned>>
  OBVIOUS
<1> HIDE DEF wins, taken, noted, sources, known, given, displaced
<1> QED BY <1>r, <1>1, <1>4, <1>5, <1>6, <1>7, <1>8

(* What the thread that acts is doing.                                      *)
Acts(t) ==
  \/ t \in Requests /\ (Ask(t) \/ Renewal(t))
  \/ Settling(t) \/ Crash(t)
  \/ t = Prune /\ Pruning
  \/ /\ t = Admin
     /\ \/ Administration
        \/ \E fp \in returned \cup {None, Spare}, id \in plan.handles \cup {None}, u \in BOOLEAN :
             AskAdmin(fp, id, u)

LEMMA OneActs ==
  ASSUME TypeInv, [Next]_vars
  PROVE  UNCHANGED task \/ \E t \in Threads : Acts(t) /\ \A u \in Threads \ {t} : task'[u] = task[u]
<1>r. task \in [Threads -> Task]
  BY DEF TypeInv, TasksFit
<1>t. ASSUME NEW t \in Threads, NEW y, Turns(t, y) PROVE \A u \in Threads \ {t} : task'[u] = task[u]
  BY <1>t, <1>r DEF Turns
<1>1. ASSUME NEW t \in Requests, Ask(t) \/ Renewal(t) PROVE \A u \in Threads \ {t} : task'[u] = task[u]
  BY <1>1, RenewalMoves
<1>2. ASSUME NEW t \in Threads, Settling(t) PROVE \A u \in Threads \ {t} : task'[u] = task[u]
  BY <1>2, SettlingMoves
<1>3. ASSUME NEW t \in Threads, Crash(t) PROVE \A u \in Threads \ {t} : task'[u] = task[u]
  BY <1>3, <1>t DEF Crash
<1>4. ASSUME Pruning PROVE \A u \in Threads \ {Prune} : task'[u] = task[u]
  <2>1. PICK y : Turns(Prune, y)
    BY <1>4 DEF Pruning, PruneStart, Retire, Drain, Go
  <2> QED BY <2>1, <1>t, Constants
<1>5. ASSUME \/ Administration
             \/ \E fp \in returned \cup {None, Spare}, id \in plan.handles \cup {None}, u \in BOOLEAN :
                  AskAdmin(fp, id, u)
      PROVE  \A u \in Threads \ {Admin} : task'[u] = task[u]
  <2>1. PICK y : Turns(Admin, y)
    BY <1>5 DEF Administration, AskAdmin, Clash, IdClash, Look, Verify, Install, Go, Drop
  <2> QED BY <2>1, <1>t, Constants
<1>6. GiveUp \/ Edit \/ Lapse \/ Age \/ (\E c \in Certs : Finish(c)) \/ UNCHANGED vars => UNCHANGED task
  BY DEF GiveUp, Edit, Lapse, Age, Finish, vars
<1> QED BY <1>1, <1>2, <1>3, <1>4, <1>5, <1>6, Constants DEF Next, Acts

LEMMA SignMoves ==
  ASSUME TypeInv, NEW t \in Requests, Sign(t)
  PROVE  \/ UNCHANGED ca /\ task'[t].pc = "reply" /\ task'[t].cert = task[t].cert
         \/ \E d \in Certs : /\ ca[d] = "none" /\ ca'[d] = "active" /\ \A e \in Certs \ {d} : ca'[e] = ca[e]
                             /\ task'[t].cert = d /\ task'[t].pc \in Holding
<1>r. ca \in [Certs -> {"none", "active", "pending", "revoked"}] /\ task \in [Threads -> Task] /\ t \in Threads
  BY Constants DEF TypeInv, RestFits, TasksFit
<1>1. CASE Go(t, "reply") /\ UNCHANGED ca
  <2>1. task'[t].pc = "reply" /\ task'[t].cert = task[t].cert
    BY <1>1, <1>r DEF Go, Turns, Task
  <2> QED BY <1>1, <2>1
<1>2. CASE ~(Go(t, "reply") /\ UNCHANGED ca)
  <2>2. PICK d \in Certs, pc \in {"swap", "direct"} :
          ca[d] = "none" /\ Becomes(d, "active") /\ Turns(t, [task[t] EXCEPT !.cert = d, !.pc = pc])
    BY <1>2 DEF Sign
  <2>3. task'[t].cert = d /\ task'[t].pc = pc
    BY <2>2, <1>r DEF Turns, Task
  <2>4. ca'[d] = "active" /\ \A e \in Certs \ {d} : ca'[e] = ca[e]
    BY <2>2, <1>r DEF Becomes
  <2> QED BY <2>2, <2>3, <2>4 DEF Holding
<1> QED BY <1>1, <1>2

(* What a step does at the CA. *)
LEMMA AuthorityMoves ==
  ASSUME TypeInv, [Next]_vars, NEW c \in Certs
  PROVE  /\ ca[c] = "revoked" => ca'[c] = "revoked"
         /\ ca[c] # "none" => ca'[c] # "none"
         /\ ca[c] # "active" /\ ca'[c] = "active" =>
              ca[c] = "none" /\ \E t \in Requests : Sign(t) /\ task'[t].cert = c /\ task'[t].pc \in Holding
         /\ ca[c] = "active" /\ ca'[c] # "active" =>
              \/ \E t \in Threads : Delete(t) /\ task[t].claimed = c /\ task'[t].pc # "release"
              \/ \E t \in Requests : Direct(t) /\ task[t].cert = c
<1>r. ca \in [Certs -> {"none", "active", "pending", "revoked"}] /\ task \in [Threads -> Task]
  BY DEF TypeInv, RestFits, TasksFit
<1>b. ASSUME NEW d \in Certs, NEW v, Becomes(d, v) PROVE ca'[d] = v /\ \A e \in Certs \ {d} : ca'[e] = ca[e]
  BY <1>b, <1>r DEF Becomes
<1>a. ASSUME NEW d \in Certs, NEW v \in Accepted(d) \cup {ca[d]}, Becomes(d, v)
      PROVE  /\ ca[c] = "revoked" => ca'[c] = "revoked"
             /\ ca[c] # "none" => ca'[c] # "none"
             /\ ca[c] # "active" => ca'[c] # "active"
             /\ ca'[c] # ca[c] => d = c
  BY <1>a, <1>b DEF Accepted
<1>1. ASSUME NEW t \in Threads, Delete(t)
      PROVE  /\ ca[c] = "revoked" => ca'[c] = "revoked"
             /\ ca[c] # "none" => ca'[c] # "none"
             /\ ca[c] # "active" => ca'[c] # "active"
             /\ ca'[c] # ca[c] => task[t].claimed = c /\ task'[t].pc # "release"
  <2>1. task[t].claimed \in Certs
    BY <1>1, Constants DEF Delete, TypeInv, TasksFit, Fits, Working, Task
  <2>2. \/ UNCHANGED ca
        \/ /\ \E v \in Accepted(task[t].claimed) \cup {ca[task[t].claimed]} : Becomes(task[t].claimed, v)
           /\ Go(t, "stamp") \/ NextClaim(t)
    BY <1>1 DEF Delete
  <2>3. Go(t, "stamp") \/ NextClaim(t) => task'[t].pc # "release"
    BY <1>r DEF Go, NextClaim, Turns, Task
  <2> QED BY <2>1, <2>2, <2>3, <1>a
<1>2. ASSUME NEW t \in Requests, Direct(t)
      PROVE  /\ ca[c] = "revoked" => ca'[c] = "revoked"
             /\ ca[c] # "none" => ca'[c] # "none"
             /\ ca[c] # "active" => ca'[c] # "active"
             /\ ca'[c] # ca[c] => task[t].cert = c
  <2>1. task[t].cert \in Certs
    BY <1>2, Constants DEF Direct, TypeInv, TasksFit, Fits, Holding
  <2>2. UNCHANGED ca \/ \E v \in Accepted(task[t].cert) \cup {ca[task[t].cert]} : Becomes(task[t].cert, v)
    BY <1>2 DEF Direct
  <2> QED BY <2>1, <2>2, <1>a
<1>3. ASSUME NEW t \in Requests, Sign(t)
      PROVE  \/ UNCHANGED ca
             \/ \E d \in Certs : /\ ca[d] = "none" /\ ca'[d] = "active" /\ \A e \in Certs \ {d} : ca'[e] = ca[e]
                                 /\ task'[t].cert = d /\ task'[t].pc \in Holding
  BY <1>3, SignMoves
<1>4. ASSUME NEW d \in Certs, Finish(d)
      PROVE  /\ ca[c] = "revoked" => ca'[c] = "revoked"
             /\ ca[c] # "none" => ca'[c] # "none"
             /\ ca[c] # "active" => ca'[c] # "active"
             /\ ca[c] = "active" => ca'[c] = "active"
  BY <1>4, <1>b DEF Finish
<1> HIDE DEF Acts
<1> QED BY <1>1, <1>2, <1>3, <1>4, Frames

-----------------------------------------------------------------------------
(* The books.                                                               *)

LEMMA RenewalPc ==
  ASSUME TypeInv, NEW t \in Requests, Ask(t) \/ Renewal(t)
  PROVE  /\ task'[t].pc \in Fresh \cup Holding \cup {"reply", "settle", "idle"}
         /\ task'[t].pc \in Holding => Sign(t) \/ Swap(t) \/ Reclaim(t)
<1> DEFINE x == task[t]
<1>x. task \in [Threads -> Task] /\ x \in Task /\ t \in Threads
  BY Constants DEF TypeInv, TasksFit
<1>t. ASSUME NEW y, Turns(t, y) PROVE task'[t] = y
  BY <1>t, <1>x DEF Turns
<1> USE DEF Fresh, Holding
<1>g. ASSUME NEW pc \in {"reply", "reclaim", "direct"}, Go(t, pc) PROVE task'[t].pc = pc
  BY <1>g, <1>x DEF Go, Turns, Task
<1>1. CASE Ask(t) \/ Reply(t)
  <2>1. IdleTask.pc = "idle"
    BY DEF IdleTask
  <2>2. (Ask(t) => task'[t].pc = "sent") /\ (Reply(t) => task'[t] = IdleTask)
    BY RenewalMoves
  <2> QED BY <1>1, <2>1, <2>2
<1>2. CASE Identify(t)
  <2>1. PICK slot \in {"none", "current", "grace"}, pc \in {"reply", "read"} : Turns(t, [x EXCEPT !.slot = slot, !.pc = pc])
    BY <1>2 DEF Identify, Slot
  <2>2. [x EXCEPT !.slot = slot, !.pc = pc].pc = pc
    BY <1>x DEF Task
  <2> QED BY <2>1, <2>2, <1>t
<1>3. CASE Read(t)
  <2>1. PICK pc \in {"reply", "sign"} : Turns(t, [x EXCEPT !.seen = row, !.pc = pc])
    BY <1>3 DEF Read
  <2>2. [x EXCEPT !.seen = row, !.pc = pc].pc = pc
    BY <1>x DEF Task
  <2> QED BY <2>1, <2>2, <1>t
<1>4. CASE Sign(t)
  <2>2. ASSUME NEW c, NEW pc \in {"swap", "direct"}, Turns(t, [x EXCEPT !.cert = c, !.pc = pc])
        PROVE  task'[t].pc = pc
    BY <2>2, <1>x DEF Turns, Task
  <2>1. Go(t, "reply") \/ \E c : Turns(t, [x EXCEPT !.cert = c, !.pc = "swap"]) \/ Turns(t, [x EXCEPT !.cert = c, !.pc = "direct"])
    BY <1>4 DEF Sign
  <2>3. task'[t].pc \in {"reply", "swap", "direct"}
    <3> HIDE DEF x
    <3> QED BY <2>1, <2>2, <1>g
  <2> QED BY <2>3, <1>4
<1>5. CASE Swap(t)
  <2>1. \/ Go(t, "reclaim")
        \/ Turns(t, [x EXCEPT !.pc = "settle", !.ok = TRUE, !.todo = {Renewed(t).out[2]} \ {None}])
    BY <1>5 DEF Swap
  <2>2. [x EXCEPT !.pc = "settle", !.ok = TRUE, !.todo = {Renewed(t).out[2]} \ {None}].pc = "settle"
    BY <1>x DEF Task
  <2>3. task'[t].pc \in {"settle", "reclaim"}
    BY <2>1, <2>2, <1>g, <1>t
  <2> QED BY <2>3, <1>5
<1>6. CASE Reclaim(t)
  <2>1. Go(t, "direct") \/ Turns(t, [x EXCEPT !.pc = "settle", !.todo = {x.cert}])
    BY <1>6 DEF Reclaim
  <2>2. [x EXCEPT !.pc = "settle", !.todo = {x.cert}].pc = "settle"
    BY <1>x DEF Task
  <2>3. task'[t].pc \in {"settle", "direct"}
    BY <2>1, <2>2, <1>g, <1>t
  <2> QED BY <2>3, <1>6
<1>7. CASE Direct(t)
  BY <1>7, <1>g DEF Direct
<1> QED BY <1>1, <1>2, <1>3, <1>4, <1>5, <1>6, <1>7 DEF Renewal

LEMMA PrunePc ==
  ASSUME TypeInv, Pruning
  PROVE  task'[Prune].pc \in {"retire", "drain", "settle"}
<1> DEFINE x == task[Prune]
<1>x. task \in [Threads -> Task] /\ x \in Task /\ Prune \in Threads
  BY Constants DEF TypeInv, TasksFit
<1>t. ASSUME NEW y, Turns(Prune, y) PROVE task'[Prune] = y
  BY <1>t, <1>x DEF Turns
<1>1. CASE PruneStart
  <2>1. PICK pc \in {"retire", "drain"} : Turns(Prune, [IdleTask EXCEPT !.pc = pc, !.seen = row, !.poll = TRUE])
    BY <1>1 DEF PruneStart
  <2>2. [IdleTask EXCEPT !.pc = pc, !.seen = row, !.poll = TRUE].pc = pc
    BY DEF IdleTask
  <2> QED BY <2>1, <2>2, <1>t
<1>2. CASE Retire
  BY <1>2, <1>x DEF Retire, Go, Turns, Task
<1>3. CASE Drain
  <2>1. PICK todo : Turns(Prune, [x EXCEPT !.pc = "settle", !.todo = todo])
    BY <1>3 DEF Drain
  <2>2. [x EXCEPT !.pc = "settle", !.todo = todo].pc = "settle"
    BY <1>x DEF Task
  <2> QED BY <2>1, <2>2, <1>t
<1> QED BY <1>1, <1>2, <1>3 DEF Pruning

(* What the administrator's request knows from one call to the next. *)
LEMMA AdminPc ==
  ASSUME TypeInv,
         \/ Administration
         \/ \E fp \in returned \cup {None, Spare}, id \in plan.handles \cup {None}, u \in BOOLEAN :
              AskAdmin(fp, id, u)
  PROVE  task'[Admin].pc \in Asking \cup {"idle", "settle"}
<1> DEFINE x == task[Admin]
<1>x. task \in [Threads -> Task] /\ x \in Task /\ Admin \in Threads
  BY Constants DEF TypeInv, TasksFit
<1>t. ASSUME NEW y, Turns(Admin, y) PROVE task'[Admin] = y
  BY <1>t, <1>x DEF Turns
<1> USE DEF Asking
<1>d. Drop => task'[Admin].pc = "idle"
  BY <1>t DEF Drop, IdleTask
<1>g. ASSUME NEW pc, Go(Admin, pc) PROVE task'[Admin].pc = pc
  BY <1>g, <1>x DEF Go, Turns, Task
<1>1. ASSUME NEW fp, NEW id, NEW u, AskAdmin(fp, id, u) PROVE task'[Admin].pc = "clash"
  <2>1. Turns(Admin, [IdleTask EXCEPT !.pc = "clash", !.cert = fp, !.id = id, !.unknown = u])
    BY <1>1 DEF AskAdmin
  <2>2. [IdleTask EXCEPT !.pc = "clash", !.cert = fp, !.id = id, !.unknown = u].pc = "clash"
    BY DEF IdleTask
  <2> QED BY <2>1, <2>2, <1>t
<1>2. CASE Clash
  <2>1. Drop \/ \E b : Turns(Admin, [x EXCEPT !.pc = "idClash", !.trusted = b])
    BY <1>2 DEF Clash
  <2>2. ASSUME NEW b, Turns(Admin, [x EXCEPT !.pc = "idClash", !.trusted = b]) PROVE task'[Admin].pc = "idClash"
    BY <2>2, <1>x DEF Turns, Task
  <2> HIDE DEF x
  <2> QED BY <2>1, <2>2, <1>d
<1>3. CASE IdClash
  BY <1>3, <1>d, <1>g DEF IdClash
<1>4. CASE Look
  <2>1. Drop \/ \E c : \/ Turns(Admin, [x EXCEPT !.cert = c, !.seen = row, !.pc = "install"])
                      \/ Turns(Admin, [x EXCEPT !.cert = c, !.seen = row, !.pc = "verify"])
    BY <1>4 DEF Look
  <2>2. ASSUME NEW c, NEW pc, Turns(Admin, [x EXCEPT !.cert = c, !.seen = row, !.pc = pc])
        PROVE  task'[Admin].pc = pc
    BY <2>2, <1>x DEF Turns, Task
  <2> HIDE DEF x
  <2> QED BY <2>1, <2>2, <1>d
<1>5. CASE Verify
  BY <1>5, <1>d, <1>g DEF Verify
<1>6. CASE Install
  <2>1. Drop \/ \E todo : Turns(Admin, [x EXCEPT !.pc = "settle", !.todo = todo])
    BY <1>6 DEF Install
  <2>2. ASSUME NEW todo, Turns(Admin, [x EXCEPT !.pc = "settle", !.todo = todo]) PROVE task'[Admin].pc = "settle"
    BY <2>2, <1>x DEF Turns, Task
  <2> HIDE DEF x
  <2> QED BY <2>1, <2>2, <1>d
<1> QED BY <1>1, <1>2, <1>3, <1>4, <1>5, <1>6 DEF Administration

LEMMA StampStep ==
  ASSUME TypeInv, StampIsTrue, [Next]_vars
  PROVE  StampIsTrue'
<1>r. task \in [Threads -> Task] /\ \A t \in Threads : task[t].pc \in Working => task[t].claimed \in Certs
  BY Constants DEF TypeInv, TasksFit, Fits, Task
<1>k. ca \in [Certs -> {"none", "active", "pending", "revoked"}]
  BY DEF TypeInv, RestFits
<1>1. ASSUME NEW t \in Threads, task'[t] = task[t], task[t].pc = "stamp" PROVE ca'[task'[t].claimed] = "revoked"
  <2>1. task[t].claimed \in Certs /\ ca[task[t].claimed] = "revoked"
    BY <1>1, <1>r DEF StampIsTrue, Working
  <2> QED BY <1>1, <2>1, AuthorityMoves
<1>2. ASSUME NEW t \in Threads, Acts(t), task'[t].pc = "stamp" PROVE ca'[task'[t].claimed] = "revoked"
  <2>g. ASSUME NEW pc, Go(t, pc) PROVE task'[t].pc = pc /\ task'[t].claimed = task[t].claimed
    BY <2>g, <1>r DEF Go, Turns, Task
  <2>n. NextClaim(t) => task'[t].pc = "settle"
    BY <1>r DEF NextClaim, Turns, Task
  <2>1. CASE Status(t)
    <3>1. task[t].claimed \in Certs
      BY <2>1, <1>r DEF Status, Working
    <3>2. Go(t, "stamp") /\ ca[task[t].claimed] = "revoked"
      BY <2>1, <1>2, <2>g, <2>n DEF Status
    <3>3. UNCHANGED ca
      BY <2>1 DEF Status
    <3> QED BY <3>2, <3>3, <2>g
  <2>2. CASE Delete(t)
    <3>1. task[t].claimed \in Certs
      BY <2>2, <1>r DEF Delete, Working
    <3>2. Go(t, "stamp") /\ Becomes(task[t].claimed, "revoked")
      BY <2>2, <1>2, <2>g, <2>n DEF Delete, Gone
    <3> QED BY <3>1, <3>2, <2>g, <1>k DEF Becomes
  <2>3. ASSUME NEW c \in Certs, Claim(t, c) PROVE FALSE
    <3>1. PICK y : Turns(t, y) /\ y.pc # "stamp"
      <4>1. CASE Turns(t, [task[t] EXCEPT !.todo = task[t].todo \ {c}])
        <5>1. [task[t] EXCEPT !.todo = task[t].todo \ {c}].pc = "settle"
          BY <2>3, <1>r DEF Claim, Task
        <5> QED BY <4>1, <5>1
      <4>2. ASSUME NEW pc, NEW d, Turns(t, [task[t] EXCEPT !.todo = task[t].todo \ {c}, !.pc = pc, !.claimed = d]), pc # "stamp"
            PROVE  \E y : Turns(t, y) /\ y.pc # "stamp"
        <5>1. [task[t] EXCEPT !.todo = task[t].todo \ {c}, !.pc = pc, !.claimed = d].pc = pc
          BY <1>r DEF Task
        <5> QED BY <4>2, <5>1
      <4> QED BY <2>3, <4>1, <4>2 DEF Claim
    <3> QED BY <3>1, <1>2, <1>r DEF Turns
  <2>4. ~Stamp(t) /\ ~Release(t)
    BY <1>2, <2>n DEF Stamp, Release
  <2>5. ~Settled(t) /\ ~Crash(t)
    BY <1>2, <2>g, <1>r DEF Settled, Crash, Turns, IdleTask
  <2>6. ~(t \in Requests /\ (Ask(t) \/ Renewal(t)))
    BY <1>2, RenewalPc DEF Fresh, Holding
  <2>7. ~(t = Prune /\ Pruning)
    BY <1>2, PrunePc
  <2>8. ~(t = Admin /\ \/ Administration
                        \/ \E fp \in returned \cup {None, Spare}, id \in plan.handles \cup {None}, u \in BOOLEAN :
                             AskAdmin(fp, id, u))
    BY <1>2, AdminPc DEF Asking
  <2> QED BY <1>2, <2>1, <2>2, <2>3, <2>4, <2>5, <2>6, <2>7, <2>8 DEF Acts, Settling
<1> HIDE DEF Acts
<1>3. ASSUME NEW t \in Threads, task'[t].pc = "stamp" PROVE ca'[task'[t].claimed] = "revoked"
  BY <1>1, <1>2, <1>3, OneActs
<1> QED BY <1>3 DEF StampIsTrue

LEMMA FreedStep ==
  ASSUME TypeInv, StampIsTrue, FreedIsDead, [Next]_vars
  PROVE  FreedIsDead'
<1>q. QueueFits /\ \A t \in Threads : task[t].pc \in Working => task[t].claimed \in Certs /\ task[t].claimed # None
  BY Constants DEF TypeInv, TasksFit, Fits, Task
<1>g. ASSUME NEW q \in retired', q.revoked, q \in retired \/ \E t \in Threads : Stamp(t) /\ q.cert = task[t].claimed
      PROVE  ca'[q.cert] = "revoked"
  <2>1. q.cert \in Certs /\ ca[q.cert] = "revoked"
    <3>1. q \in retired => q.cert \in Certs
      BY <1>q DEF QueueFits, Retirement
    <3> QED BY <1>g, <1>q, <3>1 DEF FreedIsDead, StampIsTrue, Stamp, Working
  <2> QED BY <2>1, AuthorityMoves
<1>e. ASSUME NEW ds, NEW source, NEW gone \in SUBSET retired, retired' = Displace(ds, source) \ gone
      PROVE  \A q \in retired' : q.revoked => q \in retired
  BY <1>q, <1>e, DisplaceMoves
<1>d. ASSUME NEW ds, NEW source, retired' = Displace(ds, source)
      PROVE  \A q \in retired' : q.revoked => q \in retired
  <2>1. {} \in SUBSET retired /\ Displace(ds, source) = Displace(ds, source) \ {}
    OBVIOUS
  <2> QED BY <1>d, <2>1, <1>e
<1>u. ASSUME NEW rows \in SUBSET Pending, NEW claim \in {"free", "held", "stale"}, retired' = Update(rows, claim, FALSE)
      PROVE  \A q \in retired' : q.revoked => q \in retired
  BY <1>q, <1>u, UpdateMoves
<1>1. ASSUME NEW t \in Threads, NEW c \in Certs, Claim(t, c) PROVE \A q \in retired' : q.revoked => q \in retired
  <2>1. Claimable(c) \in SUBSET Pending
    BY DEF Claimable
  <2>2. UNCHANGED retired \/ retired' = Update(Claimable(c), "held", FALSE)
    BY <1>1 DEF Claim
  <2> QED BY <2>1, <2>2, <1>u
<1>2. ASSUME NEW t \in Threads, Release(t) PROVE \A q \in retired' : q.revoked => q \in retired
  <2>1. UNCHANGED retired \/ retired' = Update({r \in Pending : r.id = task[t].claimed}, "free", FALSE)
    BY <1>2 DEF Release
  <2> QED BY <2>1, <1>u
<1>3. CASE Age
  <2>1. PICK old \in SUBSET Pending : retired' = Update(old, "stale", FALSE)
    BY <1>3 DEF Age
  <2>2. \A q \in retired' : q.revoked => q \in retired
    BY <2>1, <1>u
  <2> QED BY <2>2, <1>g DEF FreedIsDead
<1>4. ASSUME NEW t \in Threads, Stamp(t)
      PROVE  \A q \in retired' : q.revoked => q \in retired \/ q.cert = task[t].claimed
  <2>1. UNCHANGED retired \/ retired' = (retired \ {r \in Pending : r.id = task[t].claimed})
                                \cup {[r EXCEPT !.revoked = TRUE] : r \in {r \in Pending : r.id = task[t].claimed}}
    BY <1>4 DEF Stamp
  <2>2. \A q \in retired' : q.revoked => q \in retired \/ \E r \in Pending : r.id = task[t].claimed /\ q.cert = r.cert
    BY <2>1, <1>q, StampMoves
  <2>3. \A r \in Pending : r.id = task[t].claimed => r.cert = task[t].claimed
    BY <1>4, <1>q DEF Pending, QueueFits, Retirement, Stamp, Working
  <2> QED BY <2>2, <2>3
<1>5. ASSUME NEW t \in Requests, Swap(t) PROVE \A q \in retired' : q.revoked => q \in retired
  <2>1. UNCHANGED retired \/ \E ds, source : retired' = Displace(ds, source)
    BY <1>5, RenewedRow, SwapMoves
  <2> QED BY <2>1, <1>d
<1>6. ASSUME NEW t \in Requests, Reclaim(t) PROVE \A q \in retired' : q.revoked => q \in retired
  <2>1. Retired(task[t].cert, task[t].cert, "orphan_cleanup").revoked = FALSE
    BY DEF Retired
  <2> QED BY <1>6, <2>1 DEF Reclaim
<1>7. Retire => \A q \in retired' : q.revoked => q \in retired
  <2>1. Retire => UNCHANGED retired \/ \E ds, source : retired' = Displace(ds, source)
    BY DEF Retire
  <2> QED BY <2>1, <1>d
<1>8. Install => \A q \in retired' : q.revoked => q \in retired
  <2>1. {r \in Pending : r.cert = task[Admin].cert} \in SUBSET retired
    BY DEF Pending
  <2>2. Install => UNCHANGED retired
             \/ \E ds, source : retired' = Displace(ds, source) \ {r \in Pending : r.cert = task[Admin].cert}
    BY InstallMoves
  <2> QED BY <2>1, <2>2, <1>e
<1>9. \/ \A q \in retired' : q.revoked => q \in retired
      \/ \E t \in Threads : Stamp(t) /\ \A q \in retired' : q.revoked => q \in retired \/ q.cert = task[t].claimed
  <2>1. Age => \A q \in retired' : q.revoked => q \in retired
    <3>1. Age => \E old \in SUBSET Pending : retired' = Update(old, "stale", FALSE)
      BY DEF Age
    <3> QED BY <3>1, <1>u
  <2> QED BY <2>1, <1>1, <1>2, <1>4, <1>5, <1>6, <1>7, <1>8, Frames
<1> QED BY <1>9, <1>g DEF FreedIsDead

(* Where the books have a certificate that can be revoked.                  *)
Queued(c) == \E r \in Pending : r.cert = c /\ r.id = c

Booked(c) == InSlot(c) \/ InHand(c) \/ Queued(c)

LEMMA Slots == ASSUME NEW c PROVE InSlot(c) <=> (row.cur = c /\ row.curId = c) \/ (row.prev = c /\ row.prevId = c)
  BY DEF InSlot

LEMMA Hands == ASSUME NEW c PROVE InHand(c) <=> \E t \in Requests : task[t].cert = c /\ task[t].pc \in Holding
  BY DEF InHand, Holding

(* A reservation stays until its certificate is revoked or back in a slot. *)
LEMMA QueuedStays ==
  ASSUME TypeInv, StampIsTrue, [Next]_vars, NEW c \in Certs, Queued(c), ca[c] = "active"
  PROVE  Queued(c)' \/ InSlot(c)'
<1>q. QueueFits
  BY DEF TypeInv
<1>r. PICK r \in Pending : r.cert = c /\ r.id = c
  BY DEF Queued
<1>e. ASSUME NEW ds, NEW source, NEW gone \in SUBSET retired, retired' = Displace(ds, source) \ gone, r \notin gone
      PROVE  Queued(c)'
  BY <1>q, <1>r, <1>e, DisplaceMoves DEF Queued
<1>d. ASSUME NEW ds, NEW source, retired' = Displace(ds, source) PROVE Queued(c)'
  <2>1. {} \in SUBSET retired /\ Displace(ds, source) = Displace(ds, source) \ {} /\ r \notin {}
    OBVIOUS
  <2> QED BY <1>d, <2>1, <1>e
<1>u. ASSUME NEW rows \in SUBSET Pending, NEW claim \in {"free", "held", "stale"}, retired' = Update(rows, claim, FALSE)
      PROVE  Queued(c)'
  <2>1. /\ \A p \in Pending \ rows : Remains(p, p, p.claim)
        /\ \A p \in rows : \E q : Remains(q, p, claim)
    BY <1>q, <1>u, UpdateKeeps
  <2> QED BY <1>r, <2>1 DEF Queued, Remains
<1>1. ASSUME NEW t \in Threads, NEW d \in Certs, Claim(t, d) PROVE UNCHANGED retired \/ Queued(c)'
  <2>1. Claimable(d) \in SUBSET Pending
    BY DEF Claimable
  <2>2. UNCHANGED retired \/ retired' = Update(Claimable(d), "held", FALSE)
    BY <1>1 DEF Claim
  <2> QED BY <2>1, <2>2, <1>u
<1>2. ASSUME NEW t \in Threads, Release(t) PROVE UNCHANGED retired \/ Queued(c)'
  <2>1. UNCHANGED retired \/ retired' = Update({p \in Pending : p.id = task[t].claimed}, "free", FALSE)
    BY <1>2 DEF Release
  <2> QED BY <2>1, <1>u
<1>3. Age => Queued(c)'
  <2>1. Age => \E old \in SUBSET Pending : retired' = Update(old, "stale", FALSE)
    BY DEF Age
  <2> QED BY <2>1, <1>u
<1>4. ASSUME NEW t \in Threads, Stamp(t) PROVE UNCHANGED retired \/ Queued(c)'
  <2>1. UNCHANGED retired \/ retired' = (retired \ {p \in Pending : p.id = task[t].claimed})
                                \cup {[p EXCEPT !.revoked = TRUE] : p \in {p \in Pending : p.id = task[t].claimed}}
    BY <1>4 DEF Stamp
  <2>2. UNCHANGED retired \/ Pending' = {p \in Pending : p.id # task[t].claimed}
    BY <2>1, <1>q, StampMoves
  <2>3. r.id # task[t].claimed
    BY <1>4, <1>r DEF StampIsTrue, Stamp
  <2> QED BY <2>2, <2>3, <1>r DEF Queued
<1>5. ASSUME NEW t \in Requests, Swap(t) PROVE UNCHANGED retired \/ Queued(c)'
  <2>1. UNCHANGED retired \/ \E ds, source : retired' = Displace(ds, source)
    BY <1>5, RenewedRow, SwapMoves
  <2> QED BY <2>1, <1>d
<1>6. ASSUME NEW t \in Requests, Reclaim(t) PROVE Queued(c)'
  <2>1. r \in retired' /\ ~r.revoked
    BY <1>6, <1>r DEF Reclaim, Pending
  <2> QED BY <2>1, <1>r DEF Queued, Pending
<1>7. Retire => UNCHANGED retired \/ Queued(c)'
  <2>1. Retire => UNCHANGED retired \/ \E ds, source : retired' = Displace(ds, source)
    BY DEF Retire
  <2> QED BY <2>1, <1>d
<1>8. Install => UNCHANGED retired \/ Queued(c)' \/ InSlot(c)'
  <2> SUFFICES ASSUME Install, retired' # retired PROVE Queued(c)' \/ InSlot(c)'
    OBVIOUS
  <2> DEFINE rows == {p \in Pending : p.cert = task[Admin].cert}
  <2>1. rows \in SUBSET retired
    BY DEF Pending
  <2>2. PICK ds, source : retired' = Displace(ds, source) \ rows
    BY InstallMoves
  <2>3. CASE task[Admin].cert # c
    BY <2>1, <2>2, <2>3, <1>e, <1>r
  <2>4. CASE task[Admin].cert = c
    <3>1. row'.cur = c /\ row'.curId = c
      BY <2>4, <1>r, InstallMoves, Constants
    <3> QED BY <3>1 DEF InSlot
  <2> QED BY <2>3, <2>4
<1>9. CASE UNCHANGED retired
  <2>1. r \in Pending'
    BY <1>9, <1>r DEF Pending
  <2> QED BY <2>1, <1>r DEF Queued
<1> QED BY <1>1, <1>2, <1>3, <1>4, <1>5, <1>6, <1>7, <1>8, <1>9, Frames

(* What leaves a slot is reserved. *)
LEMMA SlottedStays ==
  ASSUME TypeInv, PruneKnows, [Next]_vars, NEW c \in Certs, InSlot(c)
  PROVE  Queued(c)' \/ InSlot(c)'
<1>q. QueueFits /\ c # None /\ row \in RowType
  BY Constants DEF TypeInv, RowFits, Rows
<1>e. ASSUME NEW ds, NEW source, NEW gone \in SUBSET retired, retired' = Displace(ds, source) \ gone,
             <<c, c>> \in ds, \A p \in gone : p.cert # c
      PROVE  Queued(c)'
  <2>1. \A d \in ds : d[1] # None /\ (\A r \in gone : r.cert # d[1]) =>
              \E q \in Pending' : q.cert = d[1] /\ q.id = d[2]
    BY <1>q, <1>e, DisplaceMoves
  <2>2. \E q \in Pending' : q.cert = <<c, c>>[1] /\ q.id = <<c, c>>[2]
    BY <1>q, <1>e, <2>1
  <2> QED BY <2>2 DEF Queued
<1>d. ASSUME NEW ds, NEW source, retired' = Displace(ds, source), <<c, c>> \in ds PROVE Queued(c)'
  <2>1. {} \in SUBSET retired /\ Displace(ds, source) = Displace(ds, source) \ {} /\ \A p \in {} : p.cert # c
    OBVIOUS
  <2> QED BY <1>d, <2>1, <1>e
<1>1. ASSUME NEW t \in Requests, Swap(t) PROVE UNCHANGED row \/ Queued(c)' \/ InSlot(c)'
  <2>1. CASE Commits(t)
    BY <1>1, <2>1, <1>d, SwapMoves, Slots DEF InSlot
  <2> QED BY <1>1, <2>1, RenewedRow
<1>2. Retire => UNCHANGED row \/ Queued(c)' \/ InSlot(c)'
  <2> SUFFICES ASSUME Retire, row' # row PROVE Queued(c)' \/ InSlot(c)'
    OBVIOUS
  <2> DEFINE w == [row EXCEPT !.prev = None, !.prevId = None, !.until = 0]
             s == task[Prune].seen
  <2>1. row' = w /\ row.prev = s.prev /\ row.until = s.until /\ retired' = Displace({<<s.prev, s.prevId>>}, "prior_slot")
        /\ task[Prune].pc = "retire"
    BY DEF Retire
  <2>2. w.cur = row.cur /\ w.curId = row.curId
    BY <1>q DEF RowType
  <2>3. row.prevId = s.prevId
    BY <2>1 DEF PruneKnows
  <2>4. CASE row.cur = c /\ row.curId = c
    <3> HIDE DEF w
    <3>1. row'.cur = c /\ row'.curId = c
      BY <2>1, <2>2, <2>4
    <3> QED BY <3>1 DEF InSlot
  <2>5. CASE row.prev = c /\ row.prevId = c
    <3>1. <<c, c>> \in {<<s.prev, s.prevId>>}
      BY <2>1, <2>3, <2>5
    <3> QED BY <2>1, <3>1, <1>d
  <2> QED BY <2>4, <2>5, Slots
<1>3. Install => UNCHANGED row \/ Queued(c)' \/ InSlot(c)'
  <2> SUFFICES ASSUME Install, row' # row PROVE Queued(c)' \/ InSlot(c)'
    OBVIOUS
  <2> DEFINE a == task[Admin].cert
             rows == {p \in Pending : p.cert = a}
             ds == {<<row.cur, row.curId>>} \cup (IF row.prev = a THEN {} ELSE {<<row.prev, row.prevId>>})
  <2>1. rows \in SUBSET retired /\ \A p \in rows : p.cert = a
    BY DEF Pending
  <2>2. \/ /\ a # row.cur /\ row'.cur = a
           /\ row'.curId = a \/ (row'.curId = None /\ (a = row.prev => row.prevId = None))
           /\ retired' = Displace(ds, "prior_slot") \ rows
        \/ /\ a = row.cur /\ row'.cur = row.cur /\ row'.prev = row.prev /\ row'.prevId = row.prevId
           /\ row.curId = a => row'.curId = a
    BY InstallMoves
  <2>3. CASE row.cur = c /\ row.curId = c
    <3>1. CASE a = row.cur
      <4>1. row'.cur = c /\ row'.curId = c
        BY <2>2, <2>3, <3>1
      <4> QED BY <4>1 DEF InSlot
    <3>2. CASE a # row.cur
      <4>1. <<c, c>> \in ds /\ c # a
        BY <2>3, <3>2
      <4> QED BY <2>1, <2>2, <3>2, <4>1, <1>e
    <3> QED BY <3>1, <3>2
  <2>4. CASE row.prev = c /\ row.prevId = c
    <3>1. CASE a = row.cur
      <4>1. row'.prev = c /\ row'.prevId = c
        BY <2>2, <2>4, <3>1
      <4> QED BY <4>1 DEF InSlot
    <3>2. CASE a # row.cur /\ a # c
      <4>1. <<c, c>> \in ds
        BY <2>4, <3>2
      <4> QED BY <2>1, <2>2, <3>2, <4>1, <1>e
    <3>3. CASE a # row.cur /\ a = c
      <4>1. row'.cur = c /\ row'.curId = c
        BY <2>2, <2>4, <3>3, <1>q
      <4> QED BY <4>1 DEF InSlot
    <3> QED BY <3>1, <3>2, <3>3
  <2> QED BY <2>3, <2>4, Slots
<1>4. UNCHANGED row => InSlot(c)'
  BY DEF InSlot
<1> QED BY <1>1, <1>2, <1>3, <1>4, Frames

(* What a renewal holds is swapped in, queued, or revoked. *)
LEMMA HeldStays ==
  ASSUME TypeInv, [Next]_vars, Without({"crash"}), NEW c \in Certs \ leaked', InHand(c), ca[c] = "active", ca'[c] = "active"
  PROVE  Booked(c)'
<1>1. PICK t \in Requests : task[t].cert = c /\ task[t].pc \in Holding
  BY Hands
<1>r. task \in [Threads -> Task] /\ t \in Threads /\ task[t] \in Task /\ t # Prune /\ t # Admin
      /\ ca \in [Certs -> {"none", "active", "pending", "revoked"}]
  BY Constants DEF TypeInv, TasksFit, RestFits
<1>2. CASE task'[t] = task[t]
  <2>1. \E u \in Requests : task'[u].cert = c /\ task'[u].pc \in Holding
    BY <1>1, <1>2
  <2> QED BY <2>1 DEF Booked, InHand, Holding
<1>g. ASSUME NEW pc \in Holding, Go(t, pc) PROVE Booked(c)'
  <2>1. task'[t].cert = c /\ task'[t].pc = pc
    BY <1>g, <1>1, <1>r DEF Go, Turns, Task
  <2> QED BY <2>1 DEF Booked, InHand, Holding
<1>3. CASE Acts(t)
  <2>1. Swap(t) \/ Reclaim(t) \/ Direct(t)
    <3>1. ~Settling(t)
      BY <1>1, <1>r, SettlingMoves DEF Working, Holding
    <3>2. ~Crash(t)
      BY DEF Crash, Fault, Without
    <3>3. ~Ask(t) /\ ~Identify(t) /\ ~Read(t) /\ ~Sign(t) /\ ~Reply(t)
      BY <1>1 DEF Ask, Identify, Read, Sign, Reply, Holding
    <3> QED BY <1>3, <1>r, <3>1, <3>2, <3>3 DEF Acts, Renewal
  <2>2. CASE Swap(t)
    <3>1. CASE Commits(t)
      <4>1. row'.cur = c /\ row'.curId = c
        BY <1>1, <2>2, <3>1, SwapMoves
      <4> QED BY <4>1 DEF Booked, InSlot
    <3>2. CASE ~Commits(t)
      <4>1. Go(t, "reclaim")
        BY <2>2, <3>2 DEF Swap, Commits
      <4> QED BY <4>1, <1>g DEF Holding
    <3> QED BY <3>1, <3>2
  <2>3. CASE Reclaim(t)
    <3> DEFINE q == Retired(c, c, "orphan_cleanup")
    <3>1. Go(t, "direct") \/ q \in retired'
      BY <1>1, <2>3 DEF Reclaim
    <3>2. q.cert = c /\ q.id = c /\ q.revoked = FALSE
      BY DEF Retired
    <3> HIDE DEF q
    <3>3. q \in retired' => Queued(c)'
      BY <3>2 DEF Queued, Pending
    <3> QED BY <3>1, <3>3, <1>g DEF Booked, Holding
  <2>4. CASE Direct(t)
    <3>1. ASSUME NEW v, Becomes(c, v) PROVE v = "active"
      BY <3>1, <1>r DEF Becomes
    <3>2. leaked' = leaked \cup {c} \/ \E v \in Accepted(c) : Becomes(c, v)
      BY <1>1, <2>4 DEF Direct
    <3>3. "active" \notin Accepted(c)
      BY DEF Accepted
    <3> QED BY <3>1, <3>2, <3>3
  <2> QED BY <2>1, <2>2, <2>3, <2>4
<1> QED BY <1>2, <1>3, <1>r, OneActs

LEMMA TrackedStep ==
  ASSUME TypeInv, PruneKnows, StampIsTrue, Tracked, [Next]_vars
  PROVE  Tracked'
<1> SUFFICES ASSUME Without({"crash"}), NEW c \in Certs \ leaked', Minted(c), ca'[c] = "active"
             PROVE  Booked(c)'
  BY Frames DEF Tracked, Without, Minted, Booked, Queued
<1>1. c \notin leaked
  <2>1. \A t \in Requests : Direct(t) => leaked \subseteq leaked'
    BY DEF Direct
  <2> QED BY <2>1, Frames
<1>2. CASE ca[c] # "active"
  <2>1. PICK t \in Requests : task'[t].cert = c /\ task'[t].pc \in Holding
    BY <1>2, AuthorityMoves
  <2> QED BY <2>1 DEF Booked, InHand, Holding
<1>3. CASE ca[c] = "active"
  <2>1. Booked(c)
    BY <1>1, <1>3 DEF Tracked, Booked, Queued
  <2>2. InSlot(c) \/ Queued(c) => Queued(c)' \/ InSlot(c)'
    BY <1>3, QueuedStays, SlottedStays
  <2>3. InHand(c) => Booked(c)'
    BY <1>3, HeldStays
  <2> QED BY <2>1, <2>2, <2>3 DEF Booked
<1> QED BY <1>2, <1>3

(* Whatever renewals, swaps, rollbacks, the prune and their failures do, no *)
(* certificate the hub minted is forgotten while it is valid, and the queue *)
(* frees a fingerprint only when the authority has revoked it.              *)
THEOREM BooksAreTrue == Spec => []RetiredAreTracked
<1>1. Init => BooksInv
  <2> SUFFICES ASSUME Init PROVE BooksInv
    OBVIOUS
  <2>1. PruneKnows /\ StampIsTrue /\ FreedIsDead
    BY Constants DEF Init, PruneKnows, StampIsTrue, FreedIsDead, IdleTask
  <2>2. Tracked
    <3> SUFFICES ASSUME NEW c \in Certs, Minted(c), ca[c] = "active" PROVE InSlot(c)
      BY DEF Tracked
    <3>1. c = First /\ plan.id
      BY Constants DEF Init, Minted
    <3> QED BY <3>1 DEF Init, InSlot
  <2> QED BY <2>1, <2>2, TypeInit DEF BooksInv
<1>2. BooksInv /\ [Next]_vars => BooksInv'
  BY TypeStep, PruneStep, StampStep, FreedStep, TrackedStep DEF BooksInv
<1>3. BooksInv => RetiredAreTracked
  BY DEF BooksInv, RetiredAreTracked
<1> QED BY <1>1, <1>2, <1>3, PTL DEF Spec

-----------------------------------------------------------------------------
(* No machine loses a certificate that it may authenticate with.            *)

LEMMA SettlingKeeps ==
  ASSUME TypeInv, NEW t \in Threads, Settling(t), task'[t].pc \in Working
  PROVE  \/ /\ task[t].pc \in Working /\ task'[t].claimed = task[t].claimed
            /\ task'[t].pc = "release" => Delete(t) /\ ca[task[t].claimed] = "active" /\ UNCHANGED ca
         \/ \E c \in Certs : /\ Claimable(c) # {} /\ retired' = Update(Claimable(c), "held", FALSE)
                             /\ task'[t].claimed = c /\ task'[t].pc # "release" /\ task[t].pc = "settle"
<1> DEFINE x == task[t]
<1>x. task \in [Threads -> Task] /\ x \in Task
  BY DEF TypeInv, TasksFit
<1>g. ASSUME NEW pc, Go(t, pc) PROVE task'[t].pc = pc /\ task'[t].claimed = x.claimed
  BY <1>g, <1>x DEF Go, Turns, Task
<1>n. ~NextClaim(t)
  <2>1. NextClaim(t) => task'[t].pc = "settle"
    BY <1>x DEF NextClaim, Turns, Task
  <2> QED BY <2>1 DEF Working
<1>1. ASSUME NEW c \in Certs, Claim(t, c)
      PROVE  /\ Claimable(c) # {} /\ retired' = Update(Claimable(c), "held", FALSE)
             /\ task'[t].claimed = c /\ task'[t].pc # "release" /\ x.pc = "settle"
  <2>1. ~Turns(t, [x EXCEPT !.todo = x.todo \ {c}])
    <3>1. Turns(t, [x EXCEPT !.todo = x.todo \ {c}]) => task'[t].pc = "settle"
      BY <1>1, <1>x DEF Turns, Claim, Task
    <3> QED BY <3>1 DEF Working
  <2> DEFINE pc == IF Claimable(c) = {} THEN "settle" ELSE IF x.poll THEN "status" ELSE "delete"
             d == IF Claimable(c) = {} THEN None ELSE c
  <2>2. Turns(t, [x EXCEPT !.todo = x.todo \ {c}, !.pc = pc, !.claimed = d])
        /\ retired' = Update(Claimable(c), "held", FALSE)
    BY <1>1, <2>1 DEF Claim
  <2> HIDE DEF pc, d
  <2>3. task'[t].pc = pc /\ task'[t].claimed = d
    BY <2>2, <1>x DEF Turns, Task
  <2>4. (Claimable(c) # {} => d = c) /\ (Claimable(c) = {} => pc = "settle") /\ pc # "release"
    BY DEF pc, d
  <2>5. x.pc = "settle"
    BY <1>1 DEF Claim
  <2> QED BY <2>2, <2>3, <2>4, <2>5 DEF Working
<1>2. CASE Status(t)
  <2>1. \E pc \in {"stamp", "delete"} : Go(t, pc)
    BY <1>2, <1>n DEF Status
  <2>2. x.pc \in Working
    BY <1>2 DEF Status, Working
  <2> QED BY <2>1, <2>2, <1>g
<1>3. CASE Delete(t)
  <2>1. Go(t, "stamp") \/ (Go(t, "release") /\ ca[x.claimed] = "active" /\ UNCHANGED ca)
    BY <1>3, <1>n DEF Delete
  <2>2. x.pc \in Working
    BY <1>3 DEF Delete, Working
  <2>3. Go(t, "stamp") => task'[t].pc = "stamp" /\ task'[t].claimed = x.claimed
    BY <1>g
  <2>4. Go(t, "release") => task'[t].claimed = x.claimed
    BY <1>g
  <2> HIDE DEF x
  <2>5. task'[t].claimed = x.claimed
    BY <2>1, <2>3, <2>4
  <2>6. task'[t].pc = "release" => ca[x.claimed] = "active" /\ UNCHANGED ca
    BY <2>1, <2>3
  <2> QED BY <2>2, <2>5, <2>6, <1>3 DEF x
<1>4. ~Stamp(t) /\ ~Release(t)
  BY <1>n DEF Stamp, Release
<1>5. ~Settled(t)
  <2>1. ~Go(t, "reply")
    BY <1>g DEF Working
  <2>2. ~Turns(t, IdleTask)
    BY <1>x DEF Turns, IdleTask, Working
  <2> QED BY <2>1, <2>2 DEF Settled
<1> QED BY <1>1, <1>2, <1>3, <1>4, <1>5 DEF Settling

LEMMA AdminKeeps ==
  ASSUME TypeInv,
         \/ Administration
         \/ \E fp \in returned \cup {None, Spare}, id \in plan.handles \cup {None}, u \in BOOLEAN :
              AskAdmin(fp, id, u)
  PROVE  /\ task'[Admin].cert \in returned \cup {None, Spare, row.cur, task[Admin].cert}
         /\ task'[Admin].pc \in Asking /\ Administration => task[Admin].pc \in Asking
<1> DEFINE x == task[Admin]
<1>x. task \in [Threads -> Task] /\ x \in Task /\ Admin \in Threads
  BY Constants DEF TypeInv, TasksFit
<1>t. ASSUME NEW y, Turns(Admin, y) PROVE task'[Admin] = y
  BY <1>t, <1>x DEF Turns
<1>a. Administration => x.pc \in Asking
  BY DEF Administration, Clash, IdClash, Look, Verify, Install, Asking
<1>d. Drop => task'[Admin].cert = None
  BY <1>t DEF Drop, IdleTask
<1>g. ASSUME NEW pc, Go(Admin, pc) PROVE task'[Admin].cert = x.cert
  BY <1>g, <1>x DEF Go, Turns, Task
<1>1. ASSUME NEW fp \in returned \cup {None, Spare}, NEW id, NEW u, AskAdmin(fp, id, u) PROVE task'[Admin].cert = fp
  <2>1. Turns(Admin, [IdleTask EXCEPT !.pc = "clash", !.cert = fp, !.id = id, !.unknown = u])
    BY <1>1 DEF AskAdmin
  <2>2. [IdleTask EXCEPT !.pc = "clash", !.cert = fp, !.id = id, !.unknown = u].cert = fp
    BY DEF IdleTask
  <2> QED BY <2>1, <2>2, <1>t
<1>2. CASE Clash
  <2>1. Drop \/ \E b : Turns(Admin, [x EXCEPT !.pc = "idClash", !.trusted = b])
    BY <1>2 DEF Clash
  <2>2. ASSUME NEW b, Turns(Admin, [x EXCEPT !.pc = "idClash", !.trusted = b]) PROVE task'[Admin].cert = x.cert
    BY <2>2, <1>x DEF Turns, Task
  <2> QED BY <2>1, <2>2, <1>d, <1>a, <1>2 DEF Administration
<1>3. CASE IdClash
  BY <1>3, <1>a, <1>d, <1>g DEF IdClash, Administration
<1>4. CASE Look
  <2>1. PICK c \in {row.cur, x.cert}, pc \in {"idle", "install", "verify"} :
          Drop \/ Turns(Admin, [x EXCEPT !.cert = c, !.seen = row, !.pc = pc])
    BY <1>4 DEF Look
  <2>2. Turns(Admin, [x EXCEPT !.cert = c, !.seen = row, !.pc = pc]) => task'[Admin].cert = c
    BY <1>x DEF Turns, Task
  <2> QED BY <2>1, <2>2, <1>d, <1>a, <1>4 DEF Administration
<1>5. CASE Verify
  BY <1>5, <1>a, <1>d, <1>g DEF Verify, Administration
<1>6. CASE Install
  <2>1. Drop \/ \E todo : Turns(Admin, [x EXCEPT !.pc = "settle", !.todo = todo])
    BY <1>6 DEF Install
  <2>2. ASSUME NEW todo, Turns(Admin, [x EXCEPT !.pc = "settle", !.todo = todo]) PROVE task'[Admin].cert = x.cert
    BY <2>2, <1>x DEF Turns, Task
  <2> QED BY <2>1, <2>2, <1>d, <1>a, <1>6 DEF Administration
<1>7. Administration \/ ~Administration
  OBVIOUS
<1> QED BY <1>1, <1>2, <1>3, <1>4, <1>5, <1>6, <1>a DEF Administration

(* What a thread knows after a step, and by which action it does.           *)
LEMMA ThreadMoves ==
  ASSUME TypeInv, [Next]_vars, NEW t \in Threads
  PROVE  /\ task'[t].pc \in Working =>
              \/ /\ task[t].pc \in Working /\ task'[t].claimed = task[t].claimed
                 /\ task'[t].pc = "release" => task[t].pc = "release" \/ (ca[task[t].claimed] = "active" /\ UNCHANGED ca)
                 /\ task'[t] = task[t] \/ (~Stamp(t) /\ ~Release(t))
              \/ /\ \E c \in Certs : /\ Claimable(c) # {} /\ retired' = Update(Claimable(c), "held", FALSE)
                                     /\ task'[t].claimed = c /\ task'[t].pc # "release"
                 /\ task[t].pc \notin Working
         /\ t \in Requests => task'[t].cert \in {task[t].cert, None} \/ Sign(t)
         /\ t \in Requests /\ task'[t].pc \in Holding =>
              Sign(t) \/ (task'[t].cert = task[t].cert /\ task[t].pc \in Holding)
         /\ task'[Admin].cert \in returned \cup {None, Spare, row.cur, task[Admin].cert}
         /\ task'[Admin].pc \in Asking /\ task[Admin].pc \notin Asking =>
              \E fp, id, u : AskAdmin(fp, id, u)
<1>r. task \in [Threads -> Task] /\ Admin \in Threads /\ Admin \notin Requests /\ Prune \notin Requests
  BY Constants DEF TypeInv, TasksFit
<1>d. Working \cap Holding = {} /\ Working \cap Fresh = {} /\ Working \cap Asking = {} /\ Holding \cap Asking = {}
      /\ {"idle", "settle", "reply", "retire", "drain"} \cap (Working \cup Holding \cup Asking) = {} /\ Fresh \cap Asking = {}
  BY DEF Working, Holding, Fresh, Asking
<1>i. IdleTask.pc = "idle" /\ IdleTask.cert = None
  BY DEF IdleTask
<1> DEFINE Works(u) == task'[u].pc \in Working =>
              \/ /\ task[u].pc \in Working /\ task'[u].claimed = task[u].claimed
                 /\ task'[u].pc = "release" => task[u].pc = "release" \/ (ca[task[u].claimed] = "active" /\ UNCHANGED ca)
                 /\ task'[u] = task[u] \/ (~Stamp(u) /\ ~Release(u))
              \/ /\ \E c \in Certs : /\ Claimable(c) # {} /\ retired' = Update(Claimable(c), "held", FALSE)
                                     /\ task'[u].claimed = c /\ task'[u].pc # "release"
                 /\ task[u].pc \notin Working
           Cert(u) == task'[u].cert \in {task[u].cert, None} \/ Sign(u)
           Hold(u) == task'[u].pc \in Holding =>
              Sign(u) \/ (task'[u].cert = task[u].cert /\ task[u].pc \in Holding)
           AskCert == task'[Admin].cert \in returned \cup {None, Spare, row.cur, task[Admin].cert}
           AskPc == task'[Admin].pc \in Asking /\ task[Admin].pc \notin Asking =>
              \E fp, id, u : AskAdmin(fp, id, u)
<1>1. ASSUME NEW u \in Threads, task'[u] = task[u]
      PROVE  Works(u) /\ Cert(u) /\ Hold(u) /\ (u = Admin => AskCert /\ AskPc)
  BY <1>1
<1>2. ASSUME NEW u \in Requests, Ask(u) \/ Renewal(u) PROVE Works(u) /\ Cert(u) /\ Hold(u)
  <2>1. task'[u].pc \notin Working
    BY <1>2, <1>d, RenewalPc
  <2>2. /\ Ask(u) => task'[u].cert = None /\ task'[u].pc = "sent"
        /\ Reply(u) => task'[u] = IdleTask
        /\ Renewal(u) /\ ~Reply(u) /\ ~Sign(u) => task'[u].cert = task[u].cert
    BY <1>2, RenewalMoves
  <2>3. task'[u].pc \in Holding => Sign(u) \/ Swap(u) \/ Reclaim(u)
    BY <1>2, RenewalPc
  <2>4. Swap(u) \/ Reclaim(u) => task[u].pc \in Holding /\ task[u].pc # "reply" /\ task[u].pc # "idle"
    BY DEF Swap, Reclaim, Holding
  <2>5. (Reply(u) => task[u].pc = "reply") /\ (Ask(u) => task[u].pc = "idle")
    BY DEF Reply, Ask
  <2>6. Cert(u)
    BY <1>2, <1>i, <2>2
  <2>7. Hold(u)
    BY <1>2, <2>2, <2>3, <2>4, <2>5
  <2> HIDE DEF Cert, Hold
  <2> QED BY <2>1, <2>6, <2>7
<1>3. ASSUME NEW u \in Threads, Settling(u) PROVE Works(u) /\ (u \in Requests => Cert(u) /\ Hold(u)) /\ (u = Admin => AskCert /\ AskPc)
  <2>1. \/ task'[u] = IdleTask /\ u \notin Requests
        \/ /\ task'[u].pc \in {"settle"} \cup Working \/ (u \in Requests /\ task'[u].pc = "reply")
           /\ task'[u].cert = task[u].cert
    BY <1>3, SettlingMoves
  <2>2. task'[u].pc \notin Holding \cup Asking
    BY <1>d, <1>i, <2>1
  <2>3. (u \in Requests => Cert(u) /\ Hold(u)) /\ (u = Admin => AskCert /\ AskPc)
    BY <1>i, <2>1, <2>2
  <2>4. Works(u)
    <3> SUFFICES ASSUME task'[u].pc \in Working PROVE Works(u)
      OBVIOUS
    <3>1. ~Stamp(u) /\ ~Release(u)
      <4>1. NextClaim(u) => task'[u].pc = "settle"
        BY <1>r DEF NextClaim, Turns, Task
      <4> QED BY <1>d, <4>1 DEF Stamp, Release
    <3>2. \/ /\ task[u].pc \in Working /\ task'[u].claimed = task[u].claimed
             /\ task'[u].pc = "release" => ca[task[u].claimed] = "active" /\ UNCHANGED ca
          \/ \E c \in Certs : /\ Claimable(c) # {} /\ retired' = Update(Claimable(c), "held", FALSE)
                              /\ task'[u].claimed = c /\ task'[u].pc # "release" /\ task[u].pc = "settle"
      BY <1>3, SettlingKeeps
    <3>3. "settle" \notin Working
      BY <1>d
    <3> QED BY <3>1, <3>2, <3>3
  <2> HIDE DEF Works, Cert, Hold, AskCert, AskPc
  <2> QED BY <2>3, <2>4
<1>4. ASSUME NEW u \in Threads, Crash(u) PROVE Works(u) /\ Cert(u) /\ Hold(u) /\ (u = Admin => AskCert /\ AskPc)
  <2>1. task'[u] = IdleTask
    BY <1>4, <1>r DEF Crash, Turns
  <2> QED BY <2>1, <1>d, <1>i
<1>5. ASSUME Pruning PROVE Works(Prune)
  BY <1>5, <1>d, PrunePc
<1>6. ASSUME Administration \/ \E fp \in returned \cup {None, Spare}, id \in plan.handles \cup {None}, u \in BOOLEAN :
              AskAdmin(fp, id, u)
      PROVE  Works(Admin) /\ AskCert /\ AskPc
  <2>1. AskCert
    BY <1>6, AdminKeeps
  <2>2. AskPc
    BY <1>6, AdminKeeps
  <2>3. task'[Admin].pc \in Asking \cup {"idle", "settle"}
    BY <1>6, AdminPc
  <2>4. Works(Admin)
    BY <2>3, <1>d
  <2> HIDE DEF Works, AskCert, AskPc
  <2> QED BY <2>1, <2>2, <2>4
<1> HIDE DEF Works, Cert, Hold, AskCert, AskPc
<1>7. CASE UNCHANGED task
  <2>1. Works(t) /\ Cert(t) /\ Hold(t) /\ AskCert /\ AskPc
    BY <1>1, <1>7, <1>r
  <2> QED BY <2>1 DEF Works, Cert, Hold, AskCert, AskPc
<1>8. ASSUME NEW u \in Threads, Acts(u), \A v \in Threads \ {u} : task'[v] = task[v]
      PROVE  Works(t) /\ (t \in Requests => Cert(t) /\ Hold(t)) /\ AskCert /\ AskPc
  <2>1. Works(u) /\ (u \in Requests => Cert(u) /\ Hold(u)) /\ (u = Admin => AskCert /\ AskPc)
    <3>1. CASE u \in Requests /\ (Ask(u) \/ Renewal(u))
      BY <3>1, <1>2, <1>r
    <3>2. CASE Settling(u) \/ Crash(u)
      BY <3>2, <1>3, <1>4
    <3>3. CASE u = Prune /\ Pruning
      BY <3>3, <1>5, <1>r, Constants
    <3>4. CASE /\ u = Admin
               /\ \/ Administration
                  \/ \E fp \in returned \cup {None, Spare}, id \in plan.handles \cup {None}, b \in BOOLEAN :
                       AskAdmin(fp, id, b)
      BY <3>4, <1>6, <1>r
    <3> QED BY <1>8, <3>1, <3>2, <3>3, <3>4 DEF Acts
  <2> QED BY <2>1, <1>1, <1>8, <1>r
<1>9. Works(t) /\ (t \in Requests => Cert(t) /\ Hold(t)) /\ AskCert /\ AskPc
  <2> HIDE DEF Acts
  <2> QED BY <1>7, <1>8, <1>1, <1>r, OneActs
<1> QED BY <1>9 DEF Works, Cert, Hold, AskCert, AskPc

(* What a step does to the queue and the slots while nothing is damaged:    *)
(* it marks reservations, ends those of a revoked certificate, reserves     *)
(* what leaves the slots and frees what returns, or reserves an orphan.     *)
Marking(rows, claim) ==
  /\ retired' = Update(rows, claim, FALSE) /\ UNCHANGED <<row, ca>>
  /\ \/ claim = "held" /\ \A r \in rows : r.claim # "held"
     \/ claim = "stale" /\ \A r \in rows, t \in Threads : task[t].claimed # r.id
     \/ claim = "free" /\ \E t \in Threads : task[t].pc = "release" /\ Release(t) /\ rows = {r \in Pending : r.id = task[t].claimed}

Ending(t) ==
  /\ Stamp(t) /\ UNCHANGED <<row, ca>>
  /\ Pending' = {r \in Pending : r.id # task[t].claimed}

Leaving(ds, source, gone) ==
  /\ retired' = Displace(ds, source) \ gone /\ UNCHANGED ca
  /\ ds \subseteq {<<row.cur, row.curId>>, <<row.prev, row.prevId>>}
  /\ \A d \in ds : d[1] # None => d[1] \notin {row'.cur, row'.prev}
  /\ gone \subseteq Pending /\ \A r \in gone : r.claim = "free"
  /\ \A r \in Pending \ gone : r.cert \notin {row'.cur, row'.prev}

Orphaning(t) ==
  /\ task[t].pc = "reclaim" /\ task'[t].pc = "settle" /\ UNCHANGED <<row, ca>>
  /\ retired' = retired \cup {Retired(task[t].cert, task[t].cert, "orphan_cleanup")}

Still == UNCHANGED retired /\ row'.cur = row.cur /\ row'.prev = row.prev

LEMMA QueueMoves ==
  ASSUME TypeInv, PruneKnows, Kept, Exclusive, HandsAreClean, [Next]_vars
  PROVE  \/ Still
         \/ \E rows \in SUBSET Pending, claim \in {"free", "held", "stale"} : Marking(rows, claim)
         \/ \E t \in Threads : Ending(t)
         \/ \E ds, source, gone : Leaving(ds, source, gone)
         \/ \E t \in Requests : Orphaning(t)
<1> DEFINE Markings == \E rows \in SUBSET Pending, claim \in {"free", "held", "stale"} : Marking(rows, claim)
           Ends == \E t \in Threads : Ending(t)
           Leaves == \E ds, source, gone : Leaving(ds, source, gone)
           Orphans == \E t \in Requests : Orphaning(t)
<1>q. /\ QueueFits /\ row \in RowType /\ row.cur # None /\ row.cur # row.prev
      /\ \A r \in Pending : r.cert \notin {row.cur, row.prev} /\ r.cert # None
  <2>1. QueueFits /\ row \in RowType /\ row.cur # None
    BY Constants DEF TypeInv, RowFits, Rows, RowType
  <2>2. \A r \in Pending : r.cert # None
    BY <2>1, Constants DEF QueueFits, Retirement, Pending
  <2>3. row.cur # row.prev /\ \A r \in Pending : r.cert \notin {row.cur, row.prev}
    BY DEF Exclusive
  <2> QED BY <2>1, <2>2, <2>3
<1>1. ASSUME NEW t \in Threads, NEW c \in Certs, Claim(t, c) PROVE Still \/ Markings
  <2>1. Claimable(c) \in SUBSET Pending /\ \A r \in Claimable(c) : r.claim # "held"
    BY DEF Claimable
  <2>2. UNCHANGED <<row, ca>> /\ (UNCHANGED retired \/ retired' = Update(Claimable(c), "held", FALSE))
    BY <1>1 DEF Claim
  <2>3. UNCHANGED retired \/ Marking(Claimable(c), "held")
    BY <2>1, <2>2 DEF Marking
  <2> QED BY <2>1, <2>2, <2>3 DEF Still
<1>2. ASSUME NEW t \in Threads, Release(t) PROVE Still \/ Markings
  <2> DEFINE rows == {r \in Pending : r.id = task[t].claimed}
  <2>1. UNCHANGED <<row, ca>> /\ task[t].pc = "release" /\ (UNCHANGED retired \/ retired' = Update(rows, "free", FALSE))
    BY <1>2 DEF Release
  <2>2. UNCHANGED retired \/ Marking(rows, "free")
    BY <1>2, <2>1 DEF Marking
  <2>3. rows \in SUBSET Pending
    OBVIOUS
  <2> HIDE DEF rows
  <2> QED BY <2>1, <2>2, <2>3 DEF Still
<1>3. Age => Markings
  <2> SUFFICES ASSUME Age PROVE Markings
    OBVIOUS
  <2> DEFINE old == {r \in Pending : r.claim = "held" /\ \A t \in Threads : task[t].claimed # r.id}
  <2>1. UNCHANGED <<row, ca>> /\ retired' = Update(old, "stale", FALSE)
    BY DEF Age
  <2>2. Marking(old, "stale")
    BY <2>1 DEF Marking
  <2>3. old \in SUBSET Pending
    OBVIOUS
  <2> HIDE DEF old
  <2> QED BY <2>2, <2>3
<1>4. ASSUME NEW t \in Threads, Stamp(t) PROVE Still \/ Ends
  <2>1. UNCHANGED retired \/ retired' = (retired \ {p \in Pending : p.id = task[t].claimed})
                                \cup {[p EXCEPT !.revoked = TRUE] : p \in {p \in Pending : p.id = task[t].claimed}}
    BY <1>4 DEF Stamp
  <2>2. UNCHANGED retired \/ Pending' = {p \in Pending : p.id # task[t].claimed}
    BY <2>1, <1>q, StampMoves
  <2>3. UNCHANGED <<row, ca>>
    BY <1>4 DEF Stamp
  <2> QED BY <1>4, <2>2, <2>3 DEF Still, Ending
<1>5. ASSUME NEW t \in Requests, Swap(t) PROVE Still \/ Leaves
  <2>0. UNCHANGED ca
    BY <1>5 DEF Swap
  <2>1. CASE Commits(t)
    <3>1. task[t].pc \in Holding /\ task[t].cert \in Certs
      BY <1>5, RenewedRow DEF Swap, Holding
    <3>2. task[t].cert \notin {row.cur, row.prev} /\ \A r \in Pending : r.cert # task[t].cert
      BY <3>1, Constants DEF HandsAreClean, Holds
    <3>3. /\ row'.cur = task[t].cert
          /\ \/ /\ row'.prev = row.cur
                /\ retired' = Displace({<<row.prev, row.prevId>>}, "prior_slot")
             \/ /\ row'.prev = row.prev
                /\ retired' = Displace({<<row.cur, row.curId>>}, "orphan_cleanup")
      BY <1>5, <2>1, SwapMoves
    <3>4. \/ Leaving({<<row.prev, row.prevId>>}, "prior_slot", {})
          \/ Leaving({<<row.cur, row.curId>>}, "orphan_cleanup", {})
      BY <1>q, <2>0, <3>2, <3>3 DEF Leaving
    <3> HIDE DEF Still
    <3> QED BY <3>4
  <2>2. CASE ~Commits(t)
    BY <1>5, <2>2, RenewedRow DEF Still
  <2> QED BY <2>1, <2>2
<1>6. ASSUME NEW t \in Requests, Reclaim(t) PROVE Still \/ Orphans
  <2>1. ~Fault("commit")
    BY DEF Kept, Without, Fault
  <2>2. UNCHANGED <<row, ca>> /\ task[t].pc = "reclaim"
    BY <1>6 DEF Reclaim
  <2>3. \/ UNCHANGED retired
        \/ /\ retired' = retired \cup {Retired(task[t].cert, task[t].cert, "orphan_cleanup")}
           /\ Turns(t, [task[t] EXCEPT !.pc = "settle", !.todo = {task[t].cert}])
    BY <1>6, <2>1 DEF Reclaim
  <2>4. Turns(t, [task[t] EXCEPT !.pc = "settle", !.todo = {task[t].cert}]) => task'[t].pc = "settle"
    BY Constants DEF Turns, TypeInv, TasksFit, Task
  <2> QED BY <2>2, <2>3, <2>4 DEF Still, Orphaning
<1>7. Retire => Still \/ Leaves
  <2> SUFFICES ASSUME Retire, ~Still PROVE Leaves
    OBVIOUS
  <2> DEFINE s == task[Prune].seen
             w == [row EXCEPT !.prev = None, !.prevId = None, !.until = 0]
  <2>1. /\ row' = w /\ row.prev = s.prev /\ row.until = s.until /\ task[Prune].pc = "retire"
        /\ retired' = Displace({<<s.prev, s.prevId>>}, "prior_slot") /\ UNCHANGED ca
    BY DEF Retire, Still
  <2>2. w.cur = row.cur /\ w.prev = None
    BY <1>q DEF RowType
  <2>3. row.prevId = s.prevId
    BY <2>1 DEF PruneKnows
  <2> HIDE DEF w, s
  <2>4. Leaving({<<row.prev, row.prevId>>}, "prior_slot", {})
    BY <1>q, <2>1, <2>2, <2>3 DEF Leaving
  <2> QED BY <2>4
<1>8. Install => Still \/ Leaves
  <2> SUFFICES ASSUME Install, ~Still PROVE Leaves
    OBVIOUS
  <2> DEFINE a == task[Admin].cert
             rows == {p \in Pending : p.cert = a}
             ds == {<<row.cur, row.curId>>} \cup (IF row.prev = a THEN {} ELSE {<<row.prev, row.prevId>>})
  <2>1. /\ a \in Certs /\ a # row.cur /\ \A r \in rows : Consumable(r)
        /\ row'.cur = a /\ row'.prev = None /\ retired' = Displace(ds, "prior_slot") \ rows
    BY InstallMoves DEF Still
  <2>2. ds \subseteq {<<row.cur, row.curId>>, <<row.prev, row.prevId>>} /\ \A d \in ds : d[1] # None => d[1] \notin {a, None}
    BY <2>1
  <2>3. (\A r \in Pending \ rows : r.cert \notin {a, None}) /\ rows \subseteq Pending /\ \A r \in rows : r.claim = "free"
    BY <1>q, <2>1 DEF Consumable, Reinstatable
  <2>4. UNCHANGED ca
    BY DEF Install
  <2> HIDE DEF a, rows, ds, Still
  <2>5. Leaving(ds, "prior_slot", rows)
    BY <2>1, <2>2, <2>3, <2>4 DEF Leaving
  <2> QED BY <2>5
<1>9. UNCHANGED <<retired, row>> => Still
  BY DEF Still
<1>10. UNCHANGED row \/ (\E t \in Requests : Swap(t)) \/ Retire \/ Install
  BY Frames
<1> HIDE DEF Still, Markings, Ends, Leaves, Orphans
<1>11. Still \/ Markings \/ Ends \/ Leaves \/ Orphans
  BY <1>1, <1>2, <1>3, <1>4, <1>5, <1>6, <1>7, <1>8, <1>9, <1>10, Frames
<1> QED BY <1>11 DEF Markings, Ends, Leaves, Orphans

(* A certificate stays active unless somebody may revoke it. *)
LEMMA StaysActive ==
  ASSUME TypeInv, Exclusive, [Next]_vars, NEW c \in Certs, ca[c] = "active",
         \A r \in Pending : r.cert = c => r.claim = "free",
         \A t \in Requests : ~Direct(t) \/ task[t].cert # c
  PROVE  ca'[c] = "active"
<1> SUFFICES ASSUME NEW t \in Threads, Delete(t), task[t].claimed = c PROVE FALSE
  BY AuthorityMoves
<1>1. PICK r \in Pending : r.id = c /\ r.claim = "held"
  BY DEF Exclusive, Delete, Working
<1>2. r.cert = c
  BY <1>1, Constants DEF Pending, TypeInv, QueueFits, Retirement
<1> QED BY <1>1, <1>2

LEMMA DirectPc == ASSUME TypeInv, NEW t \in Requests, Direct(t) PROVE task[t].pc \in Holding /\ task'[t].pc = "reply"
  BY Constants DEF Direct, Holding, Go, Turns, TypeInv, TasksFit, Task

(* Where the row's certificates come from. *)
LEMMA RowMoves ==
  ASSUME TypeInv, [Next]_vars
  PROVE  \/ /\ row'.cur = row.cur /\ row'.curId \in {row.curId, task[Admin].id}
            /\ task[Admin].pc = "install" \/ row'.curId = row.curId
            /\ (row'.prev = row.prev /\ row'.prevId = row.prevId) \/ (row'.prev = None /\ row'.prevId = None)
         \/ \E t \in Requests : Swap(t) /\ Commits(t)
         \/ Install /\ task[Admin].cert # row.cur /\ row'.cur = task[Admin].cert /\ row'.prev = None /\ row'.prevId = None
<1>r. row \in RowType
  BY DEF TypeInv, RowFits, Rows
<1>1. CASE Retire
  <2> DEFINE w == [row EXCEPT !.prev = None, !.prevId = None, !.until = 0]
  <2>1. row' = row \/ row' = w
    BY <1>1 DEF Retire
  <2>2. w.cur = row.cur /\ w.curId = row.curId /\ w.prev = None /\ w.prevId = None
    BY <1>r DEF RowType
  <2> HIDE DEF w
  <2> QED BY <2>1, <2>2
<1>2. CASE Install
  <2>1. task[Admin].pc = "install"
    BY <1>2 DEF Install
  <2> QED BY <1>2, <2>1, InstallMoves
<1>3. CASE UNCHANGED row
  BY <1>3
<1> QED BY <1>1, <1>2, <1>3, Frames, RenewedRow

LEMMA AliveStep ==
  ASSUME TypeInv, Kept, Undamaged, [Next]_vars
  PROVE  Alive'
<1>q. /\ row \in RowType /\ row.cur # None /\ \A t \in Threads : Fits(t, task[t])
      /\ QueueFits /\ plan.handles \subseteq Certs /\ plan \in Plans
  BY Constants, CertAssumption DEF TypeInv, RowFits, Rows, RowType, TasksFit, RestFits, Certs
<1>1. ASSUME NEW c \in {row.cur, row.prev} \ {None} PROVE c \in Certs /\ ca[c] = "active" /\ ca'[c] = "active"
  <2>1. c \in Certs /\ ca[c] = "active" /\ \A r \in Pending : r.cert # c
    BY <1>q, Constants DEF RowType, Undamaged, Alive, Exclusive
  <2>2. \A t \in Requests : ~Holds(t, c)
    BY DEF Undamaged, HandsAreClean
  <2>3. \A t \in Requests : ~Direct(t) \/ task[t].cert # c
    BY <2>2, DirectPc DEF Holds
  <2> QED BY <2>1, <2>3, StaysActive DEF Undamaged
<1>2. CASE row'.cur = row.cur /\ row'.prev \in {row.prev, None}
  BY <1>1, <1>2 DEF Alive
<1>3. ASSUME NEW t \in Requests, Swap(t), Commits(t) PROVE Alive'
  <2>1. task[t].pc \in Holding /\ UNCHANGED ca
    BY <1>3 DEF Swap, Holding
  <2>2. ca[task[t].cert] = "active"
    BY <2>1 DEF Undamaged, HandsAreClean
  <2>3. row'.cur = task[t].cert /\ row'.prev \in {row.cur, row.prev}
    BY <1>3, SwapMoves
  <2> QED BY <1>1, <2>1, <2>2, <2>3 DEF Alive
<1>4. CASE Install /\ task[Admin].cert # row.cur /\ row'.cur = task[Admin].cert /\ row'.prev = None
  <2> DEFINE c == task[Admin].cert
             x == task[Admin]
  <2>1. UNCHANGED ca /\ x.pc = "install"
    BY <1>4 DEF Install
  <2>2. /\ c \in Certs /\ x.id \in plan.handles \cup {None} /\ (x.unknown => c = Spare) /\ x.id \in {c, None}
        /\ c \notin {x.seen.cur, x.seen.prev} /\ ~x.trusted => x.id # None \/ x.unknown
    BY <2>1, <1>q, Constants DEF Fits
  <2>3. x.seen = row /\ (x.trusted => {r \in Pending : r.cert = c} # {}) /\ \A r \in Pending : r.cert = c => Consumable(r)
    BY <1>4, InstallMoves
  <2>4. CASE c = row.prev
    BY <2>4, <2>2, <1>1, Constants, <2>1, <1>4 DEF Alive
  <2>5. CASE \E r \in Pending : r.cert = c
    <3>1. ca[c] = "active"
      BY <2>3, <2>5 DEF Undamaged, Exclusive, Consumable, Reinstatable
    <3> QED BY <1>4, <2>1, <3>1 DEF Alive
  <2>6. CASE c # row.prev /\ ~\E r \in Pending : r.cert = c
    <3>1. ~x.trusted
      BY <2>3, <2>6
    <3>2. x.id # None \/ x.unknown
      BY <1>4, <2>2, <2>3, <2>6, <3>1
    <3>3. c = Spare /\ (plan.handles # {} => plan.swaps <= 1)
      BY <2>2, <3>2 DEF Kept, NamesOnlyNew
    <3>4. ca[Spare] = "active"
      <4>1. SpareIsNew
        BY DEF Undamaged
      <4>2. CASE plan.handles = {}
        BY <4>1, <4>2 DEF SpareIsNew
      <4>3. CASE plan.handles # {}
        <5>1. plan.swaps <= 1 /\ x.pc \in Asking
          BY <4>3, <3>3, <2>1 DEF Asking
        <5> QED BY <4>1, <5>1 DEF SpareIsNew
      <4> QED BY <4>2, <4>3
    <3> QED BY <1>4, <2>1, <3>3, <3>4 DEF Alive
  <2> QED BY <2>4, <2>5, <2>6
<1> QED BY <1>2, <1>3, <1>4, RowMoves

(* A claim and its reservation stay together. *)
LEMMA ClaimStays ==
  ASSUME TypeInv, PruneKnows, Kept, Undamaged, [Next]_vars, NEW t \in Threads, task'[t].pc \in Working,
         task[t].pc \in Working, task'[t].claimed = task[t].claimed
  PROVE  \E q \in Pending' : q.id = task'[t].claimed /\ q.claim = "held"
<1>1. PICK r \in Pending : r.id = task[t].claimed /\ r.claim = "held"
  BY DEF Undamaged, Exclusive
<1>q. QueueFits /\ r \in retired /\ ~r.revoked
  BY DEF TypeInv, Pending
<1>g. r \in Pending' => \E q \in Pending' : q.id = task'[t].claimed /\ q.claim = "held"
  BY <1>1
<1>n. ~Stamp(t) /\ ~Release(t)
  <2>1. NextClaim(t) => task'[t].pc = "settle"
    BY DEF NextClaim, Turns, Task, TypeInv, TasksFit
  <2> QED BY <2>1 DEF Stamp, Release, Working
<1>2. CASE Still
  BY <1>2, <1>g DEF Still, Pending
<1>3. ASSUME NEW rows \in SUBSET Pending, NEW claim \in {"free", "held", "stale"}, Marking(rows, claim)
      PROVE  \E q \in Pending' : q.id = task'[t].claimed /\ q.claim = "held"
  <2>1. r \notin rows \/ claim = "held"
    <3>1. ASSUME NEW u \in Threads, task[u].pc = "release", Release(u), rows = {p \in Pending : p.id = task[u].claimed}
          PROVE  r \notin rows
      <4>1. u # t
        BY <3>1, <1>n
      <4>2. task[u].claimed # task[t].claimed
        BY <4>1 DEF Undamaged, Exclusive
      <4> QED BY <3>1, <4>2, <1>1
    <3> QED BY <1>1, <1>3, <3>1 DEF Marking
  <2>2. retired' = Update(rows, claim, FALSE)
    BY <1>3 DEF Marking
  <2>3. /\ \A p \in Pending \ rows : Remains(p, p, p.claim)
        /\ \A p \in rows : \E q : Remains(q, p, claim)
    BY <1>q, <2>2, UpdateKeeps
  <2>4. \E q : Remains(q, r, "held")
    BY <1>1, <2>1, <2>3
  <2> QED BY <1>1, <2>4 DEF Remains
<1>4. ASSUME NEW u \in Threads, Ending(u) PROVE r \in Pending'
  <2>1. u # t
    BY <1>4, <1>n DEF Ending
  <2>2. task[u].claimed # task[t].claimed
    BY <2>1 DEF Undamaged, Exclusive
  <2> QED BY <1>4, <1>1, <2>2 DEF Ending
<1>5. ASSUME NEW ds, NEW source, NEW gone, Leaving(ds, source, gone) PROVE r \in Pending'
  <2>1. retired' = Displace(ds, source) \ gone /\ gone \in SUBSET retired /\ r \notin gone
    BY <1>5, <1>1 DEF Leaving, Pending
  <2> QED BY <2>1, <1>q, DisplaceMoves
<1>6. ASSUME NEW u \in Requests, Orphaning(u) PROVE r \in Pending'
  BY <1>6, <1>q DEF Orphaning, Pending
<1> QED BY <1>2, <1>3, <1>4, <1>5, <1>6, <1>g, QueueMoves DEF Undamaged

LEMMA ExclusiveStep ==
  ASSUME TypeInv, PruneKnows, Kept, Undamaged, [Next]_vars
  PROVE  Exclusive'
<1>e. Exclusive /\ HandsAreClean /\ Alive
  BY DEF Undamaged
<1>q. /\ QueueFits /\ row \in RowType /\ row.cur # None /\ None \notin Certs
      /\ \A r \in Pending : r \in retired /\ r.cert \in Certs /\ r.id \in {r.cert, None}
  BY Constants DEF TypeInv, RowFits, Rows, RowType, QueueFits, Retirement, Pending
<1>t. /\ \A t \in Threads : task[t].pc \in Working => task[t].claimed \in Certs
      /\ \A t \in Threads : task'[t].pc \in Working <=> task'[t].claimed # None
  <2>1. TypeInv'
    BY TypeStep
  <2> QED BY <2>1, Constants DEF TypeInv, TasksFit, Fits, Task
<1>a. /\ \A r \in Pending : r.cert \notin {row.cur, row.prev} /\ ca[r.cert] # "none"
      /\ \A r \in Pending : r.claim = "free" => ca[r.cert] = "active"
      /\ \A r, q \in Pending : r.cert = q.cert => r = q
  BY <1>e DEF Exclusive
<1>1. row'.cur # row'.prev
  <2>1. ASSUME NEW t \in Requests, Swap(t), Commits(t) PROVE row'.cur # row'.prev
    <3>1. task[t].pc \in Holding /\ task[t].cert \in Certs
      BY <2>1, RenewedRow DEF Swap, Holding
    <3>2. task[t].cert \notin {row.cur, row.prev}
      BY <1>e, <1>q, <3>1 DEF HandsAreClean, Holds
    <3> QED BY <2>1, <3>2, SwapMoves
  <2>2. Install => task[Admin].cert # None
    BY <1>q, InstallMoves
  <2>3. row.cur # row.prev
    BY <1>e DEF Exclusive
  <2> QED BY <1>q, <2>1, <2>2, <2>3, RowMoves
<1>d. \A c, id, source : Retired(c, id, source).cert = c /\ Retired(c, id, source).id = id
                        /\ Retired(c, id, source).claim = "free"
  BY DEF Retired
<1>h. ASSUME NEW t \in Requests, task[t].pc \in Holding
      PROVE  ca[task[t].cert] = "active" /\ (\A r \in Pending : r.cert # task[t].cert) /\ task[t].cert \in Certs
             /\ task[t].cert \notin {row.cur, row.prev}
  <2>1. task[t].cert \in Certs
    BY <1>h, Constants DEF TypeInv, TasksFit, Fits
  <2> QED BY <1>e, <1>h, <1>q, <2>1 DEF HandsAreClean, Holds
<1>2. /\ \A r, q \in Pending' : r.cert = q.cert => r = q
      /\ \A q \in Pending' : /\ q.cert \notin {row'.cur, row'.prev} /\ ca'[q.cert] # "none"
                             /\ q.claim = "free" => ca'[q.cert] = "active"
  <2>1. CASE Still
    <3>1. Pending' = Pending
      BY <2>1 DEF Still, Pending
    <3>2. ASSUME NEW q \in Pending, q.claim = "free" PROVE ca'[q.cert] = "active"
      <4>1. \A r \in Pending : r.cert = q.cert => r.claim = "free"
        BY <1>a, <3>2
      <4>2. \A t \in Requests : ~Direct(t) \/ task[t].cert # q.cert
        BY <1>h, DirectPc
      <4> QED BY <1>a, <1>e, <1>q, <3>2, <4>1, <4>2, StaysActive
    <3>3. \A q \in Pending : ca'[q.cert] # "none"
      BY <1>a, <1>q, AuthorityMoves
    <3> QED BY <1>a, <2>1, <3>1, <3>2, <3>3 DEF Still
  <2>2. ASSUME NEW rows \in SUBSET Pending, NEW claim \in {"free", "held", "stale"}, Marking(rows, claim)
        PROVE  /\ \A r, q \in Pending' : r.cert = q.cert => r = q
               /\ \A q \in Pending' : /\ q.cert \notin {row'.cur, row'.prev} /\ ca'[q.cert] # "none"
                                      /\ q.claim = "free" => ca'[q.cert] = "active"
    <3>0. retired' = Update(rows, claim, FALSE) /\ UNCHANGED <<row, ca>>
      BY <2>2 DEF Marking
    <3>1. \A r, q \in Pending' : r.cert = q.cert => r = q
      BY <1>q, <1>a, <3>0, UpdateMoves
    <3>u. QueueFits /\ retired' = Update(rows, claim, FALSE)
      BY <1>q, <3>0
    <3>2. \A q \in Pending' : q \in Pending \ rows \/ MarkOf(q, rows, claim)
      BY <3>u, UpdateMoves
    <3>3. ASSUME NEW r \in rows, claim = "free" PROVE ca[r.cert] = "active"
      <4>1. PICK t \in Threads : task[t].pc = "release" /\ rows = {p \in Pending : p.id = task[t].claimed}
        BY <2>2, <3>3 DEF Marking
      <4>2. ca[task[t].claimed] = "active" /\ task[t].claimed \in Certs
        BY <1>e, <1>t, <4>1 DEF Exclusive, Working
      <4>3. r.cert = task[t].claimed
        BY <1>q, <4>1, <4>2
      <4> QED BY <4>2, <4>3
    <3>4. ASSUME NEW q \in Pending'
          PROVE  /\ q.cert \notin {row'.cur, row'.prev} /\ ca'[q.cert] # "none"
                 /\ q.claim = "free" => ca'[q.cert] = "active"
      <4>1. CASE q \in Pending \ rows
        BY <1>a, <3>0, <4>1
      <4>2. CASE MarkOf(q, rows, claim)
        <5>1. PICK r \in rows : q.cert = r.cert /\ q.claim = claim
          BY <4>2 DEF MarkOf
        <5> QED BY <1>a, <3>0, <3>3, <5>1
      <4> QED BY <3>2, <4>1, <4>2
    <3> QED BY <3>1, <3>4
  <2>3. ASSUME NEW t \in Threads, Ending(t)
        PROVE  /\ \A r, q \in Pending' : r.cert = q.cert => r = q
               /\ \A q \in Pending' : /\ q.cert \notin {row'.cur, row'.prev} /\ ca'[q.cert] # "none"
                                      /\ q.claim = "free" => ca'[q.cert] = "active"
    <3>1. UNCHANGED <<row, ca>> /\ Pending' \in SUBSET Pending
      BY <2>3 DEF Ending
    <3> QED BY <1>a, <3>1
  <2>4. ASSUME NEW ds, NEW source, NEW gone, Leaving(ds, source, gone)
        PROVE  /\ \A r, q \in Pending' : r.cert = q.cert => r = q
               /\ \A q \in Pending' : /\ q.cert \notin {row'.cur, row'.prev} /\ ca'[q.cert] # "none"
                                      /\ q.claim = "free" => ca'[q.cert] = "active"
    <3>0. /\ retired' = Displace(ds, source) \ gone /\ UNCHANGED ca /\ gone \in SUBSET retired
          /\ \A d \in ds : d \in {<<row.cur, row.curId>>, <<row.prev, row.prevId>>}
          /\ \A d \in ds : d[1] # None => d[1] \notin {row'.cur, row'.prev}
          /\ \A r \in Pending \ gone : r.cert \notin {row'.cur, row'.prev}
      BY <2>4 DEF Leaving, Pending
    <3>u. QueueFits /\ gone \in SUBSET retired /\ retired' = Displace(ds, source) \ gone
      BY <1>q, <3>0
    <3>v. \A q \in Pending' : q \in Pending \ gone \/ LeftBy(q, ds, source)
      BY <3>u, DisplaceMoves
    <3>1. \A q \in Pending' : \/ q \in Pending \ gone
                             \/ \E d \in ds : d[1] # None /\ q = Retired(d[1], d[2], source)
      BY <3>v DEF LeftBy
    <3>2. ASSUME NEW d \in ds, d[1] # None
          PROVE  d[1] \in {row.cur, row.prev} /\ ca[d[1]] = "active" /\ \A r \in Pending : r.cert # d[1]
      BY <1>a, <1>e, <3>0, <3>2 DEF Alive
    <3>3. ASSUME NEW d \in ds, NEW e \in ds, d[1] = e[1] PROVE d = e
      <4>1. row.cur # row.prev
        BY <1>e DEF Exclusive
      <4> QED BY <3>0, <3>3, <4>1
    <3>4. ASSUME NEW r \in Pending', NEW q \in Pending', r.cert = q.cert PROVE r = q
      <4>1. CASE r \in Pending /\ q \in Pending
        BY <1>a, <3>4, <4>1
      <4>2. ASSUME NEW d \in ds, d[1] # None, q = Retired(d[1], d[2], source) PROVE r = q
        <5>1. q.cert = d[1]
          BY <1>d, <4>2
        <5>2. r \notin Pending
          BY <3>2, <3>4, <4>2, <5>1
        <5>3. PICK e \in ds : e[1] # None /\ r = Retired(e[1], e[2], source)
          BY <3>1, <5>2
        <5>4. e[1] = d[1]
          BY <1>d, <3>4, <5>1, <5>3
        <5> QED BY <3>3, <4>2, <5>3, <5>4
      <4>3. ASSUME NEW d \in ds, d[1] # None, r = Retired(d[1], d[2], source) PROVE q \notin Pending
        <5>1. r.cert = d[1]
          BY <1>d, <4>3
        <5> QED BY <3>2, <3>4, <4>3, <5>1
      <4> QED BY <3>1, <4>1, <4>2, <4>3
    <3>5. ASSUME NEW q \in Pending'
          PROVE  /\ q.cert \notin {row'.cur, row'.prev} /\ ca'[q.cert] # "none"
                 /\ q.claim = "free" => ca'[q.cert] = "active"
      <4>1. CASE q \in Pending \ gone
        BY <1>a, <3>0, <4>1
      <4>2. ASSUME NEW d \in ds, d[1] # None, q = Retired(d[1], d[2], source)
            PROVE  q.cert \notin {row'.cur, row'.prev} /\ ca'[q.cert] = "active"
        <5>1. q.cert = d[1]
          BY <1>d, <4>2
        <5> QED BY <3>0, <3>2, <4>2, <5>1
      <4> QED BY <3>1, <4>1, <4>2
    <3> QED BY <3>4, <3>5
  <2>5. ASSUME NEW t \in Requests, Orphaning(t)
        PROVE  /\ \A r, q \in Pending' : r.cert = q.cert => r = q
               /\ \A q \in Pending' : /\ q.cert \notin {row'.cur, row'.prev} /\ ca'[q.cert] # "none"
                                      /\ q.claim = "free" => ca'[q.cert] = "active"
    <3> DEFINE new == Retired(task[t].cert, task[t].cert, "orphan_cleanup")
    <3>1. /\ new.cert = task[t].cert /\ UNCHANGED <<row, ca>> /\ retired' = retired \cup {new}
          /\ task[t].pc \in Holding
      BY <1>d, <2>5 DEF Orphaning, Holding
    <3> HIDE DEF new
    <3>2. \A q \in Pending' : q \in Pending \/ q = new
      BY <3>1 DEF Pending
    <3>3. /\ ca[new.cert] = "active" /\ new.cert \notin {row.cur, row.prev} /\ \A r \in Pending : r.cert # new.cert
      BY <1>h, <3>1
    <3> QED BY <1>a, <3>1, <3>2, <3>3
  <2> QED BY <1>e, <2>1, <2>2, <2>3, <2>4, <2>5, QueueMoves
<1>3. ASSUME NEW t \in Threads, task'[t].pc \in Working
      PROVE  /\ \E r \in Pending' : r.id = task'[t].claimed /\ r.claim = "held"
             /\ \A u \in Threads \ {t} : task'[u].claimed # task'[t].claimed
             /\ task'[t].pc = "release" => ca'[task'[t].claimed] = "active"
  <2> DEFINE Same(u) == task[u].pc \in Working /\ task'[u].claimed = task[u].claimed
             New(u) == /\ \E c \in Certs : /\ Claimable(c) # {} /\ retired' = Update(Claimable(c), "held", FALSE)
                                          /\ task'[u].claimed = c /\ task'[u].pc # "release"
                       /\ task[u].pc \notin Working
  <2>1. ASSUME NEW u \in Threads, task'[u].pc \in Working PROVE Same(u) \/ New(u)
    BY <2>1, ThreadMoves
  <2>2. ASSUME Same(t), task'[t].pc = "release" PROVE ca'[task'[t].claimed] = "active"
    <3> DEFINE c == task[t].claimed
    <3>0. c \in Certs /\ task'[t].claimed = c
      BY <1>t, <2>2
    <3>1. task[t].pc = "release" \/ (ca[c] = "active" /\ UNCHANGED ca)
      BY <1>3, <2>2, ThreadMoves
    <3>2. ASSUME task[t].pc = "release" PROVE ca'[c] = "active"
      <4>1. ca[c] = "active"
        BY <1>e, <3>2 DEF Exclusive, Working
      <4>2. PICK r \in Pending : r.id = c /\ r.cert = c
        <5>1. \E r \in Pending : r.id = c
          BY <1>e, <3>2 DEF Exclusive, Working
        <5> QED BY <5>1, <1>q, <3>0
      <4>3. ASSUME NEW u \in Threads, Delete(u) PROVE task[u].claimed # c
        <5>1. task[u].pc = "delete" /\ u # t
          BY <4>3, <3>2 DEF Delete
        <5> QED BY <1>e, <3>2, <5>1 DEF Exclusive, Working
      <4>4. ASSUME NEW u \in Requests, Direct(u) PROVE task[u].cert # c
        BY <1>h, <4>2, <4>4, DirectPc
      <4> QED BY <3>0, <4>1, <4>3, <4>4, AuthorityMoves
    <3> QED BY <3>0, <3>1, <3>2
  <2>3. ASSUME New(t) PROVE \E r \in Pending' : r.id = task'[t].claimed /\ r.claim = "held"
    <3>1. PICK c \in Certs : Claimable(c) # {} /\ retired' = Update(Claimable(c), "held", FALSE) /\ task'[t].claimed = c
      BY <2>3
    <3>2. PICK r \in Claimable(c) : r \in Pending /\ r.id = c
      BY <3>1 DEF Claimable
    <3>3. Claimable(c) \in SUBSET Pending
      BY DEF Claimable
    <3>4. \A p \in Claimable(c) : \E q : Remains(q, p, "held")
      BY <1>q, <3>1, <3>3, UpdateKeeps
    <3>5. PICK q : Remains(q, r, "held")
      BY <3>2, <3>4
    <3> QED BY <3>1, <3>2, <3>5 DEF Remains
  <2>4. ASSUME NEW u \in Threads, NEW v \in Threads, Same(u), New(v) PROVE task'[u].claimed # task'[v].claimed
    <3>1. PICK c \in Certs : Claimable(c) # {} /\ task'[v].claimed = c
      BY <2>4
    <3>2. PICK r \in Pending : r.id = c /\ r.claim # "held"
      BY <3>1 DEF Claimable
    <3>3. PICK q \in Pending : q.id = task[u].claimed /\ q.claim = "held"
      BY <1>e, <2>4 DEF Exclusive
    <3>4. task[u].claimed = c => r.cert = q.cert
      BY <1>q, <3>1, <3>2, <3>3
    <3> QED BY <1>a, <2>4, <3>1, <3>2, <3>3, <3>4
  <2>5. ASSUME NEW u \in Threads \ {t} PROVE task'[u].claimed # task'[t].claimed
    <3>1. CASE task'[u].pc \notin Working
      BY <1>3, <1>t, <3>1
    <3>2. CASE Same(u) /\ Same(t)
      BY <1>e, <3>2 DEF Exclusive
    <3>3. CASE New(u) /\ New(t) /\ task'[u].pc \in Working
      <4>1. task'[u] # task[u] /\ task'[t] # task[t]
        BY <1>3, <3>3
      <4> HIDE DEF Acts
      <4> QED BY <4>1, OneActs
    <3> HIDE DEF Same, New
    <3> QED BY <1>3, <2>1, <2>4, <3>1, <3>2, <3>3
  <2>6. Same(t) => \E r \in Pending' : r.id = task'[t].claimed /\ r.claim = "held"
    BY <1>3, ClaimStays
  <2>7. New(t) => task'[t].pc # "release"
    OBVIOUS
  <2> HIDE DEF Same, New
  <2> QED BY <1>3, <2>1, <2>2, <2>3, <2>5, <2>6, <2>7
<1> QED BY <1>1, <1>2, <1>3 DEF Exclusive

(* Where a reservation comes from. *)
LEMMA PendingMoves ==
  ASSUME TypeInv, PruneKnows, Kept, Undamaged, [Next]_vars, NEW q \in Pending'
  PROVE  \/ \E r \in Pending : r.cert = q.cert /\ r.id = q.id
         \/ /\ UNCHANGED ca /\ q.cert # None
            /\ <<q.cert, q.id>> \in {<<row.cur, row.curId>>, <<row.prev, row.prevId>>}
         \/ /\ UNCHANGED ca
            /\ \E t \in Requests : Orphaning(t) /\ q.cert = task[t].cert /\ q.id = task[t].cert
<1>q. QueueFits
  BY DEF TypeInv
<1>d. \A c, id, source : Retired(c, id, source).cert = c /\ Retired(c, id, source).id = id
  BY DEF Retired
<1>1. CASE Still
  BY <1>1 DEF Still, Pending
<1>2. ASSUME NEW rows \in SUBSET Pending, NEW claim \in {"free", "held", "stale"}, Marking(rows, claim)
      PROVE  \E r \in Pending : r.cert = q.cert /\ r.id = q.id
  <2>1. retired' = Update(rows, claim, FALSE)
    BY <1>2 DEF Marking
  <2>2. \A p \in Pending' : p \in Pending \ rows \/ MarkOf(p, rows, claim)
    BY <1>q, <2>1, UpdateMoves
  <2> QED BY <2>2 DEF MarkOf
<1>3. ASSUME NEW t \in Threads, Ending(t) PROVE q \in Pending
  BY <1>3 DEF Ending
<1>4. ASSUME NEW ds, NEW source, NEW gone, Leaving(ds, source, gone)
      PROVE  \/ \E r \in Pending : r.cert = q.cert /\ r.id = q.id
             \/ /\ UNCHANGED ca /\ q.cert # None
                /\ <<q.cert, q.id>> \in {<<row.cur, row.curId>>, <<row.prev, row.prevId>>}
  <2>1. /\ retired' = Displace(ds, source) \ gone /\ gone \in SUBSET retired /\ UNCHANGED ca
        /\ \A d \in ds : d \in {<<row.cur, row.curId>>, <<row.prev, row.prevId>>}
    BY <1>4 DEF Leaving, Pending
  <2>u. retired' = Displace(ds, source) \ gone /\ gone \in SUBSET retired
    BY <2>1
  <2>v. \A p \in Pending' : p \in Pending \ gone \/ LeftBy(p, ds, source)
    BY <1>q, <2>u, DisplaceMoves
  <2>2. q \in Pending \ gone \/ \E d \in ds : d[1] # None /\ q = Retired(d[1], d[2], source)
    BY <2>v DEF LeftBy
  <2>3. ASSUME NEW d \in ds, d[1] # None, q = Retired(d[1], d[2], source)
        PROVE  /\ q.cert # None
               /\ <<q.cert, q.id>> \in {<<row.cur, row.curId>>, <<row.prev, row.prevId>>}
    <3>1. q.cert = d[1] /\ q.id = d[2]
      BY <1>d, <2>3
    <3> QED BY <2>1, <2>3, <3>1
  <2> QED BY <2>1, <2>2, <2>3
<1>5. ASSUME NEW t \in Requests, Orphaning(t)
      PROVE  \/ q \in Pending
             \/ UNCHANGED ca /\ q.cert = task[t].cert /\ q.id = task[t].cert
  <2> DEFINE new == Retired(task[t].cert, task[t].cert, "orphan_cleanup")
  <2>1. new.cert = task[t].cert /\ new.id = task[t].cert
    BY <1>d
  <2>2. retired' = retired \cup {new} /\ UNCHANGED ca
    BY <1>5 DEF Orphaning
  <2> HIDE DEF new
  <2> QED BY <2>1, <2>2 DEF Pending
<1> QED BY <1>1, <1>2, <1>3, <1>4, <1>5, QueueMoves DEF Undamaged

(* A renewal gets a certificate by signing a new one. *)
LEMMA CertMoves ==
  ASSUME TypeInv, [Next]_vars, NEW t \in Requests
  PROVE  \/ /\ task'[t].cert \in {task[t].cert, None}
            /\ task'[t].pc \in Holding => task'[t].cert = task[t].cert /\ task[t].pc \in Holding
         \/ /\ task'[t].pc \in Holding
            /\ task'[t].cert \in Certs /\ ca[task'[t].cert] = "none" /\ ca'[task'[t].cert] = "active"
<1>1. t \in Threads /\ "reply" \notin Holding
  BY DEF Threads, Holding
<1>2. CASE Sign(t)
  BY <1>1, <1>2, SignMoves
<1>3. CASE ~Sign(t)
  BY <1>1, <1>3, ThreadMoves
<1> QED BY <1>2, <1>3

LEMMA HandsAreCleanStep ==
  ASSUME TypeInv, PruneKnows, Kept, Undamaged, [Next]_vars
  PROVE  HandsAreClean'
<1>e. Exclusive /\ HandsAreClean
  BY DEF Undamaged
<1>q. /\ \A t \in Threads : task[t].cert \in Ids /\ None \notin Certs /\ Ids = Certs \cup {None}
      /\ row.cur \in Certs /\ row.prev \in Ids /\ returned \subseteq Certs /\ Spare \in Certs
      /\ Admin \in Threads /\ Requests \subseteq Threads /\ "settle" \notin Holding /\ "reply" \notin Holding
  BY Constants DEF TypeInv, TasksFit, Task, RowFits, Rows, RowType, RestFits, Ids, Threads, Holding
<1>h1. \A t \in Requests : task[t].cert # None =>
         /\ ca[task[t].cert] # "none"
         /\ \A u \in Requests \ {t} : task[u].cert # task[t].cert
  BY <1>e DEF HandsAreClean
<1>h2. \A c \in (returned \cup {Spare, row.cur, row.prev, task[Admin].cert}) \ {None} :
         ca[c] # "none" /\ \A t \in Requests : ~Holds(t, c)
  BY <1>e DEF HandsAreClean
<1>h3. \A t \in Requests : task[t].pc \in Holding =>
         ca[task[t].cert] = "active" /\ \A r \in Pending : r.cert # task[t].cert
  BY <1>e DEF HandsAreClean
<1>f. ASSUME NEW t \in Requests, task[t].pc \in Holding PROVE task[t].cert \in Certs
  BY <1>f, Constants DEF TypeInv, TasksFit, Fits
<1>n. \A c \in Certs : ca[c] # "none" => ca'[c] # "none"
  BY AuthorityMoves
<1> DEFINE Unsigned(t) == /\ task'[t].cert \in {task[t].cert, None}
                          /\ task'[t].pc \in Holding => task'[t].cert = task[t].cert /\ task[t].pc \in Holding
           New(t) == /\ task'[t].pc \in Holding
                     /\ task'[t].cert \in Certs /\ ca[task'[t].cert] = "none" /\ ca'[task'[t].cert] = "active"
<1>c. \A t \in Requests : Unsigned(t) \/ New(t)
  BY CertMoves
<1>o. ASSUME NEW t \in Requests, NEW u \in Requests \ {t}, New(t), New(u) PROVE FALSE
  <2>1. task'[t] # task[t] /\ task'[u] # task[u]
    BY <1>o, <1>h1, <1>q
  <2> HIDE DEF New
  <2> QED BY <2>1, <1>q, OneActs
<1>1. ASSUME NEW t \in Requests, task'[t].cert # None
      PROVE  /\ ca'[task'[t].cert] # "none"
             /\ \A u \in Requests \ {t} : task'[u].cert # task'[t].cert
  <2>1. CASE Unsigned(t)
    BY <1>1, <1>c, <1>h1, <1>n, <1>q, <2>1
  <2>2. CASE New(t)
    BY <1>1, <1>c, <1>h1, <1>o, <1>q, <2>2
  <2> QED BY <1>c, <2>1, <2>2
<1>h. ASSUME NEW t \in Requests, NEW c, Holds(t, c)', ca[c] # "none" PROVE Holds(t, c) /\ task'[t].pc \in Holding
  BY <1>c, <1>h DEF Holds
<1>2. ASSUME NEW c \in (returned' \cup {Spare, row'.cur, row'.prev, task'[Admin].cert}) \ {None}
      PROVE  ca'[c] # "none" /\ \A t \in Requests : ~Holds(t, c)'
  <2>1. CASE c \in (returned \cup {Spare, row.cur, row.prev, task[Admin].cert}) \ {None}
    <3>1. c \in Certs
      BY <1>q, <2>1
    <3> QED BY <1>h, <1>h2, <1>n, <2>1, <3>1
  <2>2. ASSUME NEW t \in Requests, c = task[t].cert, task'[t].pc \notin Holding
        PROVE  ca'[c] # "none" /\ \A u \in Requests : ~Holds(u, c)'
    <3>1. c \in Certs /\ ca[c] # "none"
      BY <1>2, <1>h1, <1>q, <2>2
    <3>2. ASSUME NEW u \in Requests, Holds(u, c)' PROVE FALSE
      <4>1. Holds(u, c) /\ task'[u].pc \in Holding
        BY <1>h, <3>1, <3>2
      <4>2. u # t
        BY <2>2, <4>1
      <4> QED BY <1>2, <1>h1, <2>2, <4>1, <4>2 DEF Holds
    <3> QED BY <1>n, <3>1, <3>2
  <2>3. ASSUME NEW t \in Requests, Swap(t), Commits(t), c = task[t].cert PROVE task'[t].pc \notin Holding
    <3>1. task[t].pc \in Holding /\ row'.cur = c
      BY <2>3, SwapMoves DEF Swap, Holding
    <3>2. row'.cur # row.cur
      BY <1>h2, <1>q, <2>3, <3>1 DEF Holds
    <3>3. ~Fault("commit")
      BY DEF Kept, Without, Fault
    <3>4. \E todo : Turns(t, [task[t] EXCEPT !.pc = "settle", !.ok = TRUE, !.todo = todo])
      BY <2>3, <3>2, <3>3 DEF Swap
    <3>5. task'[t].pc = "settle"
      BY <3>4, <1>q DEF Turns, Task, TypeInv, TasksFit
    <3> QED BY <3>5, <1>q
  <2>4. ASSUME NEW t \in Requests, Reply(t), c = task[t].cert PROVE task'[t].pc \notin Holding
    <3>1. task[t].pc \notin Holding /\ task'[t] = IdleTask
      <4>1. task'[t] = IdleTask
        BY <1>q, <2>4, RenewalMoves DEF Renewal
      <4> QED BY <1>q, <2>4, <4>1 DEF Reply
    <3> QED BY <3>1 DEF IdleTask, Holding
  <2>5. ASSUME c \in returned'
        PROVE  \/ c \in (returned \cup {Spare, row.cur, row.prev, task[Admin].cert}) \ {None}
               \/ \E t \in Requests : Reply(t) /\ c = task[t].cert
    <3>1. ASSUME NEW t \in Requests, Reply(t) PROVE returned' \subseteq returned \cup {task[t].cert}
      BY <3>1 DEF Reply
    <3>2. Install => returned' \subseteq returned \cup {task[Admin].cert}
      BY InstallMoves
    <3> QED BY <1>2, <2>5, <3>1, <3>2, Frames
  <2>6. ASSUME c \in {row'.cur, row'.prev}
        PROVE  \/ c \in (returned \cup {Spare, row.cur, row.prev, task[Admin].cert}) \ {None}
               \/ \E t \in Requests : Swap(t) /\ Commits(t) /\ c = task[t].cert
    <3>1. ASSUME NEW t \in Requests, Swap(t), Commits(t)
          PROVE  row'.cur = task[t].cert /\ row'.prev \in {row.cur, row.prev}
      BY <3>1, SwapMoves
    <3> QED BY <1>2, <2>6, <3>1, RowMoves
  <2>7. c = task'[Admin].cert => c \in (returned \cup {Spare, row.cur, row.prev, task[Admin].cert}) \ {None}
    BY <1>2, <1>q, ThreadMoves
  <2> QED BY <1>2, <2>1, <2>2, <2>3, <2>4, <2>5, <2>6, <2>7
<1>3. ASSUME NEW t \in Requests, task'[t].pc \in Holding
      PROVE  ca'[task'[t].cert] = "active" /\ \A r \in Pending' : r.cert # task'[t].cert
  <2> DEFINE c == task'[t].cert
  <2>1. CASE New(t)
    <3>1. ASSUME NEW q \in Pending', q.cert = c PROVE FALSE
      <4>1. ~UNCHANGED ca
        BY <2>1
      <4>2. PICK r \in Pending : r.cert = c
        BY <3>1, <4>1, PendingMoves
      <4> QED BY <1>e, <2>1, <4>2 DEF Exclusive
    <3> QED BY <2>1, <3>1
  <2>2. CASE Unsigned(t)
    <3>1. c = task[t].cert /\ task[t].pc \in Holding /\ c \in Certs /\ Holds(t, c)
      BY <1>3, <1>f, <2>2 DEF Holds
    <3>2. ca[c] = "active" /\ \A r \in Pending : r.cert # c
      BY <1>h3, <3>1
    <3>3. \A u \in Requests \ {t} : task[u].cert # c
      BY <1>h1, <1>q, <3>1
    <3>4. ca'[c] = "active"
      <4>1. \A u \in Requests : ~Direct(u) \/ task[u].cert # c
        BY <1>3, <1>q, <3>3, DirectPc
      <4> QED BY <1>e, <3>1, <3>2, <4>1, StaysActive
    <3>5. ASSUME NEW q \in Pending', q.cert = c PROVE FALSE
      <4>1. ASSUME <<q.cert, q.id>> \in {<<row.cur, row.curId>>, <<row.prev, row.prevId>>} PROVE FALSE
        <5>1. c \in {row.cur, row.prev} \ {None}
          BY <1>q, <3>1, <3>5, <4>1
        <5> QED BY <1>h2, <3>1, <5>1
      <4>2. ASSUME NEW u \in Requests, Orphaning(u), q.cert = task[u].cert PROVE FALSE
        BY <1>3, <1>q, <3>3, <3>5, <4>2 DEF Orphaning
      <4> QED BY <3>2, <3>5, <4>1, <4>2, PendingMoves
    <3> QED BY <3>4, <3>5
  <2> HIDE DEF New, Unsigned
  <2> QED BY <1>c, <2>1, <2>2
<1> QED BY <1>1, <1>2, <1>3 DEF HandsAreClean

(* Nobody but an operator reaches the certificate that was enrolled by hand, *)
(* in a slot or in the queue.                                                *)
Apart == ca[Spare] = "active" /\ Spare \notin {row.cur, row.prev} /\ \A r \in Pending : r.cert # Spare

(* What an import without an id leaves of it.                                *)
Nameless ==
  /\ ca[Spare] = "active" /\ (row.cur = Spare => row.curId = None) /\ (row.prev = Spare => row.prevId = None)
  /\ \A r \in Pending : r.cert = Spare => r.id = None

(* No renewal takes the spare certificate, or reserves it.                   *)
LEMMA SpareIsFree ==
  ASSUME TypeInv, Undamaged
  PROVE  /\ Spare \in Certs /\ Spare # None
         /\ \A t \in Requests : ~Holds(t, Spare)
         /\ \A t \in Requests : Direct(t) \/ Orphaning(t) \/ Swap(t) => task[t].cert # Spare
<1>1. Spare \in Certs /\ Spare # None
  BY Constants
<1>2. \A t \in Requests : ~Holds(t, Spare)
  BY <1>1 DEF Undamaged, HandsAreClean
<1> QED BY <1>1, <1>2 DEF Holds, Direct, Orphaning, Swap, Holding

LEMMA NamelessStays ==
  ASSUME TypeInv, PruneKnows, Kept, Undamaged, [Next]_vars, plan.handles = {}, Nameless
  PROVE  Nameless'
<1>q. /\ \A r \in Pending : r.id \in {r.cert, None}
      /\ task[Admin].pc = "install" => task[Admin].id = None
  <2>1. Fits(Admin, task[Admin])
    BY Constants DEF TypeInv, TasksFit
  <2> QED BY <2>1 DEF Fits, TypeInv, QueueFits, Retirement, Pending
<1>s. /\ Spare \in Certs /\ Spare # None
      /\ \A t \in Requests : Direct(t) \/ Orphaning(t) \/ Swap(t) => task[t].cert # Spare
  BY SpareIsFree
<1>1. ca'[Spare] = "active"
  <2>1. ASSUME NEW t \in Threads, Delete(t), task[t].claimed = Spare PROVE FALSE
    <3>1. PICK r \in Pending : r.id = Spare
      BY <2>1 DEF Undamaged, Exclusive, Delete, Working
    <3> QED BY <1>q, <1>s, <3>1 DEF Nameless
  <2> QED BY <1>s, <2>1, AuthorityMoves DEF Nameless
<1>2. (row'.cur = Spare => row'.curId = None) /\ (row'.prev = Spare => row'.prevId = None)
  <2>1. CASE /\ row'.cur = row.cur /\ row'.curId \in {row.curId, task[Admin].id}
             /\ task[Admin].pc = "install" \/ row'.curId = row.curId
             /\ (row'.prev = row.prev /\ row'.prevId = row.prevId) \/ (row'.prev = None /\ row'.prevId = None)
    BY <1>q, <2>1 DEF Nameless
  <2>2. ASSUME NEW t \in Requests, Swap(t), Commits(t)
        PROVE  (row'.cur = Spare => row'.curId = None) /\ (row'.prev = Spare => row'.prevId = None)
    BY <1>s, <2>2, SwapMoves DEF Nameless
  <2>3. CASE Install /\ task[Admin].cert # row.cur /\ row'.cur = task[Admin].cert /\ row'.prev = None /\ row'.prevId = None
    <3> DEFINE c == task[Admin].cert
    <3>1. task[Admin].id = None
      BY <1>q, <2>3 DEF Install
    <3>2. \/ UNCHANGED row
          \/ row'.curId = None
          \/ task[Admin].id = c \/ (c = row.prev /\ row.prevId = c) \/ \E r \in Pending : r.cert = c /\ r.id = c
      BY <2>3, InstallMoves
    <3>3. row'.cur = c
      BY <2>3
    <3> QED BY <1>s, <2>3, <3>1, <3>2, <3>3 DEF Nameless
  <2> QED BY <2>1, <2>2, <2>3, RowMoves
<1>3. ASSUME NEW q \in Pending', q.cert = Spare PROVE q.id = None
  <2>1. ASSUME <<q.cert, q.id>> \in {<<row.cur, row.curId>>, <<row.prev, row.prevId>>} PROVE q.id = None
    BY <1>3, <2>1 DEF Nameless
  <2>2. ASSUME NEW r \in Pending, r.cert = q.cert, r.id = q.id PROVE q.id = None
    BY <1>3, <2>2 DEF Nameless
  <2> QED BY <1>3, <1>s, <2>1, <2>2, PendingMoves
<1> QED BY <1>1, <1>2, <1>3 DEF Nameless

LEMMA ApartStays ==
  ASSUME TypeInv, PruneKnows, Kept, Undamaged, [Next]_vars, ~Install, Apart
  PROVE  Apart'
<1>q. \A r \in Pending : r.id \in {r.cert, None}
  BY DEF TypeInv, QueueFits, Retirement, Pending
<1>s. /\ Spare \in Certs /\ Spare # None
      /\ \A t \in Requests : Direct(t) \/ Orphaning(t) \/ Swap(t) => task[t].cert # Spare
  BY SpareIsFree
<1>1. ca'[Spare] = "active"
  <2>1. ASSUME NEW t \in Threads, Delete(t), task[t].claimed = Spare PROVE FALSE
    <3>1. PICK r \in Pending : r.id = Spare
      BY <2>1 DEF Undamaged, Exclusive, Delete, Working
    <3> QED BY <1>q, <1>s, <3>1 DEF Apart
  <2> QED BY <1>s, <2>1, AuthorityMoves DEF Apart
<1>2. Spare \notin {row'.cur, row'.prev}
  <2>1. ASSUME NEW t \in Requests, Swap(t), Commits(t)
        PROVE  Spare \notin {row'.cur, row'.prev}
    BY <1>s, <2>1, SwapMoves DEF Apart
  <2> QED BY <1>s, <2>1, RowMoves DEF Apart
<1>3. ASSUME NEW q \in Pending' PROVE q.cert # Spare
  <2>1. <<q.cert, q.id>> \in {<<row.cur, row.curId>>, <<row.prev, row.prevId>>} => q.cert # Spare
    BY DEF Apart
  <2>2. ASSUME NEW r \in Pending, r.cert = q.cert, r.id = q.id PROVE q.cert # Spare
    BY <2>2 DEF Apart
  <2> QED BY <1>s, <2>1, <2>2, PendingMoves
<1> QED BY <1>1, <1>2, <1>3 DEF Apart

LEMMA SpareIsNewStep ==
  ASSUME TypeInv, PruneKnows, Kept, Undamaged, [Next]_vars
  PROVE  SpareIsNew'
<1>e. SpareIsNew
  BY DEF Undamaged
<1>p. UNCHANGED plan
  BY Frames
<1>1. plan.handles = {} => Nameless'
  BY <1>e, NamelessStays DEF SpareIsNew, Nameless
<1>2. ASSUME plan.swaps <= 1
      PROVE  /\ done'.swaps <= 1
             /\ done'.swaps = 0 => task'[Admin].pc = "idle"
             /\ task'[Admin].pc \in Asking \/ done'.swaps = 0 => Apart'
  <2>e. /\ done.swaps <= 1
        /\ done.swaps = 0 => task[Admin].pc = "idle"
        /\ task[Admin].pc \in Asking \/ done.swaps = 0 => Apart
    BY <1>e, <1>2 DEF SpareIsNew, Apart
  <2>t. done \in Counts /\ plan.swaps \in Nat /\ Admin \in Threads /\ Admin \notin Requests /\ Admin # Prune
    BY Constants, CertAssumption DEF TypeInv, RowFits, RestFits
  <2>1. CASE \E fp, id, u : AskAdmin(fp, id, u)
    <3>1. done.swaps < plan.swaps /\ done'.swaps = done.swaps + 1 /\ ~Install
      BY <2>1, <2>t DEF AskAdmin, Counts, Install
    <3>2. done.swaps = 0 /\ done'.swaps = 1
      BY <1>2, <2>e, <2>t, <3>1 DEF Counts
    <3> QED BY <2>e, <3>1, <3>2, ApartStays
  <2>2. CASE ~\E fp, id, u : AskAdmin(fp, id, u)
    <3>1. done'.swaps = done.swaps
      <4>1. ASSUME NEW t \in Requests, Ask(t) PROVE done'.swaps = done.swaps
        BY <4>1, <2>t DEF Ask, Counts
      <4>2. ASSUME NEW t \in Requests, Swap(t) PROVE done'.swaps = done.swaps
        BY <4>2, <2>t, RenewedRow DEF Swap, Commits, Commit, Counts
      <4>3. Edit => done'.swaps = done.swaps
        BY <2>t DEF Edit, Counts
      <4> QED BY <2>2, <4>1, <4>2, <4>3, Frames
    <3>2. task'[Admin].pc \in Asking => task[Admin].pc \in Asking
      BY <2>2, <2>t, ThreadMoves
    <3>3. task[Admin].pc = "idle" => task'[Admin] = task[Admin]
      <4>1. Acts(Admin) => task[Admin].pc # "idle"
        BY <2>2, <2>t DEF Acts, Settling, Claim, Status, Delete, Stamp, Release, Settled, Crash,
                          Administration, Clash, IdClash, Look, Verify, Install
      <4> HIDE DEF Acts
      <4> QED BY <2>t, <4>1, OneActs
    <3>4. Install => done.swaps # 0 /\ task'[Admin].pc \notin Asking
      <4>1. Install => task[Admin].pc = "install"
        BY DEF Install
      <4>2. Install => Drop \/ \E todo : Turns(Admin, [task[Admin] EXCEPT !.pc = "settle", !.todo = todo])
        BY DEF Install
      <4>3. Drop => task'[Admin].pc = "idle"
        BY <2>t DEF Drop, Turns, IdleTask, TypeInv, TasksFit
      <4>4. ASSUME NEW todo, Turns(Admin, [task[Admin] EXCEPT !.pc = "settle", !.todo = todo])
            PROVE  task'[Admin].pc = "settle"
        BY <4>4, <2>t DEF Turns, Task, TypeInv, TasksFit
      <4> QED BY <2>e, <4>1, <4>2, <4>3, <4>4 DEF Asking
    <3> QED BY <2>e, <3>1, <3>2, <3>3, <3>4, ApartStays
  <2> QED BY <2>1, <2>2
<1> QED BY <1>1, <1>2, <1>p DEF SpareIsNew, Apart, Nameless

(* The current certificate and the one in grace are active at the CA: the   *)
(* hub never revokes a certificate that a machine may authenticate with.    *)
THEOREM SlotsStayAlive == Spec => []SlotsAreAlive
<1>1. Init => AliveInv
  <2> SUFFICES ASSUME Init PROVE AliveInv
    OBVIOUS
  <2>0. task[Prune].pc = "idle"
    BY Constants DEF Init, IdleTask
  <2>1. TypeInv /\ PruneKnows
    BY <2>0, TypeInit DEF PruneKnows
  <2>2. /\ row.cur = First /\ row.prev = None /\ Pending = {} /\ returned = {First} /\ installed = First
        /\ done.swaps = 0 /\ row.curId \in {First, None}
        /\ \A t \in Threads : task[t].pc = "idle" /\ task[t].cert = None /\ task[t].claimed = None
        /\ First \in Certs /\ Spare \in Certs /\ First # Spare /\ None \notin Certs
        /\ ca[First] = "active" /\ ca[Spare] = "active" /\ Admin \in Threads /\ Requests \subseteq Threads
    BY Constants DEF Init, IdleTask, Pending, First, Spare, None, Threads
  <2>3. \A t \in Threads : task[t].pc \notin Working \cup Holding \cup Asking
    BY <2>2 DEF Working, Holding, Asking
  <2>4. Exclusive
    BY <2>2, <2>3 DEF Exclusive
  <2>5. HandsAreClean
    BY <2>2, <2>3 DEF HandsAreClean, Holds
  <2>6. SpareIsNew
    BY <2>2 DEF SpareIsNew
  <2> QED BY <2>1, <2>2, <2>4, <2>5, <2>6 DEF AliveInv, Undamaged, Alive
<1>2. AliveInv /\ [Next]_vars => AliveInv'
  <2> SUFFICES ASSUME AliveInv, [Next]_vars PROVE AliveInv'
    OBVIOUS
  <2>1. TypeInv' /\ PruneKnows'
    BY TypeStep, PruneStep DEF AliveInv
  <2>2. Kept' = Kept
    BY Frames DEF Kept, Without, NamesOnlyNew
  <2>3. ASSUME Kept PROVE Undamaged'
    BY <2>3, ExclusiveStep, HandsAreCleanStep, SpareIsNewStep, AliveStep DEF AliveInv, Undamaged
  <2> QED BY <2>1, <2>2, <2>3 DEF AliveInv
<1>3. AliveInv => SlotsAreAlive
  BY DEF AliveInv, SlotsAreAlive, Kept, Undamaged, Alive
<1> QED BY <1>1, <1>2, <1>3, PTL DEF Spec

=============================================================================
