------------------------------ MODULE MCWork ------------------------------
(* Model-checking instances of what a collector and the hub exchange about  *)
(* its files: Collector, Heartbeat, Multipart, and Ingest of one copy under *)
(* faults.  A behaviour is one of one of them.                              *)
EXTENDS Collector, Heartbeat, Multipart

CONSTANTS t, u

VARIABLES part,
          local, hashes, live, req, r2, prev, files, session, owned, queue, job, saved, judged,
          plan, edits, faults  \* those of Ingest

ingestVars == <<local, hashes, live, req, r2, prev, files, session, owned, queue, job, saved, judged,
                plan, edits, faults>>

workVars == <<collectorVars, heartbeatVars, multipartVars, ingestVars, part>>

-----------------------------------------------------------------------------
Tour(log, vault, image, modes, hubs, strikes, purge) ==
  [versions |-> [log |-> log, vault |-> vault, img |-> image], modes |-> modes, hubs |-> hubs, faults |-> strikes, purge |-> purge]

MCOwners == <<"log", "vault">>

Short == <<"a">>
Medium == <<"a", "b">>
Other == <<"c", "b">>
Refers == <<"a", "img">>
Long == <<"a", "b", "c">>
TooLong == <<"a", "b", "d", "e">>

MCTours ==
  {Tour(<<Short, Refers>>, <<>>, <<Short>>, <<"run", "run">>, <<"h1">>, {"die", "lost", "refuse"}, {}),
   Tour(<<Short, Refers>>, <<Short>>, <<Short, Other>>, <<"backfill">>, <<"h1">>, {"die", "read"}, {}),
   Tour(<<Refers>>, <<>>, <<Short>>, <<"dry">>, <<"h1">>, {"refuse"}, {}),
   Tour(<<Medium, Other, Medium>>, <<Short, Medium>>, <<>>, <<"run", "backfill">>, <<"h1">>, {"lost"}, {}),
   Tour(<<Long, TooLong>>, <<Short, <<"z">>, Short>>, <<>>, <<"dry", "backfill">>, <<"h1">>, {"locked", "refuse"}, {}),
   Tour(<<Refers>>, <<Short>>, <<Short>>, <<"run", "run">>, <<"h1", "h2", "h1">>, {"refuse"}, {}),
   Tour(<<Long, Long \o <<"img">>>>, <<Short>>, <<Short>>, <<"run", "backfill", "backfill">>, <<"h1">>,
        {"lost", "refuse"}, {"log", "vault"})}

-----------------------------------------------------------------------------
MCBytes == [x |-> 1, y |-> 2, big |-> 9]

Run(events) == [events |-> events, run |-> TRUE]
Backfill(events) == [events |-> events, run |-> FALSE]

MCBeatPlans ==
  {[passes |-> <<Run(<<"x", "y", "x">>), Run(<<"x", "y">>)>>, faults |-> {"lost", "die"}],
   [passes |-> <<Run(<<"big", "x", "y", "y", "x">>), Backfill(<<"big", "y">>), Run(<<"x">>)>>, faults |-> {"lost", "die", "refuse"}],
   [passes |-> <<Run(<<>>), Run(<<"y", "y", "y", "x", "y">>), Run(<<"x", "big", "y">>)>>, faults |-> {"lost", "die"}]}

-----------------------------------------------------------------------------
OnePart == <<1>>
Grows == <<1, 2>>
Mixed == <<3, 2>>
Rewritten == <<3, 4>>

MCContents == {OnePart, Grows, Mixed, Rewritten}

MultipartPlan(versions, strikes, carried, other) ==
  [versions |-> versions, faults |-> strikes, carried |-> carried, other |-> other]

MCMultipartPlans ==
  {MultipartPlan(<<Grows, Rewritten, Mixed>>, {}, Nothing, FALSE),
   MultipartPlan(<<OnePart, Grows, Rewritten>>, {"crash"}, Nothing, FALSE),
   MultipartPlan(<<Grows, Rewritten>>, {"timeout"}, Nothing, FALSE),
   MultipartPlan(<<Grows, Rewritten>>, {"timeout"}, Nothing, TRUE),
   MultipartPlan(<<OnePart, Grows>>, {"timeout", "refuse"}, Nothing, FALSE),
   MultipartPlan(<<Grows>>, {}, Mixed, FALSE),
   MultipartPlan(<<OnePart>>, {"crash"}, Mixed, FALSE),
   MultipartPlan(<<OnePart>>, {"refuse"}, Mixed, TRUE)}

-----------------------------------------------------------------------------
(* One copy and an edit, whatever dies on the way.                          *)
MCRevisions == {"a", "c"}

MCLive ==
  [copies : {{"laptop"}}, contents : {MCRevisions}, edits : {1},
   faults : {{"crash"}, {"object"}, {"throw"}}, backfill : {TRUE}]

I == INSTANCE Ingest WITH
       Files <- {"laptop"}, Revisions <- MCRevisions, Extends <- {}, ParseOf <- [r \in MCRevisions |-> "turns"],
       Better <- {}, SizeOf <- [r \in MCRevisions |-> 1], Tries <- {t}, Plans <- MCLive, known <- hashes

-----------------------------------------------------------------------------
WorkInit ==
  /\ part \in {"pass", "beat", "upload", "ingest"}
  /\ CollectorInit /\ HeartbeatInit /\ MultipartInit /\ I!Init
  /\ part # "pass" => tour.modes = <<"dry">>
  /\ part # "beat" => Len(beats.passes) = 2
  /\ part # "upload" => mplan.carried # Nothing /\ mplan.other
  /\ part # "ingest" => local["laptop"] = "a" /\ plan.faults = {"throw"}

WorkNext ==
  /\ UNCHANGED part
  /\ \/ part = "pass" /\ CollectorNext /\ UNCHANGED <<heartbeatVars, multipartVars, ingestVars>>
     \/ part = "beat" /\ HeartbeatNext /\ UNCHANGED <<collectorVars, multipartVars, ingestVars>>
     \/ part = "upload" /\ MultipartNext /\ UNCHANGED <<collectorVars, heartbeatVars, ingestVars>>
     \/ part = "ingest" /\ I!Next /\ UNCHANGED <<collectorVars, heartbeatVars, multipartVars>>

(* The fairness of each module, in its part.                                *)
WorkFairness ==
  /\ WF_collectorVars(part = "pass" /\ PassStep)
  /\ WF_heartbeatVars(part = "beat" /\ BeatStep)
  /\ WF_multipartVars(part = "upload" /\ UploadStep) /\ WF_multipartVars(part = "upload" /\ ParseStep)
  /\ \A n \in Requests : WF_multipartVars(part = "upload" /\ ServeUpload(n))
  /\ \A n \in Nonces : /\ WF_multipartVars(part = "upload" /\ Expire(n))
                       /\ WF_multipartVars(part = "upload" /\ Prune(n))
  /\ WF_ingestVars(part = "ingest" /\ I!Serve(<<"laptop", t>>))
  /\ WF_ingestVars(part = "ingest" /\ I!Send(<<"laptop", t>>))
  /\ WF_ingestVars(part = "ingest" /\ I!Consume)
  /\ WF_ingestVars(part = "ingest" /\ I!Backfill(<<"laptop", t>>))

WorkSpec == WorkInit /\ [][WorkNext]_workVars /\ WorkFairness

-----------------------------------------------------------------------------
(* What was asked for is done in the end: the files and the events reach    *)
(* the hub, no staging object stays; and while backfills go on the session  *)
(* keeps coming back to the file as it is: one that races a parse may have  *)
(* it parsed once more, but never leaves it behind.                         *)
WorkEnds ==
  /\ <>[](/\ part = "pass" => CaughtUp
          /\ part = "beat" => Delivered
          /\ part = "upload" => Arrived /\ Released
          /\ part = "ingest" => I!Stored)
  /\ []<>(part = "ingest" => I!BestIsServed)
=============================================================================
