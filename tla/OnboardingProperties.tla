------------------------ MODULE OnboardingProperties ------------------------
(***************************************************************************)
(* What the platform and the onboarding pipeline on it promise.            *)
(***************************************************************************)
EXTENDS Onboarding

\* stop_all of a platform that came up, and in which nothing failed, leaves no
\* module running, whatever was restarted before.
StopAllStopsASoundPlatform ==
  [][doing = "stop_all" /\ doing' = "idle" /\ declared
       /\ (\A m \in Modules : lifecycle'[m] # "Failed")
     => \A m \in Modules : status'[m] = "Stopped"]_vars

\* A stored record is accepted by its own verification exactly when no stage
\* of it was left half done: its subscriber raised after the stage had passed,
\* or its artifact was kept and no transition could be made of it.  Whatever
\* Security Core answered otherwise and however the platform changed on the
\* way, the transitions are the stages in order, each starting from what the
\* last one left; and no record of a stage left half done passes for sound.
QuietRecordsVerify ==
  \A id \in DOMAIN records :
    Verify(records[id]) <=>
      \A k \in DOMAIN records[id].transitions :
        records[id].transitions[k].reason \notin {"publish", "hash"}

\* A customer is Operational only when Security Core holds both assignments
\* of its onboarding, for the organization and the identity requested.  A
\* receipt that passes validation is taken at its word: the pipeline compares
\* its organization and its type, not the identity, the roles or the key.
OperationalIsBacked ==
  \A id \in DOMAIN records :
    records[id].state = "Operational" =>
      \A k \in {3, 6} : Assignment(records[id].request, k) \in assigned

\* Once an onboarding is recorded, its record is never replaced and never
\* changes, and its idempotency keys stand for what the record asked for:
\* duplicates and replays ask Security Core for nothing else.
KeysKeepTheirMeaning ==
  [][\A id \in DOMAIN records :
       /\ id \in DOMAIN records' /\ records'[id] = records[id]
       /\ \A a \in assigned' \ assigned :
            a.key[1] = id => a = Assignment(records[id].request, a.key[2])]_vars

\* Replay is deterministic: unless the platform or Security Core changed since
\* the recorded run began, it reproduces the record and reports it verified.
UndisturbedReplayVerifies ==
  [][\A c \in Callers :
       call[c].kind = "replay" /\ call'[c] = Idle
         /\ call[c].record.request.id \notin disturbed
       => Last(audit').event = "replay.verified"]_vars
=============================================================================
