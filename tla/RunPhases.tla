------------------------------ MODULE RunPhases ------------------------------
(***************************************************************************)
(* What a fork (opps/opp_forker.py) makes of its source's phases: the new  *)
(* run_state.yaml, written first, claims steps as done and carries the     *)
(* products later phases are handed; then the artifacts the claims are     *)
(* about are copied, while the source run may go on.  opps/sync.py and     *)
(* opps/summary.py read a run's lifecycle and stage off the same map.      *)
(*                                                                         *)
(* Every artifact is in the plugin's manifest, every step in its registry. *)
(***************************************************************************)
EXTENDS Forks, Sequences

CONSTANTS
  Skills,      \* skills, by their ordinal over all phases
  SkillPhase,  \* the ordinal of the phase a skill belongs to
  Keys,        \* paths under `products`
  KeyPhase,    \* the phase each is written in
  WriterOf,    \* the skill that writes it; Agent, the phase's agent
  Mapped,      \* the keys productProducers attributes; none of a phase: no map
  Agent,
  MaxForkEvents  \* bound on forks, and on forks that fail or cannot read their
                 \* source, together

\* A product is written by a skill of its phase, or by the phase's agent.
ASSUME RunPhasesAssumption ==
  /\ Skills \subseteq Nat /\ SkillPhase \in [Skills -> Phases]
  /\ KeyPhase \in [Keys -> Phases] /\ Mapped \subseteq Keys
  /\ Agent \notin Skills /\ WriterOf \in [Keys -> Skills \cup {Agent}]
  /\ \A k \in Keys : WriterOf[k] \in Skills => SkillPhase[WriterOf[k]] = KeyPhase[k]
  /\ MaxForkEvents \in Nat

VARIABLES
  folders,  \* the run folders, oldest first
  forking,  \* forking[p]: what request p does
  mishaps

phaseVars == <<folders, forking, mishaps>>

Statuses == {"pending", "in_progress", "done", "skipped", "error"}

\* A run folder: run_state.yaml, once `ready`, and for each skill and product
\* key the run that made what is there (0: nothing).  `whole`: no fork is, or
\* was cut off, copying into it.  `sound` is a history variable: the fork was of
\* a whole run, sound itself, that had done every phase before the fork point.
NoRun == [status   |-> [h \in Phases |-> "pending"],
          steps    |-> [s \in Skills |-> "absent"],
          products |-> [k \in Keys |-> 0],
          files    |-> [s \in Skills |-> 0],
          ready |-> FALSE, whole |-> FALSE, sound |-> FALSE]

NoForking == [step |-> "idle", src |-> 0, at |-> 0, skill |-> 0, targets |-> {},
           run |-> 0, todo |-> {}]

Put(r, run) == folders' = [folders EXCEPT ![r] = run]
AtStep(p, s) == forking[p].step = s
MayHappen == Len(folders) - 1 + mishaps < MaxForkEvents
BeingFilled(r) == \E p \in Forkers : forking[p].run = r

-----------------------------------------------------------------------------
(* The plugin works on a run: an artifact, then the state that records it. *)

Open(run, h) ==
  /\ run.status[h] \in {"pending", "in_progress"}
  /\ \A g \in Phases : g < h => run.status[g] \in {"done", "skipped"}

Working(r) == folders[r].ready /\ ~BeingFilled(r)

\* Skill s is the next one of its phase.
Due(run, s) ==
  /\ Open(run, SkillPhase[s]) /\ run.steps[s] # "done"
  /\ \A t \in Skills : SkillPhase[t] = SkillPhase[s] /\ t < s => run.steps[t] = "done"

MakeArtifact(r, s) ==
  /\ Working(r) /\ Due(folders[r], s) /\ folders[r].files[s] # r
  /\ Put(r, [folders[r] EXCEPT !.files[s] = r])
  /\ UNCHANGED <<forking, mishaps>>

Writes(products, w, h, r) ==
  [k \in Keys |-> IF WriterOf[k] = w /\ KeyPhase[k] = h THEN r ELSE products[k]]

RecordStep(r, s) ==
  /\ Working(r) /\ Due(folders[r], s) /\ folders[r].files[s] = r
  /\ Put(r, [folders[r] EXCEPT !.steps[s] = "done",
                            !.products = Writes(@, s, SkillPhase[s], r)])
  /\ UNCHANGED <<forking, mishaps>>

\* The agent of a phase writes back after its skills, and may halt the run
\* there: what is pending is skipped.
Close(r, h, halts) ==
  /\ Working(r) /\ Open(folders[r], h)
  /\ \A s \in Skills : SkillPhase[s] = h => folders[r].steps[s] = "done"
  /\ Put(r, [folders[r] EXCEPT
               !.status = [g \in Phases |-> IF g = h THEN "done"
                                            ELSE IF halts /\ @[g] = "pending" THEN "skipped"
                                            ELSE @[g]],
               !.products = Writes(@, Agent, h, r)])
  /\ UNCHANGED <<forking, mishaps>>

Break(r, h) ==
  /\ Working(r) /\ Open(folders[r], h)
  /\ Put(r, [folders[r] EXCEPT !.status[h] = "error"])
  /\ UNCHANGED <<forking, mishaps>>

-----------------------------------------------------------------------------
(* fork_opp: a fork point is a phase, or a skill within it (skill # 0).    *)
(* The targets of a seeded run are phases; the fork is at the lowest.      *)

\* create_folder, in which there is no run_state.yaml yet.
Begin(p, src, at, skill, targets) ==
  /\ AtStep(p, "idle") /\ MayHappen
  /\ folders' = Append(folders, NoRun)
  /\ forking' = [forking EXCEPT ![p] =
       [NoForking EXCEPT !.step = "state", !.src = src, !.at = at, !.skill = skill,
                         !.targets = targets, !.run = Len(folders) + 1]]
  /\ UNCHANGED mishaps

BeginAtPhase(p, src, h) == Begin(p, src, h, 0, {g \in Phases : g >= h})
BeginAtSkill(p, src, s) == Begin(p, src, SkillPhase[s], s, {g \in Phases : g >= SkillPhase[s]})
BeginSeeded(p, src, targets) ==
  \E h \in targets : (\A g \in targets : h <= g) /\ Begin(p, src, h, 0, targets)

\* Skills whose work a skill fork keeps of the phase it forks.
Below(f, s) == s < f.skill

\* _build_phases_map.
SkillFork(f, h) == f.skill # 0 /\ h = f.at
Reset(f, h) == IF h < f.at THEN "done" ELSE IF h \in f.targets THEN "pending" ELSE "skipped"

CarriedToo(f, src) == {s \in Skills : SkillPhase[s] = f.at /\ s <= f.skill /\ src.steps[s] # "absent"}

\* _skill_fork_phase_block: recorded steps below the fork skill, verbatim.
Carried(f, src) == {s \in Skills : SkillPhase[s] = f.at /\ Below(f, s) /\ src.steps[s] # "absent"}

PhaseStatus(f, src, h) ==
  IF SkillFork(f, h) THEN (IF Carried(f, src) # {} THEN "in_progress" ELSE "pending")
                     ELSE Reset(f, h)

StepStatus(f, src, s) ==
  IF ~SkillFork(f, SkillPhase[s]) THEN Reset(f, SkillPhase[s])
  ELSE IF s \in Carried(f, src) THEN src.steps[s] ELSE "pending"

KeepsAgentsToo(f, k) == k \in Mapped /\ WriterOf[k] # Agent => Below(f, WriterOf[k])

\* _trim_products_by_attribution: an attributed key is kept iff its writer is
\* below the fork skill; the agent's never is; one without attribution always.
KeepsByAttribution(f, k) == k \in Mapped => WriterOf[k] # Agent /\ Below(f, WriterOf[k])

KeepsProduct(f, src, k) ==
  \/ KeyPhase[k] < f.at
  \/ /\ SkillFork(f, KeyPhase[k])
     /\ IF \E j \in Mapped : KeyPhase[j] = f.at THEN KeepsByAttribution(f, k)
                                                ELSE Carried(f, src) # {}

StateOf(f, src) ==
  [NoRun EXCEPT
     !.status   = [h \in Phases |-> PhaseStatus(f, src, h)],
     !.steps    = [s \in Skills |-> StepStatus(f, src, s)],
     !.products = [k \in Keys |-> IF KeepsProduct(f, src, k) THEN src.products[k] ELSE 0],
     !.ready    = TRUE,
     !.sound    = src.whole /\ src.sound /\ \A h \in Phases : h < f.at => src.status[h] = "done"]

\* run_state.yaml, from what can be read of the source's.
WriteRunState(p) ==
  LET f == forking[p]
      from(src) == /\ Put(f.run, StateOf(f, src))
                   /\ forking' = [forking EXCEPT ![p].step = "list"]
  IN /\ AtStep(p, "state")
     /\ \/ /\ from(IF folders[f.src].ready THEN folders[f.src] ELSE NoRun)
           /\ UNCHANGED mishaps
        \/ /\ MayHappen /\ mishaps' = mishaps + 1
           /\ from(NoRun)

\* _copy_run_subtree lists the source's folder: phase folders that are there.
ListSource(p) ==
  LET f == forking[p]
      disposition(h) == IF h < f.at THEN "keep" ELSE IF SkillFork(f, h) THEN "partial" ELSE "skip"
      there(h) == \E s \in Skills : SkillPhase[s] = h /\ folders[f.src].files[s] # 0
  IN /\ AtStep(p, "list")
     /\ forking' = [forking EXCEPT ![p].step = "copy",
                             ![p].todo = {h \in Phases : disposition(h) # "skip" /\ there(h)}]
     /\ UNCHANGED <<folders, mishaps>>

\* Of a phase folder, the artifacts that are there when it is listed.
KeepsArtifact(f, s) == SkillFork(f, SkillPhase[s]) => Below(f, s)

CopyPhase(p, h) ==
  LET f == forking[p]
  IN /\ AtStep(p, "copy") /\ h \in f.todo
     /\ Put(f.run, [folders[f.run] EXCEPT !.files =
                      [s \in Skills |-> IF SkillPhase[s] = h /\ KeepsArtifact(f, s)
                                        THEN folders[f.src].files[s] ELSE @[s]]])
     /\ forking' = [forking EXCEPT ![p].todo = @ \ {h}]
     /\ UNCHANGED mishaps

Finish(p) ==
  LET r == forking[p].run
  IN /\ AtStep(p, "copy") /\ forking[p].todo = {}
     /\ Put(r, [folders[r] EXCEPT !.whole = TRUE])
     /\ forking' = [forking EXCEPT ![p] = NoForking]
     /\ UNCHANGED mishaps

\* A Drive call raises, or the worker dies: what is there stays.
Fail(p) ==
  /\ ~AtStep(p, "idle") /\ MayHappen
  /\ mishaps' = mishaps + 1
  /\ forking' = [forking EXCEPT ![p] = NoForking]
  /\ UNCHANGED folders

-----------------------------------------------------------------------------
(* Readers.                                                                *)

\* _derive_phase_progress: any status that is not pending counts as done.
HasPending(run) == \E h \in Phases : run.status[h] = "pending"
HasError(run)   == \E h \in Phases : run.status[h] = "error"
Lifecycle(run)  == IF HasPending(run) \/ HasError(run) THEN "in_progress" ELSE "complete"

\* _phase_state: a phase that has products has run, whatever its status.
Ran(run, h) ==
  /\ run.status[h] # "skipped"
  /\ run.status[h] # "pending" \/ \E k \in Keys : KeyPhase[k] = h /\ run.products[k] # 0

\* _read_stage: the furthest phase that has run.
IsStage(run, h) == Ran(run, h) /\ \A g \in Phases : g > h => ~Ran(run, g)

-----------------------------------------------------------------------------

\* The opp has one run, which has not begun.
PhasesInit ==
  /\ folders = <<[NoRun EXCEPT !.ready = TRUE, !.whole = TRUE, !.sound = TRUE]>>
  /\ forking = [p \in Forkers |-> NoForking]
  /\ mishaps = 0

ForkStep(p) ==
  \/ \E src \in DOMAIN folders :
       \/ \E h \in Phases : BeginAtPhase(p, src, h)
       \/ \E s \in Skills : BeginAtSkill(p, src, s)
       \/ \E only \in SUBSET Phases : BeginSeeded(p, src, only)
  \/ WriteRunState(p) \/ ListSource(p) \/ (\E h \in Phases : CopyPhase(p, h))
  \/ Finish(p) \/ Fail(p)

RunStep(r) ==
  \/ \E s \in Skills : MakeArtifact(r, s) \/ RecordStep(r, s)
  \/ \E h \in Phases : Break(r, h) \/ \E halts \in BOOLEAN : Close(r, h, halts)

PhasesNext == (\E p \in Forkers : ForkStep(p)) \/ (\E r \in DOMAIN folders : RunStep(r))

PhasesSpec == PhasesInit /\ [][PhasesNext]_phaseVars

-----------------------------------------------------------------------------
(* Properties.                                                             *)

\* _skill_fork_phase_block, "The artifact rule now applies to the state": in a
\* fork that has copied everything of a sound source, what reads as done is
\* there, although the source went on between the two.
DoneHasItsFiles ==
  \A r \in DOMAIN folders : folders[r].whole /\ folders[r].sound =>
    \A s \in Skills : folders[r].steps[s] = "done" => folders[r].files[s] # 0

WriterDone(run, k) == IF WriterOf[k] = Agent THEN run.status[KeyPhase[k]] = "done"
                                             ELSE run.steps[WriterOf[k]] = "done"

\* ace#1888 and ace#2354: through any chain of forks, what was written by a step
\* that counts as done is handed on, and an attributed product made in an
\* earlier run is handed on only if its writer's step is not to run again.
HandoffMatchesSteps ==
  \A r \in DOMAIN folders : folders[r].ready =>
    \A k \in Keys :
      /\ folders[r].sound /\ WriterDone(folders[r], k) => folders[r].products[k] # 0
      /\ k \in Mapped /\ folders[r].products[k] \notin {0, r} => WriterDone(folders[r], k)

\* What a fork of a run says was done is there, and handed on.
ForksClaimWhatIsThere == DoneHasItsFiles /\ HandoffMatchesSteps

\* sync.py: "complete" is a run of which "every phase carries a done/complete
\* status"; one whose phase is in progress is not.
CompleteMeansDone ==
  \A r \in DOMAIN folders : folders[r].ready /\ Lifecycle(folders[r]) = "complete" =>
    \A h \in Phases : folders[r].status[h] \in {"done", "skipped"}

\* summary.py: the stage a page shows is the furthest phase that has run.
StageHasRun ==
  \A r \in DOMAIN folders : \A h \in Phases : folders[r].ready /\ IsStage(folders[r], h) =>
    \/ folders[r].status[h] # "pending"
    \/ \E s \in Skills : SkillPhase[s] = h /\ folders[r].steps[s] = "done"

=============================================================================
