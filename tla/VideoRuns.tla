----------------------------- MODULE VideoRuns -----------------------------
(***************************************************************************)
(* One run of the videos surface, between its spec.yaml on Drive and the   *)
(* final.mp4 a viewer is served: saves of the spec, the detached render    *)
(* chain with its busy flag, the publication of what the chain left on     *)
(* disk, and serve_media, which keeps each host's copy of the published    *)
(* files in step with Drive through the changes feed.                      *)
(*                                                                         *)
(* A video is known by the version of the spec it shows; 0 is no video.    *)
(* Hosts have disks of their own.  A Redis, with the page token, the       *)
(* reverse index of files and the busy flag, serves one or several hosts.  *)
(* The token is modelled by what lies past it: the published files that    *)
(* changed since.                                                          *)
(***************************************************************************)
EXTENDS Naturals, FiniteSets

CONSTANTS
  Hosts,
  Redises,
  RedisOf,      \* the Redis of each host
  Renderers,    \* the hosts a chain can run on
  Chains,       \* chains that run at the same time
  MaxServed,    \* bound on requests served at the same time
  MaxSaves,     \* bound on saves of the spec
  MaxTriggers,  \* bound on chains started
  MaxFails      \* bound on chains that fail

ASSUME VideoRunsAssumption ==
  /\ RedisOf \in [Hosts -> Redises] /\ Renderers \subseteq Hosts
  /\ {MaxServed, MaxSaves, MaxTriggers, MaxFails} \subseteq Nat

VARIABLES
  spec,      \* version of spec.yaml
  video,     \* Drive: output.mp4
  archive,   \* Drive: explorer.tar.gz, "none", "hollow" without its page, "full"
  edited,    \* is spec.yaml newer than Drive's output.mp4
  seeded,    \* is there a token
  pending,   \* published files that changed past the token
  index,     \* published files the reverse index maps to a local path
  busy,      \* the busy flag
  staged,    \* disk: version of the staged spec.yaml
  output,    \* disk: output.mp4
  linked,    \* disk: does explorer/media/final.mp4 point to output.mp4
  explorer,  \* disk: the explorer directory, "none", "hollow" or "full"
  newer,     \* is spec.yaml newer than the disk's output.mp4
  chain,     \* chain c
  serve,     \* the request a host is serving
  triggers, fails,
  blind      \* history: has a change gone by unheard

driveVars == <<spec, video, archive, edited>>
redisVars == <<seeded, pending, index, busy>>
diskVars  == <<staged, output, linked, explorer, newer>>
counters  == <<triggers, fails, blind>>
videoVars == <<driveVars, redisVars, diskVars, chain, serve, counters>>

Files    == {"video", "archive"}
Versions == 0..(MaxSaves + 1)
Trees    == {"none", "hollow", "full"}

ChainSteps == {"idle", "stage", "render", "build", "read", "upload", "record", "pack", "note"}
ServeSteps == {"idle", "observe", "invalidate", "look", "pull", "write", "record", "reply"}

NoChain   == [pc |-> "idle", host |-> CHOOSE h \in Hosts : TRUE, full |-> FALSE, got |-> 0]
NoRequest == [pc |-> "idle", since |-> 0, took |-> {}, got |-> 0]

On(c, p)     == chain[c].pc = p
At(h, p)     == serve[h].pc = p
Follow(c, p) == chain' = [chain EXCEPT ![c].pc = p]
End(c)       == chain' = [chain EXCEPT ![c] = NoChain]
Goto(h, p)   == serve' = [serve EXCEPT ![h].pc = p]
Host(c)      == chain[c].host
Redis(c)     == RedisOf[Host(c)]

\* Drive's feed reports a published file to whoever has a token.
Reports(f) == pending' = [r \in Redises |-> IF seeded[r] THEN pending[r] \cup {f} ELSE {}]

-----------------------------------------------------------------------------
(* The spec.                                                               *)

\* A batch that is empty, or of which one edit fails, writes nothing.
WritesSpec(ops) == ops > 0

Save(ops) ==
  /\ spec + ops <= MaxSaves + 1
  /\ spec' = spec + ops
  /\ IF WritesSpec(ops)
     THEN edited' = TRUE /\ newer' = [h \in Hosts |-> TRUE]
     ELSE UNCHANGED <<edited, newer>>
  /\ UNCHANGED <<video, archive, redisVars, staged, output, linked, explorer,
                 chain, serve, counters>>

-----------------------------------------------------------------------------
(* trigger_rerender and trigger_build_only.                                *)

FreeForAll(h) == TRUE

\* SET NX: a second trigger is turned away while the flag is up.
Free(h) == ~busy[RedisOf[h]]

Start(c, h, full) ==
  /\ On(c, "idle") /\ Free(h) /\ triggers < MaxTriggers
  /\ busy' = [busy EXCEPT ![RedisOf[h]] = TRUE]
  /\ chain' = [chain EXCEPT ![c] = [NoChain EXCEPT !.pc = "stage", !.host = h, !.full = full]]
  /\ triggers' = triggers + 1
  /\ UNCHANGED <<driveVars, seeded, pending, index, diskVars, serve, fails, blind>>

TriggerRerender(c, h)  == Start(c, h, TRUE)
TriggerBuildOnly(c, h) == Start(c, h, FALSE)

Stage(c) ==
  /\ On(c, "stage")
  /\ staged' = [staged EXCEPT ![Host(c)] = spec]
  /\ Follow(c, IF chain[c].full THEN "render" ELSE "build")
  /\ UNCHANGED <<driveVars, redisVars, output, linked, explorer, newer, serve, counters>>

\* The flag goes down with a staging that fails.
StageFails(c) ==
  /\ On(c, "stage") /\ fails < MaxFails
  /\ busy' = [busy EXCEPT ![Redis(c)] = FALSE]
  /\ End(c)
  /\ fails' = fails + 1
  /\ UNCHANGED <<driveVars, seeded, pending, index, diskVars, serve, triggers, blind>>

Render(c) ==
  /\ On(c, "render")
  /\ output' = [output EXCEPT ![Host(c)] = staged[Host(c)]]
  /\ newer' = [newer EXCEPT ![Host(c)] = FALSE]
  /\ Follow(c, "build")
  /\ UNCHANGED <<driveVars, redisVars, staged, linked, explorer, serve, counters>>

\* build-clip-explorer makes the directory anew.
Build(c) ==
  /\ On(c, "build")
  /\ explorer' = [explorer EXCEPT ![Host(c)] = "full"]
  /\ linked' = [linked EXCEPT ![Host(c)] = output[Host(c)] # 0]
  /\ IF chain[c].full THEN Follow(c, "read") ELSE End(c)
  /\ UNCHANGED <<driveVars, redisVars, staged, output, newer, serve, counters>>

-----------------------------------------------------------------------------
(* publish_render_artifacts: whatever is on the disk by now.               *)

Read(c) ==
  /\ On(c, "read")
  /\ chain' = [chain EXCEPT ![c].pc  = IF output[Host(c)] # 0 THEN "upload" ELSE "pack",
                            ![c].got = output[Host(c)]]
  /\ UNCHANGED <<driveVars, redisVars, diskVars, serve, counters>>

Upload(c) ==
  /\ On(c, "upload")
  /\ video' = chain[c].got
  /\ edited' = FALSE
  /\ Reports("video")
  /\ chain' = [chain EXCEPT ![c].pc = "record", ![c].got = 0]
  /\ UNCHANGED <<spec, archive, seeded, index, busy, diskVars, serve, counters>>

RecordVideo(c) ==
  /\ On(c, "record")
  /\ index' = [index EXCEPT ![Redis(c)] = @ \cup {"video"}]
  /\ Follow(c, "pack")
  /\ UNCHANGED <<driveVars, seeded, pending, busy, diskVars, serve, counters>>

Pack(c) ==
  /\ On(c, "pack")
  /\ IF explorer[Host(c)] = "none"
     THEN End(c) /\ UNCHANGED <<archive, pending>>
     ELSE /\ archive' = explorer[Host(c)]
          /\ Reports("archive")
          /\ Follow(c, "note")
  /\ UNCHANGED <<spec, video, edited, seeded, index, busy, diskVars, serve, counters>>

RecordArchive(c) ==
  /\ On(c, "note")
  /\ index' = [index EXCEPT ![Redis(c)] = @ \cup {"archive"}]
  /\ End(c)
  /\ UNCHANGED <<driveVars, seeded, pending, busy, diskVars, serve, counters>>

\* A step that fails ends the chain; nothing lowers the flag.
ChainFails(c) ==
  /\ chain[c].pc \notin {"idle", "stage"} /\ fails < MaxFails
  /\ End(c)
  /\ fails' = fails + 1
  /\ UNCHANGED <<driveVars, redisVars, diskVars, serve, triggers, blind>>

\* The flag's hour is longer than a chain, and longer than a request: one in
\* flight at its end came in after the last upload.
FlagExpires(r) ==
  /\ busy[r] /\ \A c \in Chains : On(c, "idle") \/ Redis(c) # r
  /\ \A h \in Hosts : RedisOf[h] = r => At(h, "idle") \/ serve[h].since = video
  /\ busy' = [busy EXCEPT ![r] = FALSE]
  /\ UNCHANGED <<driveVars, seeded, pending, index, diskVars, chain, serve, counters>>

-----------------------------------------------------------------------------
(* serve_media for final.mp4.                                              *)

Get(h) ==
  /\ At(h, "idle") /\ Cardinality({g \in Hosts : ~At(g, "idle")}) < MaxServed
  /\ serve' = [serve EXCEPT ![h] = [NoRequest EXCEPT !.pc = "observe", !.since = video]]
  /\ UNCHANGED <<driveVars, redisVars, diskVars, chain, counters>>

\* observe: the first call takes the feed's end for a token; later ones take
\* what changed and move the token past it, for every host of the Redis.
Observe(h) ==
  LET r == RedisOf[h] IN
  /\ At(h, "observe")
  /\ seeded' = [seeded EXCEPT ![r] = TRUE]
  /\ pending' = [pending EXCEPT ![r] = {}]
  /\ serve' = [serve EXCEPT ![h].took = pending[r],
                            ![h].pc = IF pending[r] = {} THEN "look" ELSE "invalidate"]
  /\ UNCHANGED <<driveVars, index, busy, diskVars, chain, counters>>

\* The listing fails and the request serves what is on the disk.
ObserveFails(h) ==
  /\ At(h, "observe")
  /\ Goto(h, "look")
  /\ blind' = TRUE
  /\ UNCHANGED <<driveVars, redisVars, diskVars, chain, triggers, fails>>

\* 410: a new token; clear_workspace empties the index, the files stay.
TokenExpired(h) ==
  LET r == RedisOf[h] IN
  /\ At(h, "observe") /\ seeded[r]
  /\ pending' = [pending EXCEPT ![r] = {}]
  /\ index' = [index EXCEPT ![r] = {}]
  /\ Goto(h, "look")
  /\ blind' = TRUE
  /\ UNCHANGED <<driveVars, seeded, busy, diskVars, chain, triggers, fails>>

\* invalidate: the files the index maps are unlinked on this host.
Invalidate(h) ==
  LET r == RedisOf[h]  gone == serve[h].took \cap index[r] IN
  /\ At(h, "invalidate")
  /\ output' = [output EXCEPT ![h] = IF "video" \in gone THEN 0 ELSE @]
  /\ linked' = [linked EXCEPT ![h] = IF gone # {} THEN FALSE ELSE @]
  /\ explorer' = [explorer EXCEPT ![h] = IF "archive" \in gone THEN "none" ELSE @]
  /\ index' = [index EXCEPT ![r] = @ \ gone]
  /\ serve' = [serve EXCEPT ![h].pc = "look", ![h].took = {}]
  /\ UNCHANGED <<driveVars, seeded, pending, busy, staged, newer, chain, counters>>

\* A link that leads nowhere, and a missing one, both send to Drive.
Look(h) ==
  /\ At(h, "look")
  /\ IF linked[h] /\ output[h] # 0
     THEN serve' = [serve EXCEPT ![h].pc = "reply", ![h].got = output[h]]
     ELSE Goto(h, "pull")
  /\ UNCHANGED <<driveVars, redisVars, diskVars, chain, counters>>

\* _lazy_pull_output_mp4; nothing published is a 404.
Pull(h) ==
  /\ At(h, "pull")
  /\ serve' = IF video = 0 THEN [serve EXCEPT ![h] = NoRequest]
              ELSE [serve EXCEPT ![h].pc = "write", ![h].got = video]
  /\ UNCHANGED <<driveVars, redisVars, diskVars, chain, counters>>

Write(h) ==
  /\ At(h, "write")
  /\ output' = [output EXCEPT ![h] = serve[h].got]
  /\ newer' = [newer EXCEPT ![h] = FALSE]
  /\ linked' = [linked EXCEPT ![h] = TRUE]
  /\ explorer' = [explorer EXCEPT ![h] = IF @ = "none" THEN "hollow" ELSE @]
  /\ Goto(h, "record")
  /\ UNCHANGED <<driveVars, redisVars, staged, chain, counters>>

Unmapped(h) == {}

\* record: the published file is mapped to this host's path.
Mapped(h) == {"video"}

Record(h) ==
  /\ At(h, "record")
  /\ index' = [index EXCEPT ![RedisOf[h]] = @ \cup Mapped(h)]
  /\ Goto(h, "reply")
  /\ UNCHANGED <<driveVars, seeded, pending, busy, diskVars, chain, counters>>

Reply(h) ==
  /\ At(h, "reply")
  /\ serve' = [serve EXCEPT ![h] = NoRequest]
  /\ UNCHANGED <<driveVars, redisVars, diskVars, chain, counters>>

\* The worker dies with changes in hand, or with a file it has not recorded.
Dies(h) ==
  /\ serve[h].pc \in {"invalidate", "record"}
  /\ serve' = [serve EXCEPT ![h] = NoRequest]
  /\ blind' = TRUE
  /\ UNCHANGED <<driveVars, redisVars, diskVars, chain, triggers, fails>>

-----------------------------------------------------------------------------

VideoInit ==
  /\ spec = 1 /\ video = 0 /\ archive = "none" /\ edited = FALSE
  /\ seeded = [r \in Redises |-> FALSE] /\ pending = [r \in Redises |-> {}]
  /\ index = [r \in Redises |-> {}] /\ busy = [r \in Redises |-> FALSE]
  /\ staged = [h \in Hosts |-> 0] /\ output = [h \in Hosts |-> 0]
  /\ linked = [h \in Hosts |-> FALSE] /\ explorer = [h \in Hosts |-> "none"]
  /\ newer = [h \in Hosts |-> FALSE]
  /\ chain = [c \in Chains |-> NoChain] /\ serve = [h \in Hosts |-> NoRequest]
  /\ triggers = 0 /\ fails = 0 /\ blind = FALSE

ChainStep(c) ==
  \/ Stage(c) \/ StageFails(c) \/ Render(c) \/ Build(c) \/ Read(c) \/ Upload(c)
  \/ RecordVideo(c) \/ Pack(c) \/ RecordArchive(c) \/ ChainFails(c)

ServeStep(h) ==
  \/ Get(h) \/ Observe(h) \/ ObserveFails(h) \/ TokenExpired(h) \/ Invalidate(h)
  \/ Look(h) \/ Pull(h) \/ Write(h) \/ Record(h) \/ Reply(h) \/ Dies(h)

VideoNext ==
  \/ \E ops \in {0, 1} : Save(ops)
  \/ \E c \in Chains, h \in Renderers : TriggerRerender(c, h) \/ TriggerBuildOnly(c, h)
  \/ \E c \in Chains : ChainStep(c)
  \/ \E r \in Redises : FlagExpires(r)
  \/ \E h \in Hosts : ServeStep(h)

VideoSpec == VideoInit /\ [][VideoNext]_videoVars

-----------------------------------------------------------------------------
(* Properties.                                                             *)

\* The busy flag keeps chains apart, so what is published never goes back to
\* an older spec, whichever steps fail, and whatever serve_media puts on the
\* disk under a chain between its render and its upload.
NeverRollsBack == [][video' >= video]_videoVars

\* The observer of the videos surface is there so that a lazy-pulled file
\* does not become "permanently stale after a republish": as long as no
\* change went by unheard, a viewer is served no video older than the one
\* Drive held when the request came in.
ServesPublished ==
  ~blind => \A h \in Hosts : At(h, "reply") => serve[h].got >= serve[h].since

\* The badge of the run page compares the times of spec.yaml and of the
\* disk's output.mp4, or of Drive's where the disk has none.
Shown(h) == IF output[h] # 0 THEN output[h] ELSE video
Stale(h) == IF output[h] # 0 THEN newer[h] ELSE video # 0 /\ edited

\* VideoExplorerPage.tsx: "a user mid-edit never sees the green 'all good'
\* badge while their saves still aren't in the embedded player".
NoGreenBadge == \A h \in Hosts : Shown(h) \in 1..(spec - 1) => Stale(h)

=============================================================================
