--------------------------- MODULE CommandPalette ---------------------------
(***************************************************************************)
(* The command palette.  While it is open it holds a query of the projects *)
(* and, each time these or the environment on the screen change, warms the *)
(* cache: the environments of every project, and the secrets of the        *)
(* environment shown.  Once all is there the palette is ready and lists    *)
(* what the cache has.  Prefetches overlap: an older one is not aborted,   *)
(* its outcome is dropped.                                                 *)
(*                                                                         *)
(* Data.  A target is what one request loads: a project's environments or  *)
(* an environment's secrets.  The typed query, its matching and the theme  *)
(* commands are left out.                                                  *)
(***************************************************************************)
EXTENDS FiniteSets, QueryCache

CONSTANTS
  Project,       (* Projects.                                              *)
  Environment,   (* The environments whose page the palette is opened on.  *)
  Elsewhere,     (* In place of one: a page of no environment.             *)
  Prefetch       (* Bound: names for the prefetches not yet over.          *)

ASSUME PaletteAssumption ==
  /\ Elsewhere \notin Project \cup Environment
  /\ Project \cap Environment = {}
  /\ \A S \in SUBSET Project : S # NoData

VARIABLES
  projects,      (* The projects of the server.                            *)
  projectsQuery, (* The query of their list.                               *)
  screen,        (* activeContext: the environment on the screen.          *)
  palette,       (* The palette's own state.                               *)
  prefetches,    (* The effects that have begun to prefetch.               *)
  warm,          (* Targets in the cache.                                  *)
  loading        (* Targets being fetched.                                 *)

paletteVars ==
  << projects, projectsQuery, screen, palette, prefetches, warm, loading >>

Target == Project \cup Environment

(* recovered: the footer says so, until its timer (clears) fires.          *)
Closed == [open |-> FALSE, status |-> "pending", hadError |-> FALSE,
           recovered |-> FALSE, clears |-> FALSE]

(* todo: what the Promise.all still waits for.                             *)
NoPrefetch == [state |-> "none", todo |-> {}, cancelled |-> FALSE]

PaletteInit ==
  /\ projects \in SUBSET Project
  /\ projectsQuery = EmptyQuery
  /\ screen = Elsewhere
  /\ palette = Closed
  /\ prefetches = [g \in Prefetch |-> NoPrefetch]
  /\ warm = {} /\ loading = {}

Wanted(known, ctx) == known \cup ({ctx} \ {Elsewhere})

(* What the palette lists besides the projects.                            *)
envItems ==
  IF palette.status = "ready" THEN projectsQuery.data \cap warm ELSE {}
keyItems ==
  IF palette.status = "ready" THEN {screen} \cap warm ELSE {}

-----------------------------------------------------------------------------
(* Faulty variants of the operations below.                                *)

GoOn(gs) == gs

NotWaiting(known, ctx, aged) == aged \cap Wanted(known, ctx)

-----------------------------------------------------------------------------
(* The effects.                                                            *)

(* Watch(p, q, before): the effect on projectsErrored and status, after a  *)
(* render that took the palette from p to q, and isError from before to    *)
(* after.  Its cleanup clears the timer.                                   *)
Watch(p, q, before, after) ==
  IF p.status = q.status /\ before = after THEN q
  ELSE IF after \/ q.status = "error"
       THEN [q EXCEPT !.hadError = TRUE, !.clears = FALSE]
  ELSE IF q.hadError /\ q.status = "ready"
       THEN [q EXCEPT !.hadError = FALSE, !.recovered = TRUE, !.clears = TRUE]
  ELSE [q EXCEPT !.clears = FALSE]

SetStatus(p, status, err) == Watch(p, [p EXCEPT !.status = status], err, err)

(* The cleanup of the prefetch effect.                                     *)
Cancelled(gs) ==
  [g \in Prefetch |-> IF gs[g].state = "none" THEN NoPrefetch
                      ELSE [gs[g] EXCEPT !.cancelled = TRUE]]

(* ToLoad: fetchQuery is content with an answer that has not aged.         *)
ToLoad(known, ctx, aged) ==
  (Wanted(known, ctx) \ warm) \cup (aged \cap Wanted(known, ctx))

(* Restart(p, known, ctx, err): the prefetch effect runs again.            *)
Restart(p, known, ctx, err) ==
  IF known = NoData
  THEN palette' = p /\ UNCHANGED << prefetches, loading >>
  ELSE \E g \in Prefetch, aged \in SUBSET warm :
         LET todo == ToLoad(known, ctx, aged)
         IN  /\ prefetches[g].state = "none"
             /\ prefetches' = [Cancelled(prefetches) EXCEPT ![g] =
                  [state |-> "loading", todo |-> todo, cancelled |-> FALSE]]
             /\ loading' = loading \cup todo
             /\ palette' = SetStatus(p, "pending", err)

-----------------------------------------------------------------------------
(* Opening and closing.                                                    *)

(* The body mounts; a cached failure is seen at once.                      *)
OpenPalette ==
  /\ ~palette.open
  /\ \E aged \in BOOLEAN : projectsQuery' = MountQuery(projectsQuery, aged)
  /\ LET err    == projectsQuery'.error
         opened == [Closed EXCEPT !.open = TRUE, !.hadError = err]
     IN  Restart(opened, projectsQuery.data, screen, err)
  /\ UNCHANGED << projects, screen, warm >>

(* The key, the backdrop or a chosen item; and each page has an AppShell   *)
(* of its own, so that another page comes with a closed palette.           *)
ClosePalette ==
  /\ palette.open
  /\ palette' = Closed
  /\ prefetches' = Cancelled(prefetches)
  /\ projectsQuery' = UnmountQuery(projectsQuery)
  /\ screen' \in Environment \cup {Elsewhere}
  /\ UNCHANGED << projects, warm, loading >>

(* The browser goes from one environment to another under the open palette.*)
ChangeContext ==
  /\ palette.open /\ screen # Elsewhere
  /\ screen' \in Environment \ {screen}
  /\ Restart(palette, projectsQuery.data, screen', projectsQuery.error)
  /\ UNCHANGED << projects, projectsQuery, warm >>

ShowEnvironment(c) ==
  /\ ~palette.open /\ screen' = c
  /\ UNCHANGED << projects, projectsQuery, palette, prefetches, warm, loading >>

-----------------------------------------------------------------------------
(* The query of the projects.                                              *)

(* The query moves under the open palette: a list that differs starts a    *)
(* prefetch, one that does not is the same object.                         *)
ProjectsMove ==
  /\ QueryMoves(projectsQuery, projectsQuery', projects, palette.open)
  /\ IF ~palette.open THEN UNCHANGED << palette, prefetches, loading >>
     ELSE LET seen == Watch(palette, palette, projectsQuery.error,
                            projectsQuery'.error)
          IN  IF projectsQuery'.data # projectsQuery.data
              THEN Restart(seen, projectsQuery'.data, screen, projectsQuery'.error)
              ELSE palette' = seen /\ UNCHANGED << prefetches, loading >>
  /\ UNCHANGED << projects, screen, warm >>

(* The banner's button names what it fetches again.                        *)
Retry ==
  /\ palette.open /\ (projectsQuery.error \/ palette.status = "error")
  /\ IF projectsQuery.error
     THEN /\ projectsQuery' = Refetch(projectsQuery)
          /\ palette' = Watch(palette, palette, TRUE, projectsQuery'.error)
          /\ UNCHANGED << prefetches, loading >>
     ELSE /\ Restart(palette, projectsQuery.data, screen, FALSE)
          /\ UNCHANGED projectsQuery
  /\ UNCHANGED << projects, screen, warm >>

ProjectsChange ==
  /\ projects' \in (SUBSET Project) \ {projects}
  /\ UNCHANGED << projectsQuery, screen, palette, prefetches, warm, loading >>

-----------------------------------------------------------------------------
(* The requests.                                                           *)

(* One request serves every prefetch that waits for its target.            *)
TargetLoads(t) ==
  /\ t \in loading
  /\ loading' = loading \ {t} /\ warm' = warm \cup {t}
  /\ prefetches' = [g \in Prefetch |-> [prefetches[g] EXCEPT !.todo = @ \ {t}]]
  /\ UNCHANGED << projects, projectsQuery, screen, palette >>

(* A failure rejects the Promise.all; what was cached stays.               *)
TargetFails(t) ==
  /\ t \in loading
  /\ loading' = loading \ {t}
  /\ prefetches' = [g \in Prefetch |->
       IF t \in prefetches[g].todo
       THEN [prefetches[g] EXCEPT !.state = "failed", !.todo = {}]
       ELSE prefetches[g]]
  /\ UNCHANGED << projects, projectsQuery, screen, palette, warm >>

(* PrefetchEnds(g): then, or catch.                                        *)
PrefetchEnds(g) ==
  /\ prefetches[g].state # "none" /\ prefetches[g].todo = {}
  /\ palette' = IF prefetches[g].cancelled THEN palette
                ELSE SetStatus(palette,
                       IF prefetches[g].state = "failed" THEN "error" ELSE "ready",
                       projectsQuery.error)
  /\ prefetches' = [prefetches EXCEPT ![g] = NoPrefetch]
  /\ UNCHANGED << projects, projectsQuery, screen, warm, loading >>

(* An answer nobody shows is collected, after longer than a fetch takes.   *)
CollectTarget(t) ==
  /\ t \in warm \ loading /\ ~palette.open
  /\ warm' = warm \ {t}
  /\ UNCHANGED << projects, projectsQuery, screen, palette, prefetches, loading >>

RecoveredClears ==
  /\ palette.clears
  /\ palette' = [palette EXCEPT !.recovered = FALSE, !.clears = FALSE]
  /\ UNCHANGED << projects, projectsQuery, screen, prefetches, warm, loading >>

-----------------------------------------------------------------------------
PaletteNext ==
  \/ OpenPalette \/ ClosePalette \/ ChangeContext
  \/ \E c \in Environment : ShowEnvironment(c)
  \/ ProjectsMove \/ Retry \/ ProjectsChange
  \/ \E t \in Target : TargetLoads(t) \/ TargetFails(t) \/ CollectTarget(t)
  \/ \E g \in Prefetch : PrefetchEnds(g)
  \/ RecoveredClears

PaletteSpec == PaletteInit /\ [][PaletteNext]_paletteVars

-----------------------------------------------------------------------------
(* Properties.                                                             *)

PaletteTypeOK ==
  /\ projects \in SUBSET Project
  /\ projectsQuery \in QueryOf(SUBSET Project)
  /\ screen \in Environment \cup {Elsewhere}
  /\ palette \in [open : BOOLEAN, status : {"pending", "ready", "error"},
                  hadError : BOOLEAN, recovered : BOOLEAN, clears : BOOLEAN]
  /\ prefetches \in [Prefetch -> [state : {"none", "loading", "failed"},
                                  todo : SUBSET Target, cancelled : BOOLEAN]]
  /\ warm \in SUBSET Target /\ loading \in SUBSET Target

(* A palette that says it is ready finds everything: the environments of   *)
(* every project it lists and the keys of the environment on the screen,   *)
(* whichever prefetches overlapped and in whichever order they ended       *)
(* (CommandPalette.tsx, 116-141).                                          *)
ReadyMeansLoaded ==
  palette.status = "ready" =>
    /\ envItems = projectsQuery.data
    /\ keyItems = {screen} \ {Elsewhere}
=============================================================================
