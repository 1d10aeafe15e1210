--------------------------- MODULE RuntimeControl ---------------------------
(***************************************************************************)
(* The settings of the platform's external services.  They are kept in one *)
(* row of the database, are edited by administrators, and reach the        *)
(* program through process.env: every process copies the managed part of   *)
(* the row into its variables (hydrateRuntimeControlPlane) and reads its   *)
(* configuration from there.  For WhatsApp the variables of the deployment *)
(* come first (initializeWhatsAppFromEnvironment), so the same variables   *)
(* are both where a deployment states its settings and where the row's     *)
(* settings are put.                                                       *)
(*                                                                         *)
(* A configuration is a pair: <<phone number id, token>> for WhatsApp,     *)
(* <<url, shared secret>> for the sandbox runner; 0 is a missing part.     *)
(* The browser runner's settings are handled line by line as the sandbox's.*)
(***************************************************************************)
EXTENDS Naturals

CONSTANTS Processes,
          Admins,    \* requests of administrators to change a feature
          Bodies,    \* [feature, on, cfg]: what such a request may ask for
          Deployed   \* the WhatsApp variables the deployment sets

VARIABLES row,     \* platform_runtime_settings
          health,  \* its last_health column
          env,     \* process.env of each process
          cache,   \* rowCache of each process: no row or one
          flight,  \* the row a hydration under way has read, if there is one
          init,    \* initializeWhatsAppFromEnvironment of each process
          req,     \* the administrators' requests
          tested   \* ghost: the configurations a service answered for

vars == <<row, health, env, cache, flight, init, req, tested>>

Features == {"whatsapp", "sandbox"}
Empty    == <<0, 0>>
None     == "none"

complete(c) == c[1] # 0 /\ c[2] # 0

\* Each part of c, or where it is missing that of d.
filled(c, d) == [i \in {1, 2} |-> IF c[i] # 0 THEN c[i] ELSE d[i]]

Waiting == [pc |-> "idle", fresh |-> FALSE, cfg |-> Empty, on |-> FALSE, seen |-> None]
Asked   == [pc |-> "new", at |-> None, f |-> None, on |-> FALSE, cfg |-> Empty, seen |-> None]

Init == /\ row = [f \in Features |-> [managed |-> FALSE, on |-> FALSE, cfg |-> Empty]]
        /\ health = [f \in Features |-> None]
        /\ env = [p \in Processes |-> [f \in Features |->
                     [on |-> FALSE, cfg |-> IF f = "whatsapp" THEN Deployed ELSE Empty]]]
        /\ cache = [p \in Processes |-> {}]
        /\ flight = [p \in Processes |-> {}]
        /\ init = [p \in Processes |-> Waiting]
        /\ req = [a \in Admins |-> Asked]
        /\ tested = {}

\* What a service is asked for when it is tested: Meta gets the token with
\* the id, /health of a runner only its URL.
subject(f, c) == <<f, IF f = "whatsapp" THEN <<c[1], c[2]>> ELSE <<c[1], 0>> >>

-----------------------------------------------------------------------------
(* hydrateRuntimeControlPlane.                                             *)

\* applyManagedRow.
applied(e, r) ==
    [f \in Features |->
       LET enabled == r[f].on /\ complete(r[f].cfg)
       IN IF ~r[f].managed THEN e[f]
          ELSE [on |-> enabled, cfg |-> IF enabled THEN r[f].cfg ELSE Empty]]

readRuntimeRow(p) ==
    /\ flight[p] = {}
    /\ flight' = [flight EXCEPT ![p] = {row}]
    /\ UNCHANGED <<row, health, env, cache, init, req, tested>>

hydrated(p) ==
    /\ \E r \in flight[p] : env' = [env EXCEPT ![p] = applied(@, r)]
    /\ cache' = [cache EXCEPT ![p] = flight[p]]
    /\ flight' = [flight EXCEPT ![p] = {}]
    /\ UNCHANGED <<row, health, init, req, tested>>

hydratedFromCache(p) ==
    /\ \E r \in cache[p] : env' = [env EXCEPT ![p] = applied(@, r)]
    /\ UNCHANGED <<row, health, cache, flight, init, req, tested>>

\* CACHE_TTL_MS has passed.
CacheExpires(p) ==
    /\ cache[p] # {}
    /\ cache' = [cache EXCEPT ![p] = {}]
    /\ UNCHANGED <<row, health, env, flight, init, req, tested>>

-----------------------------------------------------------------------------
(* saveRuntimeControl, behind PUT /api/platform-admin/runtime-control.     *)

\* inspectWhatsAppEnvironment().authoritative: any of the variables is set.
authoritative(p) == env[p]["whatsapp"].cfg # Empty

\* existingWhatsApp takes the row's configuration or a whole one from the
\* environment; a runner's URL and secret are looked for one by one.
existing(f, r, p) ==
    IF f = "whatsapp"
    THEN IF r[f].cfg # Empty THEN r[f].cfg
         ELSE IF complete(env[p][f].cfg) THEN env[p][f].cfg ELSE Empty
    ELSE filled(r[f].cfg, env[p][f].cfg)

\* The row is read and the candidate put together.  A feature cannot be
\* enabled with an incomplete one; a runner whose URL and secret are both
\* given was asked for both before (assertRunnerConnection).
saveRuntimeControl(a, p, b) ==
    /\ req[a].pc = "new"
    /\ b.feature = "whatsapp" => ~authoritative(p)
    /\ LET cand == filled(b.cfg, existing(b.feature, row, p))
       IN /\ b.on => complete(cand)
          /\ req' = [req EXCEPT ![a] =
                       [pc |-> IF b.on THEN "test" ELSE "write", at |-> p,
                        f |-> b.feature, on |-> b.on, cfg |-> cand,
                        seen |-> [row |-> row, health |-> health]]]
    /\ UNCHANGED <<row, health, env, cache, flight, init, tested>>

\* testWhatsApp or testRunner finds the service healthy.
testedHealthy(a) ==
    /\ req[a].pc = "test"
    /\ tested' = tested \cup {subject(req[a].f, req[a].cfg)}
    /\ req' = [req EXCEPT ![a].pc = "write"]
    /\ UNCHANGED <<row, health, env, cache, flight, init>>

testRefused(a) ==
    /\ req[a].pc = "test"
    /\ req' = [req EXCEPT ![a] = [Asked EXCEPT !.pc = "done"]]
    /\ UNCHANGED <<row, health, env, cache, flight, init, tested>>

\* Defective variant: only what the request changes is written, over the row
\* as it is by now.
changedOnly(q) ==
    [managed |-> TRUE, on |-> q.on,
     cfg |-> [i \in {1, 2} |-> IF q.cfg[i] # q.seen.row[q.f].cfg[i] THEN q.cfg[i]
                               ELSE row[q.f].cfg[i]]]

\* The columns of the feature; an incomplete WhatsApp candidate is dropped.
written(q) ==
    [managed |-> TRUE, on |-> q.on,
     cfg |-> IF q.f = "whatsapp" /\ ~complete(q.cfg) THEN q.seen.row[q.f].cfg ELSE q.cfg]

\* The upsert; last_health is the whole object the request has read.  The
\* hydration that follows is a readRuntimeRow and a hydrated of the process.
upserted(a) ==
    LET q == req[a] IN
    /\ q.pc = "write"
    /\ row' = [row EXCEPT ![q.f] = written(q)]
    /\ health' = [q.seen.health EXCEPT ![q.f] = IF q.on THEN "healthy" ELSE "disabled"]
    /\ cache' = [cache EXCEPT ![q.at] = {}]
    /\ req' = [req EXCEPT ![a] = [Asked EXCEPT !.pc = "done"]]
    /\ UNCHANGED <<env, flight, init, tested>>

-----------------------------------------------------------------------------
(* initializeWhatsAppFromEnvironment.                                      *)

whatsApp(p, on, c) == env' = [env EXCEPT ![p]["whatsapp"] = [on |-> on, cfg |-> c]]

\* Without a variable the report only says so; an incomplete set turns
\* WhatsApp off; a complete one is tested with WhatsApp turned off meanwhile.
initializeWhatsAppFromEnvironment(p) ==
    LET c == env[p]["whatsapp"].cfg IN
    /\ init[p].pc = "idle" /\ ~init[p].fresh
    /\ init' = [init EXCEPT ![p] =
                  [@ EXCEPT !.pc = IF ~authoritative(p) THEN "idle"
                                   ELSE IF complete(c) THEN "test" ELSE "read",
                            !.fresh = ~authoritative(p),
                            !.cfg = IF complete(c) THEN c ELSE Empty, !.on = FALSE]]
    /\ IF authoritative(p) THEN whatsApp(p, FALSE, c) ELSE UNCHANGED env
    /\ UNCHANGED <<row, health, cache, flight, req, tested>>

\* testMetaGraphApi answered; the variables are those inspected before.
testMetaGraphApi(p, healthy) ==
    /\ init[p].pc = "test"
    /\ whatsApp(p, healthy, init[p].cfg)
    /\ tested' = IF healthy THEN tested \cup {subject("whatsapp", init[p].cfg)} ELSE tested
    /\ init' = [init EXCEPT ![p].pc = "read", ![p].on = healthy]
    /\ UNCHANGED <<row, health, cache, flight, req>>

persistRead(p) ==
    /\ init[p].pc = "read"
    /\ init' = [init EXCEPT ![p].pc = "persist", ![p].seen = [row |-> row, health |-> health]]
    /\ UNCHANGED <<row, health, env, cache, flight, req, tested>>

\* persistInitialization.
persistInitialization(p) ==
    LET i == init[p] IN
    /\ i.pc = "persist"
    /\ row' = [row EXCEPT !["whatsapp"] =
                 [managed |-> FALSE, on |-> i.on,
                  cfg |-> IF i.cfg = Empty THEN i.seen.row["whatsapp"].cfg ELSE i.cfg]]
    /\ health' = IF i.cfg = Empty THEN i.seen.health
                 ELSE [i.seen.health EXCEPT !["whatsapp"] =
                         IF i.on THEN "healthy" ELSE "unreachable"]
    /\ init' = [init EXCEPT ![p] = [Waiting EXCEPT !.fresh = TRUE]]
    /\ UNCHANGED <<env, cache, flight, req, tested>>

\* The report of the last initialization is 15 minutes old.
ReportExpires(p) ==
    /\ init[p].pc = "idle" /\ init[p].fresh
    /\ init' = [init EXCEPT ![p].fresh = FALSE]
    /\ UNCHANGED <<row, health, env, cache, flight, req, tested>>

Next ==
    \/ \E p \in Processes :
         \/ readRuntimeRow(p) \/ hydrated(p) \/ hydratedFromCache(p) \/ CacheExpires(p)
         \/ initializeWhatsAppFromEnvironment(p) \/ persistRead(p)
         \/ persistInitialization(p) \/ ReportExpires(p)
         \/ \E healthy \in BOOLEAN : testMetaGraphApi(p, healthy)
    \/ \E a \in Admins :
         \/ \E p \in Processes, b \in Bodies : saveRuntimeControl(a, p, b)
         \/ testedHealthy(a) \/ testRefused(a) \/ upserted(a)

Spec == Init /\ [][Next]_vars

-----------------------------------------------------------------------------
(* Properties.                                                             *)

backed(f, s) == s.on => complete(s.cfg) /\ subject(f, s.cfg) \in tested

\* A service that is enabled, in the row or in a process, is one that
\* answered when it was asked with these very settings, however requests,
\* hydrations and initializations overlap.
EnabledIsTested ==
    \A f \in Features : /\ backed(f, row[f])
                        /\ \A p \in Processes : backed(f, env[p][f])

\* docs/WHATSAPP_RAILWAY_BOOTSTRAP.md:23: APP_URL and PUBLIC_APP_URL alone do
\* not make the deployment's variables the source of WhatsApp's settings, so
\* what an administrator saved stays managed in the row.
ManagedStays ==
    [][Deployed = Empty /\ row["whatsapp"].managed => row'["whatsapp"].managed]_vars

=============================================================================
