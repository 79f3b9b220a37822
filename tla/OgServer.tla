------------------------------ MODULE OgServer ------------------------------
(***************************************************************************)
(* The og-server Lambda (backend/og-server/src/main.rs, src/manifest.rs):  *)
(* HTML with OpenGraph tags, behind a CDN that keeps each answer as long   *)
(* as the answer's cache-control says.  A project runs it in one of three  *)
(* modes.  A container keeps its database client, or the manifest it has   *)
(* loaded, from one request to the next.                                   *)
(*                                                                         *)
(* The CDN, the store behind the Lambda (the database or S3) and its       *)
(* outages are external.  A container serves one request at a time (AWS    *)
(* Lambda).  Of a page's tags the model keeps where they come from.        *)
(***************************************************************************)
CONSTANTS Containers, Paths,
          Routed,  \* the paths that a configured route matches
          Modes    \* how the projects deploy it: with a manifest, DB_HOST, neither

ASSUME OgServerAssumption ==
    Routed \subseteq Paths /\ Modes \subseteq {"manifest", "db", "static"}

VARIABLES
    mode,    \* the mode of this project
    pages,   \* the paths that have a row, or an entry in the manifest object
    up,      \* the store can be reached
    client,  \* DB: each container's cached connection
    doc,     \* MANIFEST: each container's copy of the manifest, {} or one
    pc,      \* the call each container makes next
    path,    \* the path of the request it serves
    cdn      \* what the CDN holds for each path: {}, or one answer

store == <<mode, pages, up>>
vars == <<mode, pages, up, client, doc, pc, path, cdn>>

\* Where the tags of an answer come from: the row or the manifest's entry; the
\* route's own fields, as they are; the defaults.  `cause` is history: the call
\* that failed while they were resolved.
Answers == [tags : {"page", "route", "default"}, long : BOOLEAN,
            cause : {"none", "manifest", "connect", "query"}]

Init ==
    /\ mode \in Modes /\ pages \in SUBSET Paths /\ up \in BOOLEAN
    /\ client = [c \in Containers |-> "none"]
    /\ doc = [c \in Containers |-> {}]
    /\ pc = [c \in Containers |-> "idle"]
    /\ path \in [Containers -> Paths]
    /\ cdn = [p \in Paths |-> {}]
-----------------------------------------------------------------------------
(* The store and the CDN.                                                  *)

Publish ==
    /\ \E p \in Paths : pages' \in {pages \cup {p}, pages \ {p}}
    /\ UNCHANGED <<mode, up, client, doc, pc, path, cdn>>

Lost == [c \in Containers |-> IF client[c] = "live" THEN "broken" ELSE client[c]]

\* A database that goes down takes its connections with it.
Outage ==
    /\ up /\ up' = FALSE
    /\ client' = Lost
    /\ UNCHANGED <<mode, pages, doc, pc, path, cdn>>

Recover ==
    /\ ~up /\ up' = TRUE
    /\ UNCHANGED <<mode, pages, client, doc, pc, path, cdn>>

Expire(p) ==
    /\ cdn[p] # {} /\ cdn' = [cdn EXCEPT ![p] = {}]
    /\ UNCHANGED <<store, client, doc, pc, path>>

\* Lambda replaces a container.
Recycle(c) ==
    /\ client' = [client EXCEPT ![c] = "none"] /\ doc' = [doc EXCEPT ![c] = {}]
    /\ pc' = [pc EXCEPT ![c] = "idle"]
    /\ UNCHANGED <<store, path, cdn>>
-----------------------------------------------------------------------------
(* handler                                                                 *)

\* matched: `!resolution_failed && matched` is cached for a day, the rest for
\* an hour.
Respond(c, tags, failed, matched, cause) ==
    /\ cdn' = [cdn EXCEPT ![path[c]] =
                 {[tags |-> tags, long |-> ~failed /\ matched, cause |-> cause]}]
    /\ pc' = [pc EXCEPT ![c] = "idle"]
    /\ UNCHANGED <<store, path>>

\* The CDN has no answer and asks the Lambda.
Receive(c) ==
    /\ pc[c] = "idle"
    /\ \E p \in Paths : cdn[p] = {} /\ path' = [path EXCEPT ![c] = p]
    /\ pc' = [pc EXCEPT ![c] = CASE mode = "manifest" -> "load"
                                 [] mode = "db"       -> "ensure"
                                 [] mode = "static"   -> "static"]
    /\ UNCHANGED <<store, client, doc, cdn>>

\* resolve_og_no_db
RouteTags(p) == IF p \in Routed THEN "route" ELSE "default"

Static(c) ==
    /\ pc[c] = "static"
    /\ Respond(c, RouteTags(path[c]), FALSE, path[c] \in Routed, "none")
    /\ UNCHANGED <<client, doc>>

\* resolve_og_manifest, from the container's copy.
AnswerFrom(c, d) ==
    LET found == path[c] \in d
    IN  Respond(c, IF found THEN "page" ELSE "default", FALSE, found, "none")

\* Mutant: the cell keeps the failure as an empty manifest.
FailKept(c) ==
    /\ Respond(c, RouteTags(path[c]), TRUE, path[c] \in Routed, "manifest")
    /\ doc' = [doc EXCEPT ![c] = {{}}]

\* The load failed and the configured routes are used.
FailManifest(c) ==
    /\ Respond(c, RouteTags(path[c]), TRUE, path[c] \in Routed, "manifest")
    /\ UNCHANGED doc

\* MANIFEST.get_or_try_init: what was loaded stays, a failure does not.
LoadManifest(c) ==
    /\ pc[c] = "load"
    /\ \/ (\E d \in doc[c] : AnswerFrom(c, d)) /\ UNCHANGED doc
       \/ /\ doc[c] = {} /\ up
          /\ doc' = [doc EXCEPT ![c] = {pages}] /\ AnswerFrom(c, pages)
       \/ doc[c] = {} /\ ~up /\ FailManifest(c)
    /\ UNCHANGED client

\* Mutants: the routes' own fields, as without a database; a match is reported.
RoutesOnFailure(c) == Respond(c, RouteTags(path[c]), TRUE, FALSE, "connect")
MatchOnFailure(c)  == Respond(c, "default", FALSE, path[c] \in Routed, "connect")

\* No connection: defaults only, without route matching.
DefaultsOnFailure(c) == Respond(c, "default", TRUE, FALSE, "connect")

\* ensure_client: a client that is there is used, whether it works or not.
EnsureClient(c) ==
    /\ pc[c] = "ensure"
    /\ \/ /\ client[c] # "none" \/ up
          /\ client' = [client EXCEPT ![c] = IF @ = "none" THEN "live" ELSE @]
          /\ pc' = [pc EXCEPT ![c] = "query"]
          /\ UNCHANGED <<store, path, cdn>>
       \/ client[c] = "none" /\ ~up /\ DefaultsOnFailure(c) /\ UNCHANGED client
    /\ UNCHANGED doc

\* query_og: the row, or None; a query that fails (`.ok()?`) is None too.
Found(c) == client[c] = "live" /\ path[c] \in pages

\* resolve_og: the path's route, then its row; else the defaults.  A match of
\* the route alone counts as one.
Query(c) ==
    LET routed == path[c] \in Routed IN
    /\ pc[c] = "query"
    /\ Respond(c, IF routed /\ Found(c) THEN "page" ELSE "default", FALSE, routed,
                  IF routed /\ client[c] = "broken" THEN "query" ELSE "none")
    /\ UNCHANGED <<client, doc>>

Handle(c) == Static(c) \/ LoadManifest(c) \/ EnsureClient(c) \/ Query(c)

Next ==
    \/ Publish \/ Outage \/ Recover
    \/ \E p \in Paths : Expire(p)
    \/ \E c \in Containers : Receive(c) \/ Handle(c) \/ Recycle(c)

Spec == Init /\ [][Next]_vars

\* A container that serves runs, and what the CDN holds expires.  Nobody must
\* visit, publish or recycle, and the store need not come back.
FairSpec ==
    /\ Spec
    /\ \A c \in Containers : WF_vars(Handle(c))
    /\ \A p \in Paths : WF_vars(Expire(p))
-----------------------------------------------------------------------------
(* Properties.                                                             *)

\* What the store, the containers and the CDN hold.
TypeOK ==
    /\ mode \in Modes /\ pages \subseteq Paths /\ up \in BOOLEAN
    /\ client \in [Containers -> {"none", "live", "broken"}]
    /\ doc \in [Containers -> SUBSET SUBSET Paths]
    /\ \A c \in Containers : \A d, e \in doc[c] : d = e
    /\ pc \in [Containers -> {"idle", "static", "load", "ensure", "query"}]
    /\ path \in [Containers -> Paths]
    /\ cdn \in [Paths -> SUBSET Answers]

Held == UNION {cdn[p] : p \in Paths}

\* "On DB failure we keep the short cache to recover quickly once DB is back"
\* (main.rs:519).
FailureIsBrief == \A e \in Held : e.cause # "none" => ~e.long

\* What the code keeps of it: neither a connection that cannot be made nor a
\* manifest that cannot be loaded is cached for a day.
LoadFailureIsBrief == \A e \in Held : e.cause \in {"connect", "manifest"} => ~e.long

\* "fall back to defaults only (no route matching) so projects like tastebase
\* don't leak unrendered {{placeholder}} strings" (main.rs:457): with a
\* database, a route's fields never reach the CDN as they are.
NoTemplateLeaks == mode = "db" => \A e \in Held : e.tags # "route"

\* Once S3 stays reachable, an outage is forgotten: of a page that was there
\* all the time the CDN comes to hold the page's own tags only.
OutageIsForgotten ==
    \A p \in Paths :
        [](mode = "manifest" /\ p \in pages) /\ <>[]up
            => <>[](\A e \in cdn[p] : e.tags = "page")
=============================================================================
