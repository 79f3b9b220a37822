--------------------------- MODULE OgServerProofs ---------------------------
(***************************************************************************)
(* Proofs about OgServer, for any containers, paths, routes and modes.     *)
(***************************************************************************)
EXTENDS OgServer, TLAPS

\* A container is only where its project's mode sends it.
ModeOK ==
    \A c \in Containers : /\ pc[c] = "static" => mode = "static"
                          /\ pc[c] = "load"   => mode = "manifest"
                          /\ pc[c] \in {"ensure", "query"} => mode = "db"

\* What an answer says of itself: where its tags come from, and which failures
\* may be kept for a day.
Fits(e) == /\ mode = "db" => e.tags # "route"
           /\ e.cause \in {"manifest", "connect"} => ~e.long
           /\ e.cause = "query" => mode = "db"

CdnOK == \A p \in Paths : \A e \in cdn[p] : Fits(e)

OgInv == TypeOK /\ ModeOK /\ CdnOK

LEMMA OgInit == Init => OgInv
<1> SUFFICES ASSUME Init PROVE OgInv
  OBVIOUS
<1>1. TypeOK
  BY DEF Init, TypeOK
<1>2. ModeOK /\ CdnOK
  BY DEF Init, ModeOK, CdnOK
<1> QED
  BY <1>1, <1>2 DEF OgInv

\* A container that responds is idle again, and the CDN holds its answer.
LEMMA Responds ==
  ASSUME OgInv, NEW c \in Containers, NEW tags \in {"page", "route", "default"},
         NEW failed \in BOOLEAN, NEW matched \in BOOLEAN,
         NEW cause \in {"none", "manifest", "connect", "query"},
         Respond(c, tags, failed, matched, cause),
         client' \in [Containers -> {"none", "live", "broken"}],
         doc' \in [Containers -> SUBSET SUBSET Paths],
         \A b \in Containers : \A d, e \in doc'[b] : d = e,
         mode = "db" => tags # "route",
         cause \in {"manifest", "connect"} => failed,
         cause = "query" => mode = "db"
  PROVE  OgInv'
<1> DEFINE new == [tags |-> tags, long |-> ~failed /\ matched, cause |-> cause]
<1>0. (~failed /\ matched) \in BOOLEAN
  OBVIOUS
<1>1. new \in Answers
  BY <1>0 DEF Answers
<1>2. Fits(new)'
  BY DEF Fits, Respond, store
<1>3. cdn' = [cdn EXCEPT ![path[c]] = {new}] /\ UNCHANGED <<mode, pages, up, path>>
      /\ pc' = [pc EXCEPT ![c] = "idle"]
  BY DEF Respond, store
<1> HIDE DEF new
<1>4. TypeOK'
  BY <1>1, <1>3 DEF OgInv, TypeOK
<1>5. ModeOK'
  BY <1>3 DEF OgInv, TypeOK, ModeOK
<1>6. CdnOK'
  <2> SUFFICES ASSUME NEW p \in Paths, NEW e \in cdn'[p] PROVE Fits(e)'
    BY DEF CdnOK
  <2>1. CASE e = new
    BY <2>1, <1>2
  <2>2. CASE e # new
    <3>1. e \in cdn[p]
      BY <2>2, <1>3 DEF OgInv, TypeOK
    <3> QED
      BY <3>1, <1>3 DEF OgInv, CdnOK, Fits
  <2> QED
    BY <2>1, <2>2
<1> QED
  BY <1>4, <1>5, <1>6 DEF OgInv

LEMMA OgStep == OgInv /\ [Next]_vars => OgInv'
<1> SUFFICES ASSUME OgInv, [Next]_vars PROVE OgInv'
  OBVIOUS
<1>1. CASE UNCHANGED vars
  BY <1>1 DEF vars, store, OgInv, TypeOK, ModeOK, CdnOK, Fits
<1>2. CASE Publish \/ Outage \/ Recover
  <2>1. TypeOK'
    BY <1>2 DEF Publish, Outage, Recover, Lost, OgInv, TypeOK
  <2>2. ModeOK' /\ CdnOK'
    BY <1>2 DEF Publish, Outage, Recover, OgInv, ModeOK, CdnOK, Fits
  <2> QED
    BY <2>1, <2>2 DEF OgInv
<1>3. ASSUME NEW p \in Paths, Expire(p) PROVE OgInv'
  <2>1. TypeOK'
    BY <1>3 DEF Expire, store, OgInv, TypeOK
  <2>2. ModeOK'
    BY <1>3 DEF Expire, store, OgInv, ModeOK
  <2>3. CdnOK'
    BY <1>3 DEF Expire, store, OgInv, TypeOK, CdnOK, Fits
  <2> QED
    BY <2>1, <2>2, <2>3 DEF OgInv
<1>4. ASSUME NEW c \in Containers, Recycle(c) PROVE OgInv'
  <2>1. TypeOK'
    BY <1>4 DEF Recycle, store, OgInv, TypeOK
  <2>2. ModeOK' /\ CdnOK'
    BY <1>4 DEF Recycle, store, OgInv, TypeOK, ModeOK, CdnOK, Fits
  <2> QED
    BY <2>1, <2>2 DEF OgInv
<1>5. ASSUME NEW c \in Containers, Receive(c) PROVE OgInv'
  <2>0. mode \in {"manifest", "db", "static"}
    BY OgServerAssumption DEF OgInv, TypeOK
  <2>1. TypeOK'
    BY <1>5, <2>0 DEF Receive, store, OgInv, TypeOK
  <2>2. ModeOK'
    BY <1>5, <2>0 DEF Receive, store, OgInv, TypeOK, ModeOK
  <2>3. CdnOK'
    BY <1>5 DEF Receive, store, OgInv, CdnOK, Fits
  <2> QED
    BY <2>1, <2>2, <2>3 DEF OgInv
<1>6. ASSUME NEW c \in Containers, Static(c) PROVE OgInv'
  <2>1. mode = "static"
    BY <1>6 DEF Static, OgInv, ModeOK
  <2>2. RouteTags(path[c]) \in {"page", "route", "default"}
    BY DEF RouteTags
  <2>3. (path[c] \in Routed) \in BOOLEAN
    OBVIOUS
  <2>4. /\ client' \in [Containers -> {"none", "live", "broken"}]
        /\ doc' \in [Containers -> SUBSET SUBSET Paths]
        /\ \A b \in Containers : \A d, e \in doc'[b] : d = e
    BY <1>6 DEF Static, OgInv, TypeOK
  <2>5. Respond(c, RouteTags(path[c]), FALSE, path[c] \in Routed, "none")
    BY <1>6 DEF Static
  <2> QED
    BY <2>1, <2>2, <2>3, <2>4, <2>5, Responds
<1>7. ASSUME NEW c \in Containers, LoadManifest(c) PROVE OgInv'
  <2>0. mode = "manifest" /\ client' = client
    BY <1>7 DEF LoadManifest, OgInv, ModeOK
  <2>1. ASSUME NEW d \in SUBSET Paths, AnswerFrom(c, d),
               doc' \in [Containers -> SUBSET SUBSET Paths],
               \A b \in Containers : \A f, e \in doc'[b] : f = e
        PROVE  OgInv'
    <3> DEFINE tags == IF path[c] \in d THEN "page" ELSE "default"
    <3>1. tags \in {"page", "route", "default"} /\ tags # "route"
      OBVIOUS
    <3>2. (path[c] \in d) \in BOOLEAN
      OBVIOUS
    <3>3. client' \in [Containers -> {"none", "live", "broken"}]
      BY <2>0 DEF OgInv, TypeOK
    <3>4. Respond(c, tags, FALSE, path[c] \in d, "none")
      BY <2>1 DEF AnswerFrom
    <3> HIDE DEF tags
    <3> QED
      BY <2>1, <3>1, <3>2, <3>3, <3>4, Responds
  <2>2. CASE (\E d \in doc[c] : AnswerFrom(c, d)) /\ UNCHANGED doc
    BY <2>1, <2>2 DEF OgInv, TypeOK
  <2>3. CASE doc' = [doc EXCEPT ![c] = {pages}] /\ AnswerFrom(c, pages)
    BY <2>1, <2>3 DEF OgInv, TypeOK
  <2>4. CASE FailManifest(c)
    <3>1. RouteTags(path[c]) \in {"page", "route", "default"}
      BY DEF RouteTags
    <3>2. (path[c] \in Routed) \in BOOLEAN
      OBVIOUS
    <3>3. /\ client' \in [Containers -> {"none", "live", "broken"}]
          /\ doc' \in [Containers -> SUBSET SUBSET Paths]
          /\ \A b \in Containers : \A d, e \in doc'[b] : d = e
      BY <2>0, <2>4 DEF FailManifest, OgInv, TypeOK
    <3>4. Respond(c, RouteTags(path[c]), TRUE, path[c] \in Routed, "manifest")
      BY <2>4 DEF FailManifest
    <3> QED
      BY <2>0, <3>1, <3>2, <3>3, <3>4, Responds
  <2> QED
    BY <1>7, <2>2, <2>3, <2>4 DEF LoadManifest
<1>8. ASSUME NEW c \in Containers, EnsureClient(c) PROVE OgInv'
  <2>1. CASE DefaultsOnFailure(c) /\ UNCHANGED client
    BY <1>8, <2>1, Responds DEF EnsureClient, DefaultsOnFailure, OgInv, TypeOK
  <2>2. CASE ~(DefaultsOnFailure(c) /\ UNCHANGED client)
    <3>1. /\ client' = [client EXCEPT ![c] = IF @ = "none" THEN "live" ELSE @]
          /\ pc[c] = "ensure" /\ pc' = [pc EXCEPT ![c] = "query"]
          /\ UNCHANGED <<store, path, cdn, doc>>
      BY <1>8, <2>2 DEF EnsureClient
    <3>2. TypeOK'
      BY <3>1 DEF store, OgInv, TypeOK
    <3>3. ModeOK'
      BY <3>1 DEF store, OgInv, TypeOK, ModeOK
    <3>4. CdnOK'
      BY <3>1 DEF store, OgInv, CdnOK, Fits
    <3> QED
      BY <3>2, <3>3, <3>4 DEF OgInv
  <2> QED
    BY <2>1, <2>2
<1>9. ASSUME NEW c \in Containers, Query(c) PROVE OgInv'
  <2> DEFINE tags  == IF path[c] \in Routed /\ Found(c) THEN "page" ELSE "default"
             cause == IF path[c] \in Routed /\ client[c] = "broken" THEN "query" ELSE "none"
  <2>1. mode = "db"
    BY <1>9 DEF Query, OgInv, ModeOK
  <2>2. tags \in {"page", "route", "default"} /\ tags # "route"
    OBVIOUS
  <2>3. cause \in {"none", "manifest", "connect", "query"}
        /\ cause \notin {"manifest", "connect"}
    OBVIOUS
  <2>4. (path[c] \in Routed) \in BOOLEAN
    OBVIOUS
  <2>5. /\ client' \in [Containers -> {"none", "live", "broken"}]
        /\ doc' \in [Containers -> SUBSET SUBSET Paths]
        /\ \A b \in Containers : \A d, e \in doc'[b] : d = e
    BY <1>9 DEF Query, OgInv, TypeOK
  <2>6. Respond(c, tags, FALSE, path[c] \in Routed, cause)
    BY <1>9 DEF Query
  <2> HIDE DEF tags, cause
  <2> QED
    BY <2>1, <2>2, <2>3, <2>4, <2>5, <2>6, Responds
<1> QED
  BY <1>1, <1>2, <1>3, <1>4, <1>5, <1>6, <1>7, <1>8, <1>9 DEF Next, Handle

LEMMA OgInductive == Spec => []OgInv
<1> QED
  BY OgInit, OgStep, PTL DEF Spec

\* The store, the containers and the CDN hold what TypeOK says.
THEOREM OgTypeCorrect == Spec => []TypeOK
<1>1. OgInv => TypeOK
  BY DEF OgInv
<1> QED
  BY <1>1, OgInductive, PTL

\* With a database a route's own fields, unrendered, never reach the CDN,
\* whichever outages there are (main.rs:457-459).
THEOREM TemplatesDoNotLeak == Spec => []NoTemplateLeaks
<1>1. OgInv => NoTemplateLeaks
  BY DEF OgInv, CdnOK, Fits, NoTemplateLeaks, Held
<1> QED
  BY <1>1, OgInductive, PTL

\* A connection that could not be made, and a manifest that could not be
\* loaded, are cached for the short time only (main.rs:519-524).
THEOREM LoadFailuresAreBrief == Spec => []LoadFailureIsBrief
<1>1. OgInv => LoadFailureIsBrief
  BY DEF OgInv, CdnOK, Fits, LoadFailureIsBrief, Held
<1> QED
  BY <1>1, OgInductive, PTL

\* In the projects without a database every failure is: the only one that is
\* not is a query's (main.rs:519-524).
THEOREM FailuresAreBriefWithoutDatabase ==
  ASSUME "db" \notin Modes
  PROVE  Spec => []FailureIsBrief
<1>1. OgInv => FailureIsBrief
  <2> SUFFICES ASSUME OgInv, NEW e \in Held, e.cause # "none" PROVE ~e.long
    BY DEF FailureIsBrief
  <2>1. PICK p \in Paths : e \in cdn[p]
    BY DEF Held
  <2>2. e \in Answers /\ Fits(e) /\ mode # "db"
    BY <2>1 DEF OgInv, TypeOK, CdnOK
  <2> QED
    BY <2>2 DEF Answers, Fits
<1> QED
  BY <1>1, OgInductive, PTL
=============================================================================
