---------------------------- MODULE PlanCapture -----------------------------
(***************************************************************************)
(* internal/planner under the Collector's plan pass: where the snapshot    *)
(* that capturePlans appends comes from.                                   *)
(*                                                                         *)
(* CapturePlan prefers the executed plan pg_store_plans recorded for the   *)
(* queryid, if that extension's queryids are pg_stat_statements' own, and  *)
(* falls back to EXPLAIN (GENERIC_PLAN).  Every read of the server may     *)
(* fail, so a function that reads returns the set of its possible results. *)
(* The type of a plan's root node stands for the query it is the plan of;  *)
(* costs are left out.                                                     *)
(***************************************************************************)
EXTENDS Collector

\* The servers a capture may meet: its major version, pg_store_plans' version
\* (ext, its leading numeric parts), compute_query_id, and sameIDs: whether the
\* extension files a plan under the queryid pg_stat_statements uses.
CONSTANT Server

\* The last conjunct is what upstream documents and the code builds on.
ASSUME PlanCaptureAssumption ==
  \A s \in Server :
    /\ s.major \in Nat /\ s.ext \in Seq(Nat)
    /\ s.installed \in BOOLEAN /\ s.sameIDs \in BOOLEAN
    /\ s.computeQueryID \in {"on", "auto", "off"}
    /\ (s.major < 13) = LegacyServer
    /\ \/ s.sameIDs \/ s.major < 14 \/ s.computeQueryID = "off"
       \/ Len(s.ext) < 2 \/ s.ext[1] < 1 \/ (s.ext[1] = 1 /\ s.ext[2] < 6)

VARIABLE
  capture    \* history: the capture the last step made, or None:
             \* [major, result, unasked: queries it made the pass give up]

planCaptureVars == <<collectorVars, capture>>

None == [none |-> TRUE]
Failed == [error |-> "failed"]
Unsupported == [error |-> "ErrUnsupportedVersion"]
-----------------------------------------------------------------------------
(***************************************************************************)
(* planner.go: plan documents, JSON objects as functions of their keys.    *)
(***************************************************************************)
Object(keys) == [kind |-> "object", keys |-> keys]
Array(elems) == [kind |-> "array", elems |-> elems]
PlanNode(q) == Object([k \in {"Node Type"} |-> q])
UnderPlanKey(o) == Object([k \in {"Plan"} |-> o])

\* What EXPLAIN (FORMAT JSON) and pg_store_plans print; the second's wrapping is
\* not documented, and an EXPLAIN of a utility statement has no plan node.
ExplainDocs(q) == {Array(<<UnderPlanKey(PlanNode(q))>>), Array(<<>>), Array(<<Object(<<>>)>>)}
StorePlansDocs(q) == {PlanNode(q), UnderPlanKey(PlanNode(q)), [kind |-> "junk"]}

\* parsePlanJSON: the root node's type, under whichever wrapping is there, as a
\* set that is empty on an error.
TopLevel(doc) == IF doc.kind = "array" /\ doc.elems # <<>> THEN Head(doc.elems) ELSE doc
RootNode(o) == IF "Plan" \in DOMAIN o.keys THEN o.keys["Plan"] ELSE o
ParsePlanJSON(doc) ==
  IF \/ TopLevel(doc).kind # "object"
     \/ "Node Type" \notin DOMAIN RootNode(TopLevel(doc)).keys
  THEN {}
  ELSE {RootNode(TopLevel(doc)).keys["Node Type"]}

\* The snapshots for q that the documents give; Source only labels them.
Snapshots(q, docs) ==
  UNION {LET roots == ParsePlanJSON(d)
         IN  IF roots = {} THEN {Failed}
             ELSE {[query |-> q, root |-> r] : r \in roots} : d \in docs}
-----------------------------------------------------------------------------
(***************************************************************************)
(* storeplans.go, genericplan.go                                           *)
(***************************************************************************)
\* extVersionAtLeast: a version that does not parse fails closed.
ExtVersionAtLeast(ext, wantMajor, wantMinor) ==
  /\ Len(ext) >= 2
  /\ IF ext[1] # wantMajor THEN ext[1] > wantMajor ELSE ext[2] >= wantMinor

\* Mutant: any installed version of the extension is trusted.
DetectTrusting(s) == {"error", IF s.installed THEN "reliable" ELSE "absent"}

\* detectStorePlans.  compute_query_id may be unreadable: "unreliable", not an
\* error.
DetectStorePlans(s) ==
  {"error"} \cup
  IF ~s.installed THEN {"absent"}
  ELSE IF ~ExtVersionAtLeast(s.ext, 1, 6) \/ s.major < 14 THEN {"unreliable"}
  ELSE IF s.computeQueryID = "off" THEN {"unreliable"}
  ELSE {"unreliable", "reliable"}

\* The view's row under queryid q is q's plan if the ids are shared, and may be
\* any query's otherwise.  No row, or a failed read, is Failed.
StorePlansRows(s, q) ==
  UNION {StorePlansDocs(p) : p \in IF s.sameIDs THEN {q} ELSE QueryID}

CapturePlanFromStorePlans(s, q) ==
  {Failed} \cup (IF "reliable" \in DetectStorePlans(s)
                 THEN Snapshots(q, StorePlansRows(s, q)) ELSE {})

\* CaptureGenericPlan: an empty text, a failed read or EXPLAIN is Failed.
CaptureGenericPlan(s, q) ==
  {Failed} \cup (IF s.major < 16 THEN {Unsupported}
                 ELSE Snapshots(q, ExplainDocs(q)))

\* planner.CapturePlan: whatever fails in the first source, try the second.
CapturePlanResults(s, q) ==
  (CapturePlanFromStorePlans(s, q) \ {Failed}) \cup CaptureGenericPlan(s, q)
-----------------------------------------------------------------------------
(***************************************************************************)
(* capturePlans: each CapturePlan asks the server anew, so it may have been *)
(* upgraded, reconfigured or failed over since the one before.              *)
(***************************************************************************)
PlanCaptureInit == CollectorInit /\ capture = None

\* Mutant: every failure returns from the loop.
EndsOnFailure(r) == "error" \in DOMAIN r

\* Only ErrUnsupportedVersion returns; other failures continue.
EndsPass(r) == r = Unsupported

CaptureQuery ==
  /\ CapturePlan
  /\ \E s \in Server : \E r \in CapturePlanResults(s, Head(tracked)) :
       /\ planHistory' = IF "error" \in DOMAIN r THEN planHistory
                         ELSE Put(planHistory, r.query, AppendPlan(Plans(r.query), now))
       /\ tracked' = IF EndsPass(r) THEN <<>> ELSE Tail(tracked)
       /\ capture' = [major |-> s.major, result |-> r,
                      unasked |-> IF EndsPass(r) THEN Range(Tail(tracked)) ELSE {}]

PlanCaptureNext ==
  \/ CaptureQuery
  \/ /\ \/ BackfillSample \/ BackfillEnd
        \/ ScrapeQueryFails \/ ScrapeStart
        \/ \E q \in QueryID, text \in QueryText, lat \in Latency : ScrapeRow(q, text, lat)
        \/ ScrapeFail \/ ScrapeComplete \/ ScrapePrune \/ ScrapeEnd
        \/ Stop \/ Elapse
     /\ capture' = None

PlanCaptureSpec == PlanCaptureInit /\ [][PlanCaptureNext]_planCaptureVars
-----------------------------------------------------------------------------
\* A snapshot filed under a queryid is the plan of that query, whichever source
\* and JSON shape it came from: pg_store_plans is read only on a server whose
\* extension shares pg_stat_statements' queryids (detectStorePlans).
PlanIsOwn ==
  capture # None /\ "root" \in DOMAIN capture.result =>
    capture.result.root = capture.result.query

\* A query is passed over unasked only on a server without GENERIC_PLAN: a
\* failure of one query's capture never costs another its snapshot (the
\* continue in capturePlans).  Below PostgreSQL 16 it does, also where
\* pg_store_plans holds the other's plan.
PassIsComplete ==
  capture # None /\ capture.unasked # {} => capture.major < 16
=============================================================================
