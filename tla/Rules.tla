-------------------------------- MODULE Rules --------------------------------
(***************************************************************************)
(* Where the rules of the alarm engine come from (service/alerting.go,     *)
(* adapter/threshold.go): the templates, which the server seeds, and the   *)
(* overrides of single hosts are read from two tables, one after the other *)
(* and while an administrator may edit them, and become one rule set that  *)
(* replaces the last as a whole.                                           *)
(***************************************************************************)
EXTENDS Integers, FiniteSets

CONSTANTS
  Template,   \* the ids of threshold_template
  Metric,     \* metrics
  MetricOf,   \* the metric of each template
  Builtin,    \* the rows that are seeded: those of the templates 1, 2, ...
  Host,       \* the hosts that may have overrides
  Hostname,   \* hostnames, which need not be unique
  NameOf,     \* the hostname of each host
  Duration,   \* the durations in the tables; 0 in an override: as the template
  NoRow,      \* no such row
  MaxEdits    \* bound: edits of the tables

Row == [crit : BOOLEAN, warn : BOOLEAN, dur : Duration, enabled : BOOLEAN]

ASSUME RulesAssumption ==
  /\ Template \subseteq Nat /\ MetricOf \in [Template -> Metric]
  /\ DOMAIN Builtin \subseteq Template /\ Builtin \in [DOMAIN Builtin -> Row]
  /\ NameOf \in [Host -> Hostname] /\ 0 \in Duration /\ Duration \subseteq Nat
  /\ NoRow \notin Row /\ MaxEdits \in Nat

VARIABLES
  templates,  \* threshold_template
  overrides,  \* threshold_override, by host and metric
  loading,    \* "off", "seeding", "reading", "read", "done": ReloadRules at start
  tpls,       \* the templates that ReloadRules has read
  ruleSet,    \* s.rules
  source,     \* history: the rows that ruleSet was built from
  edits       \* edits, up to MaxEdits

rulesVars == <<templates, overrides, loading, tpls, ruleSet, source, edits>>

\* The rules of one row; the warning has the critical rule for its parent.
Pair(of, metric, row, dur, host) ==
  {[of |-> of, metric |-> metric, level |-> l, dur |-> dur, host |-> host,
    parent |-> l = "major" /\ row.crit] :
     l \in {k \in {"critical", "major"} : IF k = "critical" THEN row.crit ELSE row.warn}}

Rows(table) == {k \in DOMAIN table : table[k] # NoRow}
Enabled(table) ==
  [k \in DOMAIN table |-> IF k \in Rows(table) /\ table[k].enabled THEN table[k] ELSE NoRow]

\* An override without a duration takes that of the metric's last template.
DurationOf(ts, row, metric) ==
  LET of == {t \in Rows(ts) : MetricOf[t] = metric} IN
  IF row.dur # 0 \/ of = {} THEN row.dur ELSE ts[CHOOSE t \in of : \A u \in of : u <= t].dur

BuildRuleSet(ts, ovs) ==
  [templates |-> UNION {Pair(<<"template", t>>, MetricOf[t], ts[t], ts[t].dur, "") : t \in Rows(ts)},
   overrides |-> UNION {Pair(o, o[2], ovs[o], DurationOf(ts, ovs[o], o[2]), NameOf[o[1]]) : o \in Rows(ovs)}]
EmptyRuleSet == [templates |-> {}, overrides |-> {}]

Covered_ByHost(rs, host, metric) == \E r \in rs.overrides : r.host = host
Covered(rs, host, metric) == \E r \in rs.overrides : r.host = host /\ r.metric = metric

\* What judges the samples of a host: its overrides, and the templates of the
\* metrics they do not cover.
RulesFor(rs, host) ==
  {r \in rs.templates : ~Covered(rs, host, r.metric)} \cup {r \in rs.overrides : r.host = host}

-----------------------------------------------------------------------------
NoTemplates == [t \in Template |-> NoRow]
NoOverrides == [o \in Host \X Metric |-> NoRow]

RulesInit ==
  /\ templates = NoTemplates /\ overrides = NoOverrides
  /\ loading = "off" /\ tpls = NoTemplates /\ ruleSet = EmptyRuleSet
  /\ source = <<NoTemplates, NoOverrides>> /\ edits = 0

\* NewAlertService; the server may be started again at any time.
StartService ==
  /\ loading \in {"off", "done"} /\ loading' = "seeding"
  /\ ruleSet' = EmptyRuleSet /\ source' = <<NoTemplates, NoOverrides>>
  /\ UNCHANGED <<templates, overrides, tpls, edits>>

\* INSERT OR IGNORE for each builtin row, which leaves an edited or disabled row
\* alone; a failure leaves the rest out, and the server goes on.
SeedBuiltin ==
  /\ loading = "seeding" /\ loading' = "reading"
  /\ \E n \in 0..Cardinality(DOMAIN Builtin) :
       templates' = [t \in Template |->
         IF t \in DOMAIN Builtin /\ t <= n /\ templates[t] = NoRow THEN Builtin[t] ELSE templates[t]]
  /\ UNCHANGED <<overrides, tpls, ruleSet, source, edits>>

ListTemplates ==
  /\ loading = "reading" /\ loading' = "read"
  /\ tpls' = Enabled(templates)
  /\ UNCHANGED <<templates, overrides, ruleSet, source, edits>>

\* The overrides are read, and the pointer to the rules is replaced.
ReloadRules ==
  /\ loading = "read" /\ loading' = "done"
  /\ ruleSet' = BuildRuleSet(tpls, Enabled(overrides))
  /\ source' = <<tpls, Enabled(overrides)>>
  /\ UNCHANGED <<templates, overrides, tpls, edits>>

\* Either query fails: a warning, and the server runs without rules.
ReloadFails ==
  /\ loading \in {"reading", "read"} /\ loading' = "done"
  /\ UNCHANGED <<templates, overrides, tpls, ruleSet, source, edits>>

\* No handler writes these tables: an administrator of the database does.
Edit ==
  /\ edits < MaxEdits /\ edits' = edits + 1
  /\ \E row \in Row \cup {NoRow} :
       \/ \E t \in Template : templates' = [templates EXCEPT ![t] = row] /\ UNCHANGED overrides
       \/ \E o \in Host \X Metric : overrides' = [overrides EXCEPT ![o] = row] /\ UNCHANGED templates
  /\ UNCHANGED <<loading, tpls, ruleSet, source>>

RulesNext ==
  StartService \/ SeedBuiltin \/ ListTemplates \/ ReloadRules \/ ReloadFails \/ Edit

-----------------------------------------------------------------------------
\* What the rules that judge a host owe to the tables they were built from,
\* whatever was edited between the two reads: a metric is judged by overrides
\* or by templates, never by both; no metric that a template covers goes
\* unjudged, even when an override sets no value; a warning yields only to a
\* critical rule that judges as well; and an override that leaves the duration
\* open is not quicker than the template it replaces, where there is just one.
RulesAsConfigured ==
  \A h \in Hostname :
    LET rules == RulesFor(ruleSet, h)
        ts == source[1]
        Valued(row) == row.crit \/ row.warn
    IN  /\ \A r, s \in rules : r.metric = s.metric => (r.host = "") = (s.host = "")
        /\ \A t \in Rows(ts) : Valued(ts[t]) => \E r \in rules : r.metric = MetricOf[t]
        /\ \A r \in rules : r.parent => \E s \in rules : s.of = r.of /\ s.level = "critical"
        /\ \A r \in rules, t \in Rows(ts) :
             /\ r.host # "" /\ r.metric = MetricOf[t] /\ source[2][r.of].dur = 0
             /\ \A u \in Rows(ts) : MetricOf[u] = MetricOf[t] => u = t
             => r.dur >= ts[t].dur
=============================================================================
