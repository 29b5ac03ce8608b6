----------------------------- MODULE MCAdmission -----------------------------
(***************************************************************************)
(* Admission.tla with two runs: r1 finds a jobs file whose job differs in  *)
(* one field from a good one, or needs no capital and no verified package; *)
(* r2 finds a good job of the same operation, whose time has another zone, *)
(* or of another one.                                                      *)
(***************************************************************************)
EXTENDS Admission, TLC

CONSTANTS r1, r2    \* runs

Key(parts, time, zone) == [parts |-> parts, time |-> time, zone |-> zone]
Twice == <<<<"x">>, <<"x">>>>
K1 == Key(Twice, 1, {0})
K2 == Key(Twice, 2, {1})                           \* K1 in another zone
K3 == Key(Twice, 2, {0})
K4 == Key(<<<<"x", "/">>, <<"x">>>>, 1, {0})       \* K4 and K5 read the same
K5 == Key(<<<<"x">>, <<"/", "x">>>>, 1, {0})
Bad == {{}, {Key(Twice, 1, {})}}
Keys == Bad \cup {{K1}, {K3}, {K4}}

Good == [id |-> <<"a">>, job_type |-> {"EXECUTION"}, capital_permission |-> TRUE,
         economic_key |-> {K1}, strict |-> TRUE,
         kill_switch_limits |-> [m \in Measure |-> {1}],
         risk_source |-> {"desk"}, risk_max_age |-> {1},
         risk_snapshot |-> {[source |-> {"desk"}, observed_at |-> {-1},
                             fields_set |-> Measure \cup Flag,
                             value |-> [m \in Measure |-> 0],
                             healthy |-> [f \in Flag |-> TRUE]]}]

(* Snapshots, and jobs, that differ from the given one in one field. *)
Snapshots(s) ==
  {s} \cup {[s EXCEPT !.source = x] : x \in {{}, {"other"}}}
      \cup {[s EXCEPT !.observed_at = x] : x \in {{}, {1}}}
      \cup {[s EXCEPT !.fields_set = @ \ {x}] : x \in Measure \cup Flag}
      \cup {[s EXCEPT !.value[m] = x] : m \in Measure, x \in {-1, 1, 2}}
      \cup {[s EXCEPT !.healthy[f] = FALSE] : f \in Flag}
Changed(j) ==
  {[j EXCEPT !.job_type = x] : x \in {{}, {"SETTLEMENT"}}}
  \cup {[j EXCEPT !.capital_permission = FALSE]}
  \cup {[j EXCEPT !.economic_key = x] : x \in Bad}
  \cup {[j EXCEPT !.kill_switch_limits[m] = x] : m \in Measure, x \in {{}, {0}}}
  \cup {[j EXCEPT !.risk_source = x] : x \in {{}, {"other"}}}
  \cup {[j EXCEPT !.risk_max_age = {}]}
  \cup {[j EXCEPT !.risk_snapshot = x] :
          x \in {{}} \cup {{s} : s \in UNION {Snapshots(t) : t \in j.risk_snapshot}}}

Plain == [Good EXCEPT !.job_type = {"SETTLEMENT"}, !.capital_permission = FALSE,
                      !.strict = FALSE]
Files(jobs) == {[version |-> 2, jobs |-> <<j>>] : j \in jobs}
MCOffered ==
  [r \in Run |->
     IF r = r1 THEN Files(Changed(Good) \cup {[Plain EXCEPT !.economic_key = x] : x \in Keys})
     ELSE Files({[Good EXCEPT !.economic_key = {x}] : x \in {K2, K5}}) \cup
          {[version |-> 3, jobs |-> <<[Good EXCEPT !.economic_key = {K3}],
                                      [Plain EXCEPT !.id = <<"b">>]>>]}]

Row(hash, content) == [hash |-> hash, file |-> content]
Listed == {Row("none", "changed"), Row("sha256", "same")}
Recorded(rows) == [rows |-> rows, whole |-> TRUE]
Genuinely == [present |-> TRUE, direct |-> "absent", record |-> <<Recorded(Listed)>>]
MCInstalls ==
  {Genuinely, [Genuinely EXCEPT !.present = FALSE]}
  \cup {[Genuinely EXCEPT !.direct = x] : x \in DirectUrls}
  \cup {[Genuinely EXCEPT !.record = x] :
          x \in {<<>>, <<Recorded({})>>, <<Recorded({Row("none", "same")})>>,
                 <<Recorded({Row("sha256", "changed")}), Recorded(Listed)>>}
               \cup {<<Recorded(Listed \cup {row})>> : row \in Rows}
               \cup {<<[rows |-> Listed \cup {row}, whole |-> FALSE]>> : row \in Rows}}

MCJobId == <<"a">>

Locks == {MCJobId} \cup {Economic(Canonical(key)) : key \in {k \in {K1, K3, K4} : ValidKey(k)}}
=============================================================================
