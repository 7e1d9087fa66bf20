----------------------------- MODULE RulesProofs -----------------------------
(***************************************************************************)
(* Theorems of Rules, for any policies, requests, routes, states, web-search  *)
(* nodes, definitions and environments.  The one invariant (Cases) says that  *)
(* an output is what the operators make of an input; the rest is about the    *)
(* operators.                                                               *)
(***************************************************************************)
EXTENDS Rules, TLAPS

ResumeInput ==
  \E p \in Policies, w \in Words : \E b \in PatchBodies(p) :
    input = [policy |-> p, choice |-> w, patch |-> b]
RouteInput ==
  \E item \in RouteItems, s \in RouteStates : input = [item |-> item, state |-> s]
SearchInput ==
  \E c \in SearchConfigs, s \in SearchStates, a \in SearchAnswers :
    input = [config |-> c, state |-> s, answer |-> a]

Cases ==
  \/ kind = "resume" /\ ResumeInput /\ output \in {Unset, Resume}
  \/ kind = "route" /\ RouteInput /\ output \in {Unset, Route}
  \/ /\ kind = "search" /\ SearchInput
     /\ output \in {Unset, WebSearch(input.config, input.state, input.answer)}
  \/ kind = "build" /\ input \in Definitions /\ output \in {Unset, Build}

LEMMA InitCases == Init => Cases
  BY DEF Init, Cases, ResumeInput, RouteInput, SearchInput

LEMMA CasesStep == Cases /\ [Next]_vars => Cases'
<1> SUFFICES ASSUME Cases, [Next]_vars PROVE Cases'
  OBVIOUS
<1>1. CASE UNCHANGED vars
  BY <1>1 DEF vars, Cases, ResumeInput, RouteInput, SearchInput, Resume, Route, Build
<1>2. CASE Next
  <2>1. UNCHANGED <<kind, input>>
    BY <1>2 DEF Next, Evaluate
  <2>2. Resume' = Resume /\ Route' = Route /\ Build' = Build
    BY <2>1 DEF Resume, Route, Build
  <2>3. (ResumeInput' <=> ResumeInput) /\ (RouteInput' <=> RouteInput)
        /\ (SearchInput' <=> SearchInput)
    BY <2>1 DEF ResumeInput, RouteInput, SearchInput
  <2>4. WebSearch(input.config, input.state, input.answer)'
          = WebSearch(input.config, input.state, input.answer)
    BY <2>1
  <2> QED BY <1>2, <2>1, <2>2, <2>3, <2>4 DEF Next, Evaluate, Cases
<1> QED BY <1>1, <1>2

LEMMA CasesHold == Spec => []Cases
  BY InitCases, CasesStep, PTL DEF Spec
-----------------------------------------------------------------------------
(* Mappings. *)

LEMMA MergedKeys ==
  ASSUME NEW patch, NEW map
  PROVE  /\ DOMAIN Merged(patch, map) = DOMAIN patch \cup DOMAIN map
         /\ \A k \in DOMAIN patch : Merged(patch, map)[k] = patch[k]
         /\ \A k \in DOMAIN Merged(patch, map) \ DOMAIN patch :
              k \in DOMAIN map /\ Merged(patch, map)[k] = map[k]
  BY DEF Merged

LEMMA MergedGet ==
  ASSUME NEW patch, NEW map, NEW k
  PROVE  Get(Merged(patch, map), k) = IF k \in DOMAIN patch THEN patch[k] ELSE Get(map, k)
  BY DEF Merged, Get

LEMMA MergedIn ==
  ASSUME NEW patch, NEW map, NEW k
  PROVE  /\ k \in DOMAIN Merged(patch, map) <=> k \in DOMAIN patch \/ k \in DOMAIN map
         /\ k \in DOMAIN patch => Merged(patch, map)[k] = patch[k]
         /\ k \in DOMAIN map \ DOMAIN patch => Merged(patch, map)[k] = map[k]
  BY DEF Merged
-----------------------------------------------------------------------------
(* Reviewer decisions. *)

LEMMA ResumeDoes ==
  ASSUME Cases, Answered("resume")
  PROVE  /\ ResumeInput /\ output = Resume
         /\ output.accepted = ResumeAccepted(input.policy, input.choice, input.patch)
  BY DEF Cases, Answered, Resume

\* No policy and no request lets a reviewer decide what the framework does not know or
\* the agent does not list.  Code: allowed_decisions, prepare_resume_patch
\* (hitl/policy.py).
THEOREM DecisionsRestrictedCorrect == Spec => []DecisionsRestricted
<1>1. Cases => DecisionsRestricted
  <2> SUFFICES ASSUME Cases, Answered("resume"), output.accepted
               PROVE  /\ input.choice \in HitlDecisions
                      /\ input.policy.decisions \notin {Unset, {}} =>
                           input.choice \in input.policy.decisions
    BY DEF DecisionsRestricted
  <2>1. input.choice \in AllowedDecisions(input.policy)
    BY ResumeDoes DEF ResumeAccepted
  <2> QED BY <2>1 DEF AllowedDecisions
<1> QED BY <1>1, CasesHold, PTL

LEMMA Applied ==
  ASSUME NEW patch, NEW target
  PROVE  /\ ApplyPatch(Before, patch, target).top =
              IF target = Unset THEN Merged(patch, Top) ELSE Top
         /\ ApplyPatch(Before, patch, target).bag =
              IF target = Unset THEN Bag ELSE Merged(patch, Bag)
<1>1. DOMAIN Before = {"top", "bag"} /\ Before.top = Top /\ Before.bag = Bag
  BY DEF Before
<1>2. CASE target = Unset
  <2>1. ApplyPatch(Before, patch, target) = [Before EXCEPT !.top = Merged(patch, Before.top)]
    BY <1>2, Zenon DEF ApplyPatch
  <2> QED BY <1>1, <1>2, <2>1
<1>3. CASE target # Unset
  <2>1. ApplyPatch(Before, patch, target) = [Before EXCEPT !.bag = Merged(patch, Before.bag)]
    BY <1>3, Zenon DEF ApplyPatch
  <2> QED BY <1>1, <1>3, <2>1
<1> QED BY <1>2, <1>3

\* What filter_hitl_patch lets through.
LEMMA FilteredKeys ==
  ASSUME NEW p, NEW b
  PROVE  \A k \in DOMAIN FilteredPatch(p, b) :
           k \notin MetaKeys /\ (p.allowlist = Unset \/ k \in p.allowlist)
  BY DEF FilteredPatch, FilterPatch, Restrict

\* Whatever a reviewer sends, an agent's state changes at keys its policy lists only, for
\* `modified' only, and under its patch_target only.  Code: filter_hitl_patch,
\* prepare_resume_patch, apply_patch_to_state (hitl/policy.py).
THEOREM PatchFailsClosedCorrect == Spec => []PatchFailsClosed
<1>1. Cases => PatchFailsClosed
  <2> SUFFICES ASSUME Cases, Answered("resume"), ChangedTop \cup ChangedBag # {}
               PROVE  /\ input.choice = "modified"
                      /\ input.policy.allowlist # Unset
                      /\ ChangedTop \cup ChangedBag \subseteq input.policy.allowlist \ MetaKeys
                      /\ input.policy.target # Unset => ChangedTop = {}
    BY DEF PatchFailsClosed
  <2> DEFINE p == input.policy
             patch == ResumePatch(p, input.choice, input.patch)
             target == ResumeTarget(p, input.choice)
  <2>1. output = Resume /\ output.accepted = ResumeAccepted(p, input.choice, input.patch)
    BY ResumeDoes
  <2>2. output.state = IF output.accepted THEN ApplyPatch(Before, patch, target) ELSE Before
    BY <2>1 DEF Resume
  <2>3. output.accepted
    <3>1. SUFFICES ASSUME output.state = Before PROVE FALSE
      BY <2>2
    <3> QED BY <3>1 DEF ChangedTop, ChangedBag, Before
  <2> HIDE DEF patch, target
  <2>4. /\ output.state.top = IF target = Unset THEN Merged(patch, Top) ELSE Top
        /\ output.state.bag = IF target = Unset THEN Bag ELSE Merged(patch, Bag)
    BY <2>2, <2>3, Applied
  <2>5. /\ ChangedTop \subseteq IF target = Unset THEN DOMAIN patch ELSE {}
        /\ ChangedBag \subseteq IF target = Unset THEN {} ELSE DOMAIN patch
    <3>1. \A k \in DOMAIN Merged(patch, Top) \ DOMAIN patch :
            k \in DOMAIN Top /\ Merged(patch, Top)[k] = Top[k]
      BY Zenon, MergedKeys
    <3>2. \A k \in DOMAIN Merged(patch, Bag) \ DOMAIN patch :
            k \in DOMAIN Bag /\ Merged(patch, Bag)[k] = Bag[k]
      BY Zenon, MergedKeys
    <3>3. CASE target = Unset
      BY <2>4, <3>1, <3>3 DEF ChangedTop, ChangedBag
    <3>4. CASE target # Unset
      BY <2>4, <3>2, <3>4 DEF ChangedTop, ChangedBag
    <3> QED BY <3>3, <3>4
  <2>6. DOMAIN patch # {}
    BY <2>5
  <2>7. input.choice = "modified" /\ patch = FilteredPatch(p, input.patch) /\ target = p.target
    BY <2>6 DEF patch, target, ResumePatch, ResumeTarget
  <2>8. p.allowlist # Unset
    BY <2>1, <2>3, <2>7 DEF ResumeAccepted, PatchUsable
  <2>9. DOMAIN patch \subseteq p.allowlist \ MetaKeys
    BY <2>7, <2>8, FilteredKeys
  <2> QED BY <2>5, <2>7, <2>8, <2>9
<1> QED BY <1>1, CasesHold, PTL

\* The policies that leave a paused session waiting for ever, whatever is sent.  Code:
\* allowed_decisions, prepare_resume_patch (hitl/policy.py).
THEOREM DeadPoliciesCorrect == Spec => []DeadPolicies
<1>1. ASSUME NEW p \in Policies
      PROVE  CanBeResumed(p) <=>
               \/ p.decisions \in {Unset, {}}
               \/ p.decisions \cap {"approved", "rejected"} # {}
               \/ "modified" \in p.decisions /\ p.allowlist # Unset
                  /\ p.allowlist \ MetaKeys # {}
  <2> DEFINE empty == [flat |-> <<>>, nested |-> Unset]
  <2>1. empty \in PatchBodies(p)
    <3>1. <<>> \in [{} -> Values]
      OBVIOUS
    <3>2. <<>> \in Bodies
      BY <3>1 DEF Bodies
    <3> QED BY <3>2 DEF PatchBodies
  <2>2. ASSUME NEW w \in {"approved", "rejected"}, w \in AllowedDecisions(p)
        PROVE  CanBeResumed(p)
    <3>1. w \in Words
      BY RequestAssumption DEF HitlDecisions
    <3>2. ResumeAccepted(p, w, empty)
      BY <2>2 DEF ResumeAccepted
    <3> QED BY <2>1, <3>1, <3>2 DEF CanBeResumed
  <2>3. CASE p.decisions \in {Unset, {}}
    BY <2>2, <2>3 DEF AllowedDecisions, HitlDecisions
  <2>4. CASE p.decisions \cap {"approved", "rejected"} # {}
    BY <2>2, <2>4 DEF AllowedDecisions, HitlDecisions
  <2>5. CASE /\ p.decisions \notin {Unset, {}} /\ "modified" \in p.decisions
             /\ p.allowlist # Unset /\ p.allowlist \ MetaKeys # {}
    <3>1. PICK k \in p.allowlist : k \notin MetaKeys
      BY <2>5
    <3>2. k \in Keys
      BY <2>5, <3>1 DEF Policies
    <3>3. PICK v \in Values : TRUE
      BY RequestAssumption
    <3> DEFINE flat == [x \in {k} |-> v]
               body == [flat |-> flat, nested |-> Unset]
    <3>4. flat \in Bodies
      <4>1. flat \in [{k} -> Values]
        OBVIOUS
      <4> QED BY <3>2, <4>1 DEF Bodies
    <3>5. body \in PatchBodies(p)
      BY <3>4 DEF PatchBodies
    <3>6. PatchSource(body, p.target) = flat
      BY DEF PatchSource
    <3>7. k \in DOMAIN FilteredPatch(p, body)
      BY <3>1, <3>6 DEF FilteredPatch, FilterPatch, Restrict
    <3>8. "modified" \in Words /\ "modified" \in AllowedDecisions(p)
      BY <2>5, RequestAssumption DEF AllowedDecisions, HitlDecisions
    <3>9. ResumeAccepted(p, "modified", body)
      BY <2>5, <3>7, <3>8 DEF ResumeAccepted, PatchUsable
    <3> HIDE DEF body
    <3>10. CanBeResumed(p)
      BY <3>5, <3>8, <3>9 DEF CanBeResumed
    <3> QED BY <2>5, <3>10
  <2>6. ASSUME CanBeResumed(p), p.decisions \notin {Unset, {}},
               p.decisions \cap {"approved", "rejected"} = {}
        PROVE  "modified" \in p.decisions /\ p.allowlist # Unset /\ p.allowlist \ MetaKeys # {}
    <3>1. PICK w \in Words, b \in PatchBodies(p) : ResumeAccepted(p, w, b)
      BY <2>6 DEF CanBeResumed
    <3>2. w = "modified" /\ "modified" \in p.decisions
      BY <2>6, <3>1 DEF ResumeAccepted, AllowedDecisions, HitlDecisions
    <3>3. p.allowlist # Unset /\ DOMAIN FilteredPatch(p, b) # {}
      BY <3>1, <3>2 DEF ResumeAccepted, PatchUsable
    <3> QED BY <3>2, <3>3, FilteredKeys
  <2> QED BY <2>3, <2>4, <2>5, <2>6
<1>2. Cases => DeadPolicies
  <2> SUFFICES ASSUME Cases, Answered("resume")
               PROVE  LET p == input.policy
                      IN  CanBeResumed(p) <=>
                            \/ p.decisions \in {Unset, {}}
                            \/ p.decisions \cap {"approved", "rejected"} # {}
                            \/ "modified" \in p.decisions /\ p.allowlist # Unset
                               /\ p.allowlist \ MetaKeys # {}
    BY DEF DeadPolicies
  <2>1. input.policy \in Policies
    BY ResumeDoes DEF ResumeInput
  <2> QED BY <1>1, <2>1
<1> QED BY <1>2, CasesHold, PTL
-----------------------------------------------------------------------------
(* web.search *)

\* A web.search node asks for what the domain put under its key or for nothing, and
\* brings at most ten hits, whatever its config and the provider's answer.  Code:
\* web_search_factory (nodes/builtin.py).
THEOREM WebSearchStaysBoundedCorrect == Spec => []WebSearchStaysBounded
<1>1. ASSUME NEW c \in SearchConfigs PROVE WebTopK(c) \in 1..10
  BY SearchAssumption DEF WebTopK
<1>2. Cases => WebSearchStaysBounded
  <2> SUFFICES ASSUME Cases, Answered("search") PROVE WebSearchStaysBounded
    BY DEF WebSearchStaysBounded
  <2>1. PICK c \in SearchConfigs, s \in SearchStates, a \in SearchAnswers :
          /\ input = [config |-> c, state |-> s, answer |-> a]
          /\ output = WebSearch(c, s, a)
    BY DEF Cases, Answered, SearchInput
  <2> DEFINE query == WebQuery(c, s)
             called == Get(c, "enabled") = TRUE /\ Truthy(Get(s, query)) /\ a # Unset
  <2>2. /\ output.asked = IF called THEN {query} ELSE {}
        /\ output.hits = IF ~called \/ a = Refused THEN 0
                         ELSE IF a > WebTopK(c) THEN WebTopK(c) ELSE a
    BY <2>1 DEF WebSearch
  <2>3. called /\ a # Refused => a \in Nat
    BY SearchAssumption
  <2>4. output.hits \in 0..10
    <3> HIDE DEF called
    <3> QED BY <1>1, <2>2, <2>3
  <2>5. query = IF Get(c, "query_key") \in {Unset, Bad} THEN "web_search_query"
                ELSE Get(c, "query_key")
    BY DEF WebQuery, Given, Get
  <2> QED BY <2>1, <2>2, <2>4, <2>5 DEF WebSearchStaysBounded, Truthy
<1> QED BY <1>2, CasesHold, PTL
-----------------------------------------------------------------------------
(* Routes. *)

\* What a condition becomes: a router and its config.
LEMMA WhenBecomes ==
  ASSUME NEW item, "when" \in DOMAIN item, DesugarRoute(item) # Refused
  PROVE  LET when == item["when"]
             op == WhenOp(when)
             cond == DesugarRoute(item)
         IN  /\ op \in {"truthy", "equals", "in", "compare"}
             /\ cond.router = WhenRouter[op]
             /\ cond.mapping = [yes |-> item["then"], no |-> item["else"]]
             /\ "then" \in DOMAIN item /\ "else" \in DOMAIN item
             /\ DOMAIN cond.config = WhenKeys[op] \cup {"field", "true_label", "false_label"}
             /\ cond.config["field"] = when["field"]
             /\ cond.config["true_label"] = "yes" /\ cond.config["false_label"] = "no"
             /\ op \in {"equals", "compare"} =>
                  cond.config["value"] = when["value"] /\ "value" \in DOMAIN when
             /\ op = "in" => cond.config["values"] = when["values"]
             /\ op = "compare" => cond.config["op"] = Cmp(when)
<1> DEFINE when == item["when"]
           op == WhenOp(when)
           cond == DesugarRoute(item)
           extra == [k \in WhenKeys[op] |-> IF k = "op" THEN Cmp(when) ELSE when[k]]
           base == [field |-> when["field"], true_label |-> "yes", false_label |-> "no"]
<1>1. cond = DesugarWhen(item)
  BY DEF DesugarRoute
<1>2. /\ op \in DOMAIN WhenRouter
      /\ Given(Get(item, "then")) /\ Given(Get(item, "else"))
      /\ op \in {"equals", "compare"} => "value" \in DOMAIN when
      /\ cond.router = WhenRouter[op] /\ cond.config = Merged(extra, base)
      /\ cond.mapping = [yes |-> item["then"], no |-> item["else"]]
  BY <1>1 DEF DesugarWhen
<1>3. op \in {"truthy", "equals", "in", "compare"}
  BY <1>2 DEF WhenRouter
<1>4. "then" \in DOMAIN item /\ "else" \in DOMAIN item
  BY <1>2 DEF Given, Get
<1>5. /\ DOMAIN base = {"field", "true_label", "false_label"} /\ DOMAIN extra = WhenKeys[op]
      /\ base["field"] = when["field"] /\ base["true_label"] = "yes"
      /\ base["false_label"] = "no"
      /\ \A k \in WhenKeys[op] : extra[k] = IF k = "op" THEN Cmp(when) ELSE when[k]
  OBVIOUS
<1> HIDE DEF extra, base
<1>6. /\ WhenKeys["truthy"] = {} /\ WhenKeys["equals"] = {"value"}
      /\ WhenKeys["in"] = {"values"} /\ WhenKeys["compare"] = {"op", "value"}
  BY DEF WhenKeys
<1>7. /\ DOMAIN cond.config = WhenKeys[op] \cup {"field", "true_label", "false_label"}
      /\ \A k \in DOMAIN cond.config : cond.config[k] = IF k \in WhenKeys[op] THEN extra[k] ELSE base[k]
  BY <1>2, <1>5 DEF Merged
<1> HIDE DEF cond, op, when
<1>8. /\ cond.config["field"] = when["field"]
      /\ cond.config["true_label"] = "yes" /\ cond.config["false_label"] = "no"
  BY <1>3, <1>5, <1>6, <1>7
<1>9. /\ op \in {"equals", "compare"} => cond.config["value"] = when["value"]
      /\ op = "in" => cond.config["values"] = when["values"]
      /\ op = "compare" => cond.config["op"] = Cmp(when)
  BY <1>3, <1>5, <1>6, <1>7
<1> QED BY <1>2, <1>3, <1>4, <1>7, <1>8, <1>9 DEF cond, op, when

LEMMA WhenLeads ==
  ASSUME NEW item \in RouteItems, NEW s \in RouteStates, "when" \in DOMAIN item,
         DesugarRoute(item) # Refused
  PROVE  LET v == Get(s, item["when"]["field"])
             to == IF Relation(item["when"], v) THEN item["then"] ELSE item["else"]
         IN  Branch(DesugarRoute(item), s) = to /\ to # Refused
<1> DEFINE when == item["when"]
           op == WhenOp(when)
           cond == DesugarRoute(item)
           v == Get(s, when["field"])
           router == cond.router
           config == cond.config
           holds == \/ router = "field_truthy" /\ Truthy(v)
                    \/ router = "field_equals" /\ v = config["value"]
                    \/ router = "field_in" /\ v \in config["values"]
                    \/ router = "field_compare" /\ Compare(config["op"], v, config["value"])
<1>1. /\ op \in {"truthy", "equals", "in", "compare"}
      /\ router = WhenRouter[op]
      /\ cond.mapping = [yes |-> item["then"], no |-> item["else"]]
      /\ "then" \in DOMAIN item /\ "else" \in DOMAIN item
      /\ DOMAIN config = WhenKeys[op] \cup {"field", "true_label", "false_label"}
      /\ config["field"] = when["field"]
      /\ config["true_label"] = "yes" /\ config["false_label"] = "no"
      /\ op \in {"equals", "compare"} => config["value"] = when["value"] /\ "value" \in DOMAIN when
      /\ op = "in" => config["values"] = when["values"]
      /\ op = "compare" => config["op"] = Cmp(when)
  BY WhenBecomes
<1> HIDE DEF cond
<1>2. /\ op = "truthy" => router = "field_truthy"
      /\ op = "equals" => router = "field_equals"
      /\ op = "in" => router = "field_in"
      /\ op = "compare" => router = "field_compare"
  BY <1>1 DEF WhenRouter
<1>3. RouterLabel(router, config, s) = IF holds THEN "yes" ELSE "no"
  BY <1>1, <1>2 DEF RouterLabel
<1>4. Branch(cond, s) = IF holds THEN item["then"] ELSE item["else"]
  BY <1>1, <1>3 DEF Branch
<1>5. v = Unset \/ v \in Int
  BY RouteAssumption DEF Get
<1>6. /\ "op" \in DOMAIN when <=> op # "truthy" \/ ("op" \in DOMAIN when /\ when["op"] = "truthy")
      /\ "op" \in DOMAIN when => when["op"] = op
  BY DEF WhenOp
<1>7. holds <=> Relation(when, v)
  <2>1. CASE op = "truthy"
    BY <1>2, <1>6, <2>1 DEF Relation, Truthy
  <2>2. CASE op = "equals"
    BY <1>1, <1>2, <1>6, <2>2 DEF Relation
  <2>3. CASE op = "in"
    BY <1>1, <1>2, <1>6, <2>3 DEF Relation
  <2>4. CASE op = "compare"
    <3> DEFINE cmp == Cmp(when)
               b == when["value"]
    <3>1. holds <=> Compare(cmp, v, b)
      BY <1>1, <1>2, <2>4
    <3>2. b \in Int
      BY <1>1, <2>4, RouteAssumption
    <3>3. cmp = IF Get(when, "cmp") = Unset THEN Get(when, "compare") ELSE when["cmp"]
      BY DEF Cmp
    <3>4. Relation(when, v) <=>
            IF v = Unset THEN cmp = "ne"
            ELSE \/ cmp \in {"lt", "le", "ne"} /\ v < b
                 \/ cmp \in {"le", "ge", "eq"} /\ v = b
                 \/ cmp \in {"gt", "ge", "ne"} /\ v > b
      BY <1>6, <2>4, <3>3 DEF Relation
    <3> HIDE DEF cmp, b, holds, v
    <3>5. CASE v = Unset
      BY <3>1, <3>2, <3>4, <3>5, NoneAssumption DEF Compare
    <3>6. CASE v \in Int
      BY <3>1, <3>2, <3>4, <3>6, NoneAssumption DEF Compare
    <3> QED BY <1>5, <3>5, <3>6 DEF v
  <2> QED BY <1>1, <2>1, <2>2, <2>3, <2>4
<1>8. Refused \notin {item["then"], item["else"]}
  BY <1>1, RouteAssumption DEF Get
<1> QED BY <1>4, <1>7, <1>8 DEF cond

LEMMA SwitchLeads ==
  ASSUME NEW item \in RouteItems, NEW s \in RouteStates, "when" \notin DOMAIN item,
         DesugarRoute(item) # Refused
  PROVE  LET v == Get(s, item["switch"])
             l == IF v = Unset THEN "default" ELSE Str(v)
             cases == item["cases"]
             to == IF l = "default" /\ "else" \in DOMAIN item THEN item["else"] ELSE cases[l]
             named == (l = "default" /\ "else" \in DOMAIN item) \/ l \in DOMAIN cases
         IN  /\ Branch(DesugarRoute(item), s) = IF named THEN to ELSE Refused
             /\ named => to # Refused
<1> DEFINE cond == DesugarRoute(item)
           v == Get(s, item["switch"])
           l == IF v = Unset THEN "default" ELSE Str(v)
           cases == item["cases"]
           others == [default |-> item["else"]]
           config == [field |-> item["switch"], default |-> "default"]
           to == IF l = "default" /\ "else" \in DOMAIN item THEN item["else"] ELSE cases[l]
           named == (l = "default" /\ "else" \in DOMAIN item) \/ l \in DOMAIN cases
<1>1. "switch" \in DOMAIN item /\ cond = DesugarSwitch(item)
  BY DEF DesugarRoute
<1>2. /\ cond.router = "choice" /\ cond.config = config
      /\ cond.mapping = IF "else" \in DOMAIN item THEN Merged(others, Get(item, "cases"))
                        ELSE Get(item, "cases")
      /\ Get(item, "cases") # Unset
  BY <1>1 DEF DesugarSwitch
<1>3. "cases" \in DOMAIN item /\ Get(item, "cases") = cases
  BY <1>2 DEF Get
<1>4. RouterLabel("choice", config, s) = l
  <2>1. DOMAIN config = {"field", "default"} /\ config["field"] = item["switch"]
        /\ config["default"] = "default"
    OBVIOUS
  <2> HIDE DEF config
  <2> QED BY <2>1 DEF RouterLabel, Chosen
<1>5. Branch(cond, s) = IF l \in DOMAIN cond.mapping THEN cond.mapping[l] ELSE Refused
  BY <1>2, <1>4 DEF Branch
<1>6. DOMAIN others = {"default"} /\ others["default"] = item["else"]
  OBVIOUS
<1> HIDE DEF others, cond, l, cases
<1>7. Branch(cond, s) = IF named THEN to ELSE Refused
  <2>1. CASE "else" \in DOMAIN item
    <3>1. /\ DOMAIN Merged(others, cases) = {"default"} \cup DOMAIN cases
          /\ \A k \in DOMAIN Merged(others, cases) :
               Merged(others, cases)[k] = IF k = "default" THEN item["else"] ELSE cases[k]
      BY <1>6 DEF Merged
    <3> QED BY <1>2, <1>3, <1>5, <2>1, <3>1
  <2>2. CASE "else" \notin DOMAIN item
    BY <1>2, <1>3, <1>5, <2>2
  <2> QED BY <2>1, <2>2
<1>8. named => to # Refused
  BY <1>1, RouteAssumption DEF cases, Get
<1> QED BY <1>7, <1>8 DEF cond, l, cases

\* Every entry of graph.routes that is accepted leads where it says, whatever the state
\* holds.  Code: desugar_route_item (core/routes_sugar.py), the router factories
\* (registry/routers.py).
THEOREM RoutesMeanWhatTheySayCorrect == Spec => []RoutesMeanWhatTheySay
<1>1. Cases => RoutesMeanWhatTheySay
  <2> SUFFICES ASSUME Cases, Answered("route"), output # "invalid" PROVE RoutesMeanWhatTheySay
    BY DEF RoutesMeanWhatTheySay
  <2>1. PICK item \in RouteItems, s \in RouteStates : input = [item |-> item, state |-> s]
    BY DEF Cases, Answered, RouteInput
  <2>2. input.item = item /\ input.state = s
    BY <2>1
  <2> DEFINE cond == DesugarRoute(item)
             branch == Branch(cond, s)
  <2>3. cond # Refused /\ output = IF branch = Refused THEN "fails" ELSE branch
    BY <2>2 DEF Cases, Answered, Route
  <2> HIDE DEF branch
  <2>4. CASE "when" \in DOMAIN item
    <3> DEFINE v == Get(s, item["when"]["field"])
               to == IF Relation(item["when"], v) THEN item["then"] ELSE item["else"]
    <3>1. branch = to /\ to # Refused
      BY <2>3, <2>4, WhenLeads DEF branch
    <3>2. output = to
      BY <2>3, <3>1
    <3> QED BY <2>2, <2>4, <3>2 DEF RoutesMeanWhatTheySay
  <2>5. CASE "when" \notin DOMAIN item
    <3> DEFINE v == Get(s, item["switch"])
               l == IF v = Unset THEN "default" ELSE Str(v)
               cases == item["cases"]
               to == IF l = "default" /\ "else" \in DOMAIN item THEN item["else"] ELSE cases[l]
               named == (l = "default" /\ "else" \in DOMAIN item) \/ l \in DOMAIN cases
    <3>1. branch = (IF named THEN to ELSE Refused) /\ (named => to # Refused)
      BY <2>3, <2>5, SwitchLeads DEF branch
    <3>2. output = IF named THEN to ELSE "fails"
      BY <2>3, <3>1
    <3>3. output = IF v = Unset \/ Str(v) = "default"
                   THEN IF "else" \in DOMAIN item THEN item["else"]
                        ELSE IF "default" \in DOMAIN cases THEN cases["default"] ELSE "fails"
                   ELSE IF Str(v) \in DOMAIN cases THEN cases[Str(v)] ELSE "fails"
      BY <3>2
    <3> QED BY <2>2, <2>5, <3>3 DEF RoutesMeanWhatTheySay
  <2> QED BY <2>4, <2>5
<1> QED BY <1>1, CasesHold, PTL
-----------------------------------------------------------------------------
(* Definitions. *)

\* What parse_agent_definition checked of a definition it returns, and where its parts
\* come from.
LEMMA Parsed ==
  ASSUME NEW raw, ParseDefinition(raw) # Refused
  PROVE  LET d == ParseDefinition(raw)
             graph == Get(raw, "graph")
         IN  /\ ExtendedBlocksAccepted(raw) /\ Given(graph)
             /\ d.nodes = graph["nodes"] /\ NodesAccepted(Get(graph, "nodes"))
             /\ d.edges = Listed(Get(graph, "edges"))
             /\ d.conditional = ConditionalEdges(graph) /\ d.conditional \notin {Bad, Refused}
             /\ GraphAccepted(graph, d.edges, d.conditional)
             /\ d.entry = CHOOSE n \in EntryNames(graph, d.edges) : TRUE
             /\ d.bindings = ParseBindings(Get(raw, "bindings"))
             /\ d.memory = Get(raw, "memory") /\ d.session = Get(raw, "session")
<1> DEFINE graph == Get(raw, "graph")
           edges == Listed(Get(graph, "edges"))
           accepted == /\ ExtendedBlocksAccepted(raw)
                       /\ Given(Get(raw, "agent_id"))
                       /\ \A f \in {"display_name", "version"} : f \in DOMAIN raw => Given(raw[f])
                       /\ Get(raw, "entry") # Bad
                       /\ Given(graph)
                       /\ NodesAccepted(Get(graph, "nodes"))
                       /\ edges # Bad /\ ConditionalEdges(graph) \notin {Bad, Refused}
                       /\ GraphAccepted(graph, edges, ConditionalEdges(graph))
           result == [agent_id |-> raw["agent_id"],
                      entry    |-> CHOOSE n \in EntryNames(graph, edges) : TRUE,
                      nodes    |-> graph["nodes"], edges |-> edges,
                      conditional |-> ConditionalEdges(graph),
                      bindings |-> ParseBindings(Get(raw, "bindings")),
                      memory   |-> Get(raw, "memory"), session |-> Get(raw, "session"),
                      hitl     |-> Get(raw, "hitl")]
<1>1. ParseDefinition(raw) = IF accepted THEN result ELSE Refused
  BY Zenon DEF ParseDefinition
<1>2. accepted => /\ ExtendedBlocksAccepted(raw) /\ Given(graph)
                  /\ NodesAccepted(Get(graph, "nodes"))
                  /\ ConditionalEdges(graph) \notin {Bad, Refused}
                  /\ GraphAccepted(graph, edges, ConditionalEdges(graph))
  OBVIOUS
<1>3. /\ result.nodes = graph["nodes"] /\ result.edges = edges
      /\ result.conditional = ConditionalEdges(graph)
      /\ result.entry = CHOOSE n \in EntryNames(graph, edges) : TRUE
      /\ result.bindings = ParseBindings(Get(raw, "bindings"))
      /\ result.memory = Get(raw, "memory") /\ result.session = Get(raw, "session")
  OBVIOUS
<1> HIDE DEF accepted, result
<1>4. accepted /\ ParseDefinition(raw) = result
  BY <1>1
<1> QED BY <1>2, <1>3, <1>4

\* A plane the YAML binds, as the definition holds it.
LEMMA PlaneHeld ==
  ASSUME NEW raw \in Definitions, NEW p \in Planes,
         Get(raw, "bindings") # Unset, PlaneBlock(Get(raw, "bindings"), p) # Unset,
         ParseBindings(Get(raw, "bindings")) # Refused
  PROVE  LET held == ParseBindings(Get(raw, "bindings"))
         IN  /\ held # Unset /\ held[p] # Unset
             /\ DOMAIN held[p] = PlaneFields[p] \cup Knobs(p)
             /\ \A f \in PlaneFields[p] :
                  held[p][f] = Get(PlaneBlock(Get(raw, "bindings"), p), f)
<1> DEFINE block == Get(raw, "bindings")
           plane == PlaneBlock(block, p)
<1>1. ParseBindings(block) =
        [q \in Planes |-> LET part == PlaneBlock(block, q)
                          IN  IF part = Unset THEN Unset
                              ELSE [f \in PlaneFields[q] \cup Knobs(q) |-> Get(part, f)]]
  BY Zenon DEF ParseBindings
<1>2. ParseBindings(block)[p] = [f \in PlaneFields[p] \cup Knobs(p) |-> Get(plane, f)]
  BY <1>1
<1>3. ParseBindings(block) # Unset /\ ParseBindings(block)[p] # Unset
  BY NoneAssumption
<1> QED BY <1>2, <1>3

\* What a served node is offered: the bound values, references looked up.
LEMMA OfferedIs ==
  ASSUME NEW d, NEW type, NEW p \in Planes, Serves(type, p), Binds(d.bindings, p)
  PROVE  /\ PlanesOf(type) = {p}
         /\ \A f \in PlaneFields[p] :
              /\ f \in DOMAIN Offered(d, type, Env)
              /\ Offered(d, type, Env)[f] = ResolveEnvRef(d.bindings[p][f], Env)
<1> DEFINE resolved == ResolveBinding(d.bindings, p, Env)
<1>1. \A f \in PlaneFields[p] : /\ f \in DOMAIN resolved
                               /\ resolved[f] = ResolveEnvRef(d.bindings[p][f], Env)
  BY DEF ResolveBinding
<1> HIDE DEF resolved
<1>2. CASE type = "llm_chain"
  <2>1. p = "llm"
    BY <1>2 DEF Serves
  <2>2. Offered(d, type, Env) = resolved /\ PlanesOf(type) = {p}
    BY <1>2, <2>1, Zenon DEF Offered, PlanesOf, resolved
  <2> QED BY <1>1, <2>2
<1>3. CASE type = "rag.retrieve"
  <2>1. p = "search"
    BY <1>3 DEF Serves
  <2>2. Offered(d, type, Env) = resolved /\ PlanesOf(type) = {p}
    BY <1>3, <2>1, Zenon DEF Offered, PlanesOf, resolved
  <2> QED BY <1>1, <2>2
<1>4. CASE type = "domain.sql.query"
  <2>1. p = "sql"
    BY <1>4 DEF Serves
  <2> DEFINE more == [server_hostname |-> resolved["host"]]
  <2>2. Offered(d, type, Env) = Merged(resolved, more) /\ PlanesOf(type) = {p}
    BY <1>4, <2>1, Zenon DEF Offered, PlanesOf, resolved
  <2> HIDE DEF more
  <2>4. \A f \in DOMAIN resolved : f \in DOMAIN Merged(resolved, more)
                                   /\ Merged(resolved, more)[f] = resolved[f]
    BY DEF Merged
  <2> QED BY <1>1, <2>2, <2>4
<1> QED BY <1>2, <1>3, <1>4 DEF Serves

\* A node keeps its own keys; the others are those it is offered.
LEMMA ConfigHolds ==
  ASSUME NEW d, NEW node, NEW p \in Planes, Serves(node.type, p),
         NEW f \in PlaneFields[p], f \in DOMAIN Offered(d, node.type, Env)
  PROVE  Get(NodeConfig(d, node, Env), f) =
           IF f \in DOMAIN node.config THEN node.config[f]
           ELSE Offered(d, node.type, Env)[f]
<1> DEFINE offered == Offered(d, node.type, Env)
           filled == Restrict(offered, {g \in DOMAIN offered : offered[g] # Unset})
           named == Named(d, node)
           inner == Merged(named, filled)
           outer == Merged(node.config, inner)
<1>1. GateConfig(d, node) = <<>>
  BY DEF GateConfig, Serves
<1>2. NodeConfig(d, node, Env) = Merged(<<>>, outer)
  BY <1>1 DEF NodeConfig
<1>3. Get(filled, f) = offered[f]
  BY DEF Get, Restrict
<1>4. DOMAIN named = {"agent_id"} /\ f # "agent_id"
  BY DEF PlaneFields, Planes, Named, Serves
<1> HIDE DEF offered, filled, named
<1>5. Get(inner, f) = offered[f]
  BY <1>3, <1>4, MergedGet
<1> HIDE DEF inner
<1>6. Get(outer, f) = IF f \in DOMAIN node.config THEN node.config[f] ELSE offered[f]
  BY <1>5, MergedGet
<1> HIDE DEF outer
<1>7. DOMAIN <<>> = {}
  OBVIOUS
<1>8. Get(Merged(<<>>, outer), f) = Get(outer, f)
  BY <1>7, MergedGet
<1> QED BY <1>2, <1>6, <1>8 DEF offered

\* No node of a graph that compiled is handed a reference, or the process default in place
\* of a variable that is unset, for any definition and environment.  Code:
\* GraphBuilder.add_nodes, resolve_env_ref and the bindings of core/bindings.py.
THEOREM BindingsFailClosedCorrect == Spec => []BindingsFailClosed
<1>1. Cases => BindingsFailClosed
  <2> DEFINE d == output.definition
             block == Get(input, "bindings")
  <2> SUFFICES ASSUME Cases, Answered("build"), output.compiled,
                      NEW i \in DOMAIN d.nodes, NEW p \in Planes,
                      Serves(d.nodes[i].type, p), block # Unset, PlaneBlock(block, p) # Unset,
                      NEW f \in PlaneFields[p]
               PROVE  LET node == d.nodes[i]
                          bound == Get(PlaneBlock(block, p), f)
                      IN  /\ bound \in DOMAIN Env => Env[bound] # Unset
                          /\ Get(NodeConfig(d, node, Env), f) =
                               IF f \in DOMAIN node.config THEN node.config[f]
                               ELSE IF bound \in DOMAIN Env THEN Env[bound] ELSE bound
    BY Zenon DEF BindingsFailClosed
  <2> DEFINE node == d.nodes[i]
             bound == Get(PlaneBlock(block, p), f)
  <2>1. input \in Definitions /\ output = Build
    BY DEF Cases, Answered
  <2>2. d = ParseDefinition(input) /\ d # Refused /\ Compiles(d, Env)
    BY <2>1 DEF Build
  <2>3. d.bindings = ParseBindings(block) /\ ParseBindings(block) # Refused
    BY <2>2, Parsed DEF ExtendedBlocksAccepted
  <2>4. Binds(d.bindings, p) /\ d.bindings[p][f] = bound
    BY <2>1, <2>3, PlaneHeld DEF Binds
  <2>5. /\ f \in DOMAIN Offered(d, node.type, Env)
        /\ Offered(d, node.type, Env)[f] = ResolveEnvRef(bound, Env)
        /\ PlanesOf(node.type) = {p}
    BY <2>4, OfferedIs
  <2>6. ResolveEnvRef(bound, Env) # Refused
    BY <2>2, <2>4, <2>5 DEF Compiles, NodesBuilt, Unresolved
  <2>7. Get(NodeConfig(d, node, Env), f) =
          IF f \in DOMAIN node.config THEN node.config[f] ELSE ResolveEnvRef(bound, Env)
    <3>1. Serves(node.type, p)
      OBVIOUS
    <3> HIDE DEF node
    <3>2. Get(NodeConfig(d, node, Env), f) =
            IF f \in DOMAIN node.config THEN node.config[f] ELSE Offered(d, node.type, Env)[f]
      BY <2>5, <3>1, ConfigHolds
    <3> QED BY <2>5, <3>2
  <2> QED BY <2>6, <2>7 DEF ResolveEnvRef
<1> QED BY <1>1, CasesHold, PTL
-----------------------------------------------------------------------------
(* Accepted definitions. *)

\* What a factory asks of the YAML is no binding's to give or to take away.
OwnKeys == {<<"set_value", "field">>, <<"llm_chain", "chain">>, <<"echo_result", "from_fields">>,
            <<"rag.retrieve", "top_k">>, <<"web.search", "top_k">>,
            <<"web.search", "allowed_domains">>}

LEMMA OfferedKeys ==
  ASSUME NEW d, NEW type, NEW k, <<type, k>> \in OwnKeys
  PROVE  k \notin DOMAIN Offered(d, type, Env)
<1>1. \A p \in Planes : DOMAIN ResolveBinding(d.bindings, p, Env) = PlaneFields[p] \cup Knobs(p)
  BY DEF ResolveBinding
<1>2. /\ PlaneFields["llm"] = {"endpoint", "deployment"} /\ "llm" \in Planes
      /\ PlaneFields["search"] = {"endpoint", "index"} /\ "search" \in Planes
      /\ Knobs("search") = {} /\ Knobs("llm") = {"temperature", "top_p", "top_k", "max_tokens"}
  BY DEF PlaneFields, Planes, Knobs, KnobRange
<1>3. CASE type = "llm_chain" /\ k = "chain"
  <2>1. Offered(d, type, Env) = ResolveBinding(d.bindings, "llm", Env)
    BY <1>3, Zenon DEF Offered
  <2>2. DOMAIN Offered(d, type, Env) = PlaneFields["llm"] \cup Knobs("llm")
    BY <1>1, <1>2, <2>1
  <2> QED BY <1>2, <1>3, <2>2
<1>4. CASE type = "rag.retrieve" /\ k = "top_k"
  <2>1. Offered(d, type, Env) = ResolveBinding(d.bindings, "search", Env)
    BY <1>4, Zenon DEF Offered
  <2>2. DOMAIN Offered(d, type, Env) = PlaneFields["search"] \cup Knobs("search")
    BY <1>1, <1>2, <2>1
  <2> QED BY <1>2, <1>4, <2>2
<1>5. CASE type \notin {"llm_chain", "rag.retrieve", "domain.sql.query"}
  <2>1. Offered(d, type, Env) = <<>>
    BY <1>5, Zenon DEF Offered
  <2>2. DOMAIN <<>> = {}
    OBVIOUS
  <2> QED BY <2>1, <2>2
<1> QED BY <1>3, <1>4, <1>5 DEF OwnKeys

LEMMA OwnConfig ==
  ASSUME NEW d, NEW node, NEW k, <<node.type, k>> \in OwnKeys
  PROVE  LET config == NodeConfig(d, node, Env)
         IN  /\ Get(config, k) = Get(node.config, k)
             /\ k \in DOMAIN config <=> k \in DOMAIN node.config
             /\ k \in DOMAIN config => config[k] = node.config[k]
<1> DEFINE offered == Offered(d, node.type, Env)
           filled == Restrict(offered, {g \in DOMAIN offered : offered[g] # Unset})
           named == Named(d, node)
           inner == Merged(named, filled)
           outer == Merged(node.config, inner)
<1>1. GateConfig(d, node) = <<>>
  BY DEF GateConfig, OwnKeys
<1>2. NodeConfig(d, node, Env) = Merged(<<>>, outer)
  BY <1>1 DEF NodeConfig
<1>3. k \notin DOMAIN filled
  BY OfferedKeys DEF Restrict
<1>4. DOMAIN named = {"agent_id"} /\ k # "agent_id"
  BY DEF Named, OwnKeys
<1> HIDE DEF offered, filled, named
<1>5. k \notin DOMAIN inner
  BY <1>3, <1>4, MergedIn
<1> HIDE DEF inner
<1>6. k \in DOMAIN outer <=> k \in DOMAIN node.config
  BY <1>5, MergedIn
<1>7. k \in DOMAIN node.config => outer[k] = node.config[k]
  BY MergedIn
<1> HIDE DEF outer
<1>8. DOMAIN <<>> = {}
  OBVIOUS
<1>9. /\ k \in DOMAIN Merged(<<>>, outer) <=> k \in DOMAIN outer
      /\ k \in DOMAIN outer => Merged(<<>>, outer)[k] = outer[k]
  BY <1>8, MergedIn
<1> QED BY <1>2, <1>6, <1>7, <1>9 DEF Get

LEMMA FactoryFits ==
  ASSUME NEW d, NEW node
  PROVE  LET own(k) == Get(node.config, k)
         IN  FactoryAccepts(node.type, NodeConfig(d, node, Env)) <=>
               /\ node.type = "set_value" => Given(own("field"))
               /\ node.type = "llm_chain" => Given(own("chain"))
               /\ node.type = "echo_result" => own("from_fields") # Bad
               /\ node.type \in {"rag.retrieve", "web.search"} => CountGiven(node.config)
               /\ node.type = "web.search" => own("allowed_domains") # Bad
<1> DEFINE config == NodeConfig(d, node, Env)
<1>1. \A k : <<node.type, k>> \in OwnKeys => Get(config, k) = Get(node.config, k)
  BY OwnConfig
<1>0. <<node.type, "top_k">> \in OwnKeys => (CountGiven(config) <=> CountGiven(node.config))
  BY OwnConfig DEF CountGiven
<1> HIDE DEF config
<1>2. CASE node.type = "set_value"
  <2>1. FactoryAccepts(node.type, config) <=> Given(Get(config, "field"))
    BY <1>2, Zenon DEF FactoryAccepts
  <2>2. Get(config, "field") = Get(node.config, "field")
    BY <1>1, <1>2 DEF OwnKeys
  <2> QED BY <1>2, <2>1, <2>2 DEF config
<1>3. CASE node.type = "llm_chain"
  <2>1. FactoryAccepts(node.type, config) <=> Given(Get(config, "chain"))
    BY <1>3, Zenon DEF FactoryAccepts
  <2>2. Get(config, "chain") = Get(node.config, "chain")
    BY <1>1, <1>3 DEF OwnKeys
  <2> QED BY <1>3, <2>1, <2>2 DEF config
<1>4. CASE node.type = "echo_result"
  <2>1. FactoryAccepts(node.type, config) <=> Get(config, "from_fields") # Bad
    BY <1>4, Zenon DEF FactoryAccepts
  <2>2. Get(config, "from_fields") = Get(node.config, "from_fields")
    BY <1>1, <1>4 DEF OwnKeys
  <2> QED BY <1>4, <2>1, <2>2 DEF config
<1>5. CASE node.type = "rag.retrieve"
  <2>1. FactoryAccepts(node.type, config) <=> CountGiven(config)
    BY <1>5, Zenon DEF FactoryAccepts
  <2>2. CountGiven(config) <=> CountGiven(node.config)
    BY <1>0, <1>5 DEF OwnKeys
  <2> QED BY <1>5, <2>1, <2>2 DEF config
<1>7. CASE node.type = "web.search"
  <2>1. FactoryAccepts(node.type, config) <=>
          CountGiven(config) /\ Get(config, "allowed_domains") # Bad
    BY <1>7, Zenon DEF FactoryAccepts
  <2>2. CountGiven(config) <=> CountGiven(node.config)
    BY <1>0, <1>7 DEF OwnKeys
  <2>3. Get(config, "allowed_domains") = Get(node.config, "allowed_domains")
    BY <1>1, <1>7 DEF OwnKeys
  <2> QED BY <1>7, <2>1, <2>2, <2>3 DEF config
<1>6. CASE node.type \notin {"set_value", "llm_chain", "echo_result", "rag.retrieve", "web.search"}
  <2>1. FactoryAccepts(node.type, config)
    BY <1>6, Zenon DEF FactoryAccepts
  <2> QED BY <1>6, <2>1 DEF config
<1> QED BY <1>2, <1>3, <1>4, <1>5, <1>6, <1>7

\* A plane of a node cannot be resolved exactly when it is bound to an unset variable.
LEMMA UnresolvedIs ==
  ASSUME NEW raw \in Definitions, NEW p \in Planes,
         ParseBindings(Get(raw, "bindings")) # Refused
  PROVE  LET block == Get(raw, "bindings")
         IN  Unresolved(ParseBindings(block), p, Env) <=>
               /\ block # Unset /\ PlaneBlock(block, p) # Unset
               /\ \E f \in PlaneFields[p] :
                    LET bound == Get(PlaneBlock(block, p), f)
                    IN  bound \in DOMAIN Env /\ Env[bound] = Unset
<1> DEFINE block == Get(raw, "bindings")
           held == ParseBindings(block)
<1>1. CASE block = Unset
  BY <1>1 DEF ParseBindings, Unresolved, Binds
<1>2. CASE block # Unset /\ PlaneBlock(block, p) = Unset
  <2>1. held = [q \in Planes |-> LET part == PlaneBlock(block, q)
                                 IN  IF part = Unset THEN Unset
                                     ELSE [f \in PlaneFields[q] \cup Knobs(q) |-> Get(part, f)]]
    BY <1>2, Zenon DEF ParseBindings
  <2>2. held[p] = Unset
    BY <1>2, <2>1
  <2> QED BY <1>2, <2>2 DEF Unresolved, Binds
<1>3. CASE block # Unset /\ PlaneBlock(block, p) # Unset
  <2>1. /\ held # Unset /\ held[p] # Unset
        /\ \A f \in PlaneFields[p] : held[p][f] = Get(PlaneBlock(block, p), f)
    BY <1>3, PlaneHeld
  <2>2. \A f \in PlaneFields[p] : held[p][f] # Refused
    BY <1>3, NoneAssumption
  <2>3. \A v \in DOMAIN Env : Env[v] # Refused
    BY NoneAssumption
  <2> HIDE DEF held, block
  <2>4. \A f \in PlaneFields[p] :
          ResolveEnvRef(held[p][f], Env) = Refused <=>
            held[p][f] \in DOMAIN Env /\ Env[held[p][f]] = Unset
    BY <2>2, <2>3 DEF ResolveEnvRef
  <2> QED BY <1>3, <2>1, <2>4 DEF Unresolved, Binds, held, block
<1> QED BY <1>1, <1>2, <1>3

LEMMA PlanesServed ==
  ASSUME NEW type
  PROVE  \A p : p \in PlanesOf(type) <=> p \in Planes /\ Serves(type, p)
<1>1. {"llm", "search", "sql"} \subseteq Planes
  BY DEF Planes, PlaneFields
<1>2. CASE type = "llm_chain"
  <2>1. PlanesOf(type) = {"llm"}
    BY <1>2, Zenon DEF PlanesOf
  <2> QED BY <1>1, <1>2, <2>1 DEF Serves
<1>3. CASE type = "rag.retrieve"
  <2>1. PlanesOf(type) = {"search"}
    BY <1>3, Zenon DEF PlanesOf
  <2> QED BY <1>1, <1>3, <2>1 DEF Serves
<1>4. CASE type = "domain.sql.query"
  <2>1. PlanesOf(type) = {"sql"}
    BY <1>4, Zenon DEF PlanesOf
  <2> QED BY <1>1, <1>4, <2>1 DEF Serves
<1>5. CASE type \notin {"llm_chain", "rag.retrieve", "domain.sql.query"}
  <2>1. PlanesOf(type) = {}
    BY <1>5, Zenon DEF PlanesOf
  <2> QED BY <1>5, <2>1 DEF Serves
<1> QED BY <1>2, <1>3, <1>4, <1>5

LEMMA NodesFit ==
  ASSUME NEW raw \in Definitions, ParseDefinition(raw) # Refused
  PROVE  LET d == ParseDefinition(raw)
         IN  NodesBuilt(d, Env) <=> \A i \in DOMAIN d.nodes : ~NodeFault(raw, d.nodes[i])
<1> DEFINE d == ParseDefinition(raw)
<1>1. d.bindings = ParseBindings(Get(raw, "bindings")) /\ d.bindings # Refused
  BY Parsed DEF ExtendedBlocksAccepted
<1> HIDE DEF d
<1>2. ASSUME NEW node
      PROVE  NodeFault(raw, node) <=>
               ~ /\ node.type \in NodeTypes /\ node.id \notin ReservedIds
                 /\ \A p \in PlanesOf(node.type) : ~Unresolved(d.bindings, p, Env)
                 /\ FactoryAccepts(node.type, NodeConfig(d, node, Env))
  <2>1. (\E p \in PlanesOf(node.type) : Unresolved(d.bindings, p, Env)) <=>
          \E p \in Planes : \E f \in PlaneFields[p] :
            /\ Serves(node.type, p)
            /\ Get(raw, "bindings") # Unset /\ PlaneBlock(Get(raw, "bindings"), p) # Unset
            /\ LET bound == Get(PlaneBlock(Get(raw, "bindings"), p), f)
               IN  bound \in DOMAIN Env /\ Env[bound] = Unset
    BY <1>1, PlanesServed, UnresolvedIs
  <2> QED BY <2>1, FactoryFits DEF NodeFault, CountGiven, Given
<1> QED BY <1>2 DEF NodesBuilt, d

\* The router of a route is refused for an unknown word of comparison, or not at all.
LEMMA RouteFits ==
  ASSUME NEW item, DesugarRoute(item) # Refused
  PROVE  LET cond == DesugarRoute(item)
         IN  /\ cond.source = RouteSource(item)
             /\ RouterConfigAccepted(cond.router, cond.config) <=> ~RouteFault(item)
<1> DEFINE cond == DesugarRoute(item)
<1>1. CASE "switch" \in DOMAIN item
  <2> DEFINE config == [field |-> item["switch"], default |-> "default"]
  <2>1. /\ cond.source = RouteSource(item) /\ cond.router = "choice" /\ cond.config = config
        /\ Given(item["switch"])
    BY <1>1 DEF DesugarRoute, DesugarSwitch
  <2>2. Get(config, "field") = item["switch"]
    BY DEF Get
  <2> HIDE DEF config, cond
  <2>3. RouterConfigAccepted("choice", config) <=> "choice" \in Routers
    BY <2>1, <2>2 DEF RouterConfigAccepted
  <2> QED BY <1>1, <2>1, <2>3 DEF RouteFault, cond
<1>2. CASE "switch" \notin DOMAIN item
  <2> DEFINE when == item["when"]
             op == WhenOp(when)
  <2>1. "when" \in DOMAIN item /\ cond = DesugarWhen(item)
    BY <1>2 DEF DesugarRoute
  <2>2. /\ cond.source = RouteSource(item) /\ Given(Get(when, "field"))
        /\ op = "in" => Get(when, "values") \notin {Unset, Bad, {}}
    BY <2>1 DEF DesugarWhen
  <2>3. /\ op \in {"truthy", "equals", "in", "compare"} /\ cond.router = WhenRouter[op]
        /\ DOMAIN cond.config = WhenKeys[op] \cup {"field", "true_label", "false_label"}
        /\ cond.config["field"] = when["field"]
        /\ op = "in" => cond.config["values"] = when["values"]
        /\ op = "compare" => cond.config["op"] = Cmp(when)
    BY <2>1, WhenBecomes
  <2>4. Get(when, "field") = when["field"] /\ Get(cond.config, "field") = when["field"]
    BY <2>2, <2>3 DEF Get, Given
  <2>5. /\ WhenKeys["truthy"] = {} /\ WhenKeys["equals"] = {"value"}
        /\ WhenKeys["in"] = {"values"} /\ WhenKeys["compare"] = {"op", "value"}
    BY DEF WhenKeys
  <2>6. /\ WhenRouter["truthy"] = "field_truthy" /\ WhenRouter["equals"] = "field_equals"
        /\ WhenRouter["in"] = "field_in" /\ WhenRouter["compare"] = "field_compare"
    BY DEF WhenRouter
  <2>7. RouteFault(item) <=> \/ WhenRouter[op] \notin Routers
                             \/ op = "compare" /\ Cmp(when) \notin CompareOps
    BY <1>2 DEF RouteFault
  <2> HIDE DEF cond, op, when
  <2>8. op = "in" => Get(cond.config, "values") = Get(when, "values")
    BY <2>2, <2>3, <2>5 DEF Get
  <2>9. op = "compare" => Get(cond.config, "op") = Cmp(when)
    BY <2>3, <2>5 DEF Get
  <2>10. op \in {"equals", "compare"} => "value" \in DOMAIN cond.config
    BY <2>3, <2>5
  <2>11. RouterConfigAccepted(cond.router, cond.config) <=>
           WhenRouter[op] \in Routers /\ (op = "compare" => Cmp(when) \in CompareOps)
    BY <2>2, <2>3, <2>4, <2>6, <2>8, <2>9, <2>10 DEF RouterConfigAccepted
  <2> QED BY <2>2, <2>7, <2>11 DEF cond
<1> QED BY <1>1, <1>2

LEMMA Joined ==
  ASSUME NEW S, NEW T, NEW s \in Seq(S), NEW t \in Seq(T)
  PROVE  /\ DOMAIN (s \o t) = 1..(Len(s) + Len(t))
         /\ \A i \in DOMAIN s : (s \o t)[i] = s[i]
         /\ \A j \in DOMAIN t : (s \o t)[Len(s) + j] = t[j]
<1>1. s \in Seq(S \cup T) /\ t \in Seq(S \cup T)
  OBVIOUS
<1> QED BY <1>1

\* The conditional edges of a definition: the routes first, then the explicit ones.
LEMMA ConditionalsAre ==
  ASSUME NEW raw \in Definitions, ParseDefinition(raw) # Refused
  PROVE  LET all == ParseDefinition(raw).conditional
             routes == Listed(Get(Get(raw, "graph"), "routes"))
             conds == Listed(Get(Get(raw, "graph"), "conditional_edges"))
         IN  /\ Len(routes) \in Nat /\ DOMAIN routes = 1..Len(routes)
             /\ Len(conds) \in Nat /\ DOMAIN conds = 1..Len(conds)
             /\ DOMAIN all = 1..(Len(routes) + Len(conds))
             /\ \A i \in DOMAIN routes : /\ DesugarRoute(routes[i]) # Refused
                                         /\ all[i] = DesugarRoute(routes[i])
             /\ \A j \in DOMAIN conds : all[Len(routes) + j] = conds[j]
<1> DEFINE graph == Get(raw, "graph")
           all == ParseDefinition(raw).conditional
           routes == Listed(Get(graph, "routes"))
           conds == Listed(Get(graph, "conditional_edges"))
<1>1. Given(graph) /\ all = ConditionalEdges(graph) /\ all \notin {Bad, Refused}
  BY Parsed
<1>2. \A f \in {"routes", "conditional_edges"} :
        Given(Get(graph, f)) =>
          Get(graph, f) \in Seq({Get(graph, f)[i] : i \in DOMAIN Get(graph, f)})
  BY <1>1, ListAssumption
<1>3. \A f \in {"routes", "conditional_edges"} : Listed(Get(graph, f)) # Bad =>
        /\ Len(Listed(Get(graph, f))) \in Nat
        /\ Listed(Get(graph, f)) \in
             Seq({Listed(Get(graph, f))[i] : i \in DOMAIN Listed(Get(graph, f))})
  <2> SUFFICES ASSUME NEW f \in {"routes", "conditional_edges"}, Listed(Get(graph, f)) # Bad
               PROVE  Listed(Get(graph, f)) \in
                        Seq({Listed(Get(graph, f))[i] : i \in DOMAIN Listed(Get(graph, f))})
    OBVIOUS
  <2>1. CASE Get(graph, f) = Unset
    BY <2>1 DEF Listed
  <2>2. CASE Get(graph, f) # Unset
    BY <1>2, <2>2 DEF Listed, Given
  <2> QED BY <2>1, <2>2
<1>4. CASE Get(graph, "routes") = Unset
  <2>1. routes = <<>> /\ all = conds
    BY <1>1, <1>4 DEF ConditionalEdges, Listed
  <2>2. Len(conds) \in Nat /\ DOMAIN conds = 1..Len(conds)
    BY <1>1, <1>3, <2>1
  <2> HIDE DEF conds, routes, all
  <2>3. Len(routes) = 0 /\ DOMAIN routes = {}
    BY <2>1
  <2> QED BY <2>1, <2>2, <2>3 DEF conds, routes, all
<1>5. CASE Get(graph, "routes") # Unset
  <2> DEFINE made == [i \in DOMAIN routes |-> DesugarRoute(routes[i])]
  <2>1. routes = Get(graph, "routes")
    BY <1>5 DEF Listed
  <2>2. Bad \notin {routes, conds} /\ \A i \in DOMAIN routes : DesugarRoute(routes[i]) # Refused
    BY <1>1, <1>5, <2>1 DEF ConditionalEdges
  <2>3. all = made \o conds
    BY <1>1, <1>5, <2>1, <2>2, Zenon DEF ConditionalEdges
  <2>4. /\ Len(routes) \in Nat /\ DOMAIN routes = 1..Len(routes)
        /\ Len(conds) \in Nat /\ DOMAIN conds = 1..Len(conds)
        /\ conds \in Seq({conds[i] : i \in DOMAIN conds})
    BY <1>3, <2>2
  <2> HIDE DEF conds, routes, all
  <2>5. made \in Seq({DesugarRoute(routes[i]) : i \in DOMAIN routes}) /\ Len(made) = Len(routes)
    BY <2>4
  <2>6. \A i \in DOMAIN routes : made[i] = DesugarRoute(routes[i])
    OBVIOUS
  <2> HIDE DEF made
  <2>7. /\ DOMAIN all = 1..(Len(routes) + Len(conds))
        /\ \A i \in DOMAIN routes : all[i] = made[i]
        /\ \A j \in DOMAIN conds : all[Len(routes) + j] = conds[j]
    <3> DEFINE S == {DesugarRoute(routes[i]) : i \in DOMAIN routes}
               T == {conds[i] : i \in DOMAIN conds}
    <3>1. made \in Seq(S) /\ conds \in Seq(T)
      BY <2>4, <2>5
    <3> HIDE DEF S, T
    <3>2. /\ DOMAIN (made \o conds) = 1..(Len(made) + Len(conds))
          /\ \A i \in DOMAIN made : (made \o conds)[i] = made[i]
          /\ \A j \in DOMAIN conds : (made \o conds)[Len(made) + j] = conds[j]
      BY <3>1, Joined
    <3>3. DOMAIN made = DOMAIN routes
      BY <2>4, <2>5, <3>1
    <3> QED BY <2>3, <2>5, <3>2, <3>3
  <2> QED BY <2>2, <2>4, <2>6, <2>7 DEF conds, routes, all
<1> QED BY <1>4, <1>5

LEMMA BranchesFit ==
  ASSUME NEW raw \in Definitions, ParseDefinition(raw) # Refused
  PROVE  LET routes == Listed(Get(Get(raw, "graph"), "routes"))
             conds == Listed(Get(Get(raw, "graph"), "conditional_edges"))
         IN  BranchesBuilt(ParseDefinition(raw)) <=>
               /\ \A i \in DOMAIN routes : ~RouteFault(routes[i])
               /\ \A i \in DOMAIN conds : ~BranchFault(conds[i])
               /\ ~SharedSource(routes, conds)
<1> DEFINE all == ParseDefinition(raw).conditional
           routes == Listed(Get(Get(raw, "graph"), "routes"))
           conds == Listed(Get(Get(raw, "graph"), "conditional_edges"))
           Built(cond) == RouterConfigAccepted(cond.router, cond.config)
           n == Len(routes)
<1>1. /\ n \in Nat /\ DOMAIN routes = 1..n
      /\ Len(conds) \in Nat /\ DOMAIN conds = 1..Len(conds)
      /\ DOMAIN all = 1..(n + Len(conds))
      /\ \A i \in DOMAIN routes : DesugarRoute(routes[i]) # Refused /\ all[i] = DesugarRoute(routes[i])
      /\ \A j \in DOMAIN conds : all[n + j] = conds[j]
  BY ConditionalsAre
<1>2. BranchesBuilt(ParseDefinition(raw)) <=>
        /\ \A i \in DOMAIN all : Built(all[i])
        /\ \A i, j \in DOMAIN all : all[i].source = all[j].source => i = j
  BY DEF BranchesBuilt
<1>3. \A cond : Built(cond) <=> ~BranchFault(cond)
  BY DEF RouterConfigAccepted, BranchFault
<1> HIDE DEF all, routes, conds, Built, n
<1>4. \A i \in DOMAIN routes : /\ Built(all[i]) <=> ~RouteFault(routes[i])
                               /\ all[i].source = RouteSource(routes[i])
  BY <1>1, RouteFits DEF Built
<1>5. (\A i \in DOMAIN all : Built(all[i])) <=>
        /\ \A i \in DOMAIN routes : ~RouteFault(routes[i])
        /\ \A i \in DOMAIN conds : ~BranchFault(conds[i])
  <2>1. \A i \in DOMAIN routes : i \in DOMAIN all
    BY <1>1
  <2>2. \A j \in DOMAIN conds : n + j \in DOMAIN all
    BY <1>1
  <2>3. \A i \in DOMAIN all : i \in DOMAIN routes \/ \E j \in DOMAIN conds : i = n + j
    <3> SUFFICES ASSUME NEW i \in DOMAIN all, i \notin DOMAIN routes
                 PROVE  \E j \in DOMAIN conds : i = n + j
      OBVIOUS
    <3>1. i - n \in DOMAIN conds /\ i = n + (i - n)
      BY <1>1
    <3> QED BY <3>1
  <2> QED BY <1>1, <1>3, <1>4, <2>1, <2>2, <2>3
<1>6. (\A i, j \in DOMAIN all : all[i].source = all[j].source => i = j) <=>
        ~SharedSource(routes, conds)
  <2>1. ASSUME SharedSource(routes, conds)
        PROVE  \E i, j \in DOMAIN all : all[i].source = all[j].source /\ i # j
    <3>1. CASE \E i, j \in DOMAIN routes :
                 i # j /\ RouteSource(routes[i]) = RouteSource(routes[j])
      BY <1>1, <1>4, <3>1
    <3>2. CASE \E i, j \in DOMAIN conds : i # j /\ conds[i].source = conds[j].source
      <4>1. PICK i, j \in DOMAIN conds : i # j /\ conds[i].source = conds[j].source
        BY <3>2
      <4>2. n + i \in DOMAIN all /\ n + j \in DOMAIN all /\ n + i # n + j
        BY <1>1, <4>1
      <4> QED BY <1>1, <4>1, <4>2
    <3>3. CASE \E i \in DOMAIN routes, j \in DOMAIN conds : RouteSource(routes[i]) = conds[j].source
      <4>1. PICK i \in DOMAIN routes, j \in DOMAIN conds : RouteSource(routes[i]) = conds[j].source
        BY <3>3
      <4>2. i \in DOMAIN all /\ n + j \in DOMAIN all /\ i # n + j
        BY <1>1, <4>1
      <4> QED BY <1>1, <1>4, <4>1, <4>2
    <3> QED BY <2>1, <3>1, <3>2, <3>3 DEF SharedSource
  <2>2. ASSUME NEW i \in DOMAIN all, NEW j \in DOMAIN all, i # j, all[i].source = all[j].source
        PROVE  SharedSource(routes, conds)
    <3>1. CASE i \in DOMAIN routes /\ j \in DOMAIN routes
      BY <1>4, <2>2, <3>1 DEF SharedSource
    <3>2. CASE i \in DOMAIN routes /\ j \notin DOMAIN routes
      <4>1. j - n \in DOMAIN conds /\ all[j] = conds[j - n]
        BY <1>1, <3>2
      <4> QED BY <1>4, <2>2, <3>2, <4>1 DEF SharedSource
    <3>3. CASE i \notin DOMAIN routes /\ j \in DOMAIN routes
      <4>1. i - n \in DOMAIN conds /\ all[i] = conds[i - n]
        BY <1>1, <3>3
      <4> QED BY <1>4, <2>2, <3>3, <4>1 DEF SharedSource
    <3>4. CASE i \notin DOMAIN routes /\ j \notin DOMAIN routes
      <4>1. /\ i - n \in DOMAIN conds /\ all[i] = conds[i - n]
            /\ j - n \in DOMAIN conds /\ all[j] = conds[j - n] /\ i - n # j - n
        BY <1>1, <2>2, <3>4
      <4> QED BY <2>2, <4>1 DEF SharedSource
    <3> QED BY <3>1, <3>2, <3>3, <3>4
  <2> QED BY <2>1, <2>2
<1> QED BY <1>2, <1>5, <1>6 DEF all, routes, conds

\* Every name an accepted graph leads to is a node of it or END; its entry is a node.
LEMMA TargetsFit ==
  ASSUME NEW raw, ParseDefinition(raw) # Refused
  PROVE  LET d == ParseDefinition(raw)
         IN  /\ TargetsKnown(d)
             /\ d.entry \in NodeIds(d.nodes)
             /\ Unset \notin NodeIds(d.nodes) /\ Bad \notin NodeIds(d.nodes)
<1> DEFINE d == ParseDefinition(raw)
           graph == Get(raw, "graph")
           ids == NodeIds(d.nodes)
<1>1. /\ GraphAccepted(graph, d.edges, d.conditional) /\ d.nodes = graph["nodes"]
      /\ NodesAccepted(Get(graph, "nodes"))
      /\ d.entry = CHOOSE n \in EntryNames(graph, d.edges) : TRUE
  BY Parsed
<1> HIDE DEF d
<1>2. /\ \A i \in DOMAIN d.edges : EdgeAccepted(d.edges[i], ids)
      /\ \A i \in DOMAIN d.conditional : ConditionalAccepted(d.conditional[i], ids)
      /\ \E n \in ids : EntryNames(graph, d.edges) = {n}
  BY <1>1 DEF GraphAccepted
<1>3. TargetsKnown(d)
  BY <1>2 DEF TargetsKnown, EdgeAccepted, ConditionalAccepted
<1>4. d.entry \in ids
  BY <1>1, <1>2
<1>5. Get(graph, "nodes") = d.nodes
  BY <1>1 DEF Get, NodesAccepted
<1>6. Unset \notin ids /\ Bad \notin ids
  BY <1>1, <1>5 DEF NodesAccepted, NodeIds, Given
<1> QED BY <1>3, <1>4, <1>6 DEF d

LEMMA SessionFits ==
  ASSUME NEW raw, ParseDefinition(raw) # Refused
  PROVE  LET d == ParseDefinition(raw)
         IN  SessionGraph(d) <=> ~SessionFault(raw, NodeIds(d.nodes))
<1> DEFINE d == ParseDefinition(raw)
           ids == NodeIds(d.nodes)
           session == Get(raw, "session")
           entries == SessionEntries(d)
<1>1. d.memory = Get(raw, "memory") /\ d.session = session /\ ExtendedBlocksAccepted(raw)
  BY Parsed
<1>2. d.entry \in ids /\ Unset \notin ids /\ Bad \notin ids
  BY TargetsFit
<1>3. /\ entries["initialize"] = IF Given(Get(session, "initialize_entry"))
                                 THEN Get(session, "initialize_entry") ELSE d.entry
      /\ Given(Get(session, "converse_entry")) =>
           entries["converse"] = Get(session, "converse_entry")
      /\ Given(Get(session, "regenerate_entry")) =>
           entries["regenerate"] = Get(session, "regenerate_entry")
  BY <1>1 DEF SessionEntries, Get, Given
<1> HIDE DEF d, ids, entries
<1>4. MemoryEnabled(d.memory) => Given(session)
  BY <1>1 DEF ExtendedBlocksAccepted, Given
<1>5. Given("END")
  BY NoneAssumption
<1>6. SessionGraph(d) <=>
        (MemoryEnabled(d.memory) =>
           /\ SessionAccepted(session) /\ "session_prepare" \notin ids
           /\ \A mode \in {"initialize", "converse", "regenerate"} :
                entries[mode] \in ids \cup {"END"})
  BY <1>1 DEF SessionGraph, ids, entries
<1>7. \A name \in ids \cup {"END"} : Given(name)
  BY <1>2, <1>5 DEF Given
<1>8. SessionFault(raw, ids) <=>
        /\ MemoryEnabled(d.memory)
        /\ \/ "session_prepare" \in ids
           \/ Get(session, "regenerate_phrases") \in {Unset, Bad, {}}
           \/ Get(session, "converse_entry") \notin ids \cup {"END"}
           \/ Get(session, "regenerate_entry") \notin ids \cup {"END"}
           \/ /\ Given(Get(session, "initialize_entry"))
              /\ Get(session, "initialize_entry") \notin ids \cup {"END"}
  BY <1>1 DEF SessionFault
<1> HIDE DEF session
<1> QED BY <1>2, <1>3, <1>4, <1>6, <1>7, <1>8 DEF SessionAccepted, d, ids

\* Whatever definition the parser accepts compiles, unless it has a fault the parser does
\* not look for, and those are listed.  Code: parse_agent_definition (core/definition.py,
\* schema/validate.py), GraphBuilder and build_session_graph (graph/).
THEOREM AcceptedDefinitionsBuildCorrect == Spec => []AcceptedDefinitionsBuild
<1>1. Cases => AcceptedDefinitionsBuild
  <2> SUFFICES ASSUME Cases, Answered("build"), output.definition # Refused
               PROVE  output.compiled <=> ~LateFault(input)
    BY DEF AcceptedDefinitionsBuild
  <2> DEFINE d == ParseDefinition(input)
             graph == Get(input, "graph")
             routes == Listed(Get(graph, "routes"))
             conds == Listed(Get(graph, "conditional_edges"))
  <2>1. input \in Definitions /\ output = Build
    BY DEF Cases, Answered
  <2>2. d # Refused /\ (output.compiled <=> Compiles(d, Env))
    <3>1. output = [definition |-> d, compiled |-> d # Refused /\ Compiles(d, Env)]
      BY <2>1, Zenon DEF Build
    <3> HIDE DEF d
    <3>2. output.definition = d /\ output.compiled = (d # Refused /\ Compiles(d, Env))
      BY <3>1
    <3> QED BY <3>2
  <2>3. input["graph"] = graph /\ graph["nodes"] = d.nodes
    BY <2>2, Parsed DEF Get, Given
  <2>4. NodesBuilt(d, Env) <=> ~ \E i \in DOMAIN d.nodes : NodeFault(input, d.nodes[i])
    BY <2>1, <2>2, NodesFit
  <2>5. BranchesBuilt(d) <=> ~ \/ \E i \in DOMAIN routes : RouteFault(routes[i])
                               \/ \E i \in DOMAIN conds : BranchFault(conds[i])
                               \/ SharedSource(routes, conds)
    BY <2>1, <2>2, BranchesFit
  <2>6. TargetsKnown(d) /\ (SessionGraph(d) <=> ~SessionFault(input, NodeIds(d.nodes)))
    BY <2>2, TargetsFit, SessionFits
  <2> HIDE DEF d, graph, routes, conds
  <2>7. Compiles(d, Env) <=>
          NodesBuilt(d, Env) /\ BranchesBuilt(d) /\ SessionGraph(d) /\ TargetsKnown(d)
    BY DEF Compiles
  <2>8. LateFault(input) <=> \/ \E i \in DOMAIN d.nodes : NodeFault(input, d.nodes[i])
                             \/ \E i \in DOMAIN routes : RouteFault(routes[i])
                             \/ \E i \in DOMAIN conds : BranchFault(conds[i])
                             \/ SharedSource(routes, conds)
                             \/ SessionFault(input, NodeIds(d.nodes))
    BY <2>3 DEF LateFault, NodeIds, routes, conds
  <2> QED BY <2>2, <2>4, <2>5, <2>6, <2>7, <2>8
<1> QED BY <1>1, CasesHold, PTL
=============================================================================
