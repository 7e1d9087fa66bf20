------------------------------ MODULE HitlPolicy ------------------------------
(***************************************************************************)
(* hitl/policy.py: the rules an agent's YAML `hitl:' block puts on a human *)
(* decision.  Pure operators, used by HitlFlow and checked on their own by  *)
(* Rules.                                                                  *)
(*                                                                         *)
(* A policy is [decisions, allowlist, target].  `decisions' is Unset or the *)
(* set of normalised entries of hitl.decisions ({} when every entry is      *)
(* blank), `allowlist' is Unset or the set of keys of hitl.patch_allowlist  *)
(* ({} also stands for a value that is not a list), `target' is Unset or    *)
(* the key named by hitl.patch_target.                                     *)
(*                                                                         *)
(* A patch body is [flat, nested]: `nested' is the mapping found under the  *)
(* target key (Unset when there is none), `flat' the other entries.  Both   *)
(* are functions from keys to values.                                      *)
(***************************************************************************)
EXTENDS Functions

CONSTANT Unset                     \* Python None: the key is absent

\* Python's {**map, **patch}: the keys of both, with the values of the patch.
Merged(patch, map) ==
  [k \in DOMAIN patch \cup DOMAIN map |-> IF k \in DOMAIN patch THEN patch[k] ELSE map[k]]

\* sessions.HITL_DECISIONS
HitlDecisions == {"approved", "rejected", "modified"}

\* Keys of a patch body that describe the decision and are never merged.
MetaKeys == {"decision", "comment", "actor"}

\* Rules that apply when the agent definition cannot be looked up.
NoPolicy == [decisions |-> Unset, allowlist |-> Unset, target |-> Unset]

EmptyPatch == [flat |-> <<>>, nested |-> Unset]

\* Mutant: an empty intersection falls back to the whole vocabulary.
AllowedDecisionsLenient(policy) ==
  IF policy.decisions \in {Unset, {}} \/ policy.decisions \cap HitlDecisions = {}
  THEN HitlDecisions
  ELSE policy.decisions \cap HitlDecisions

\* allowed_decisions: an absent or blank list allows the whole vocabulary; a
\* list of unknown words only allows nothing.
AllowedDecisions(policy) ==
  IF policy.decisions \in {Unset, {}}
  THEN HitlDecisions
  ELSE policy.decisions \cap HitlDecisions

\* The mapping of a patch body that filter_hitl_patch reads: the nested one when
\* the agent has a target and the client sent it, which hides the flat siblings.
PatchSource(patch, target) ==
  IF target # Unset /\ patch.nested # Unset THEN patch.nested ELSE patch.flat

\* filter_hitl_patch
FilterPatch(patch, allowlist, target) ==
  LET raw == PatchSource(patch, target)
  IN  Restrict(raw, {k \in DOMAIN raw \ MetaKeys :
                       allowlist = Unset \/ k \in allowlist})

FilteredPatch(policy, patch) == FilterPatch(patch, policy.allowlist, policy.target)

\* Mutant: the `allowlist is None' refusal of prepare_resume_patch is lost.
PatchUsableUnlisted(policy, patch) == DOMAIN FilteredPatch(policy, patch) # {}

\* The two refusals of prepare_resume_patch for `modified': no allowlist
\* declared, or nothing left of the patch.
PatchUsable(policy, patch) ==
  /\ policy.allowlist # Unset
  /\ DOMAIN FilteredPatch(policy, patch) # {}

\* prepare_resume_patch returns (TRUE) or raises HitlError (FALSE).
ResumeAccepted(policy, choice, patch) ==
  /\ choice \in AllowedDecisions(policy)
  /\ choice = "modified" => PatchUsable(policy, patch)

\* What prepare_resume_patch returns when it accepts (<<>> for Python None).
ResumePatch(policy, choice, patch) ==
  IF choice = "modified" THEN FilteredPatch(policy, patch) ELSE <<>>

\* Mutant: the patch is merged at top level whatever the target says.
ApplyPatchFlat(state, patch, target) == [state EXCEPT !.top = Merged(patch, @)]

\* apply_patch_to_state on [top, bag]: `bag' is the mapping state[target] holds
\* (<<>> when absent), `top' every other key.
ApplyPatch(state, patch, target) ==
  IF target = Unset
  THEN [state EXCEPT !.top = Merged(patch, @)]
  ELSE [state EXCEPT !.bag = Merged(patch, @)]

\* resume_hitl_session passes the target for `modified' only.
ResumeTarget(policy, choice) == IF choice = "modified" THEN policy.target ELSE Unset
=============================================================================
