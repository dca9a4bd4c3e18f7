---------------------------- MODULE IntentPolicy ----------------------------
(***************************************************************************)
(* What a submitted task may do without a human: intent/asset-classifier   *)
(* and intent/action-validator.  No state, only operators.                 *)
(*                                                                         *)
(* A capsule is abstracted to what the rules read: what its paths look     *)
(* like once symbolic links are resolved, which lists of words its goal,   *)
(* context and plan match, and the action proposal it carries, if any.     *)
(* Scopes only count as valid or not: the real asset's one replaces them.  *)
(***************************************************************************)
EXTENDS Naturals

Protected == {"GOVERNANCE", "SYSTEM_CONFIG"}
AssetTypes == Protected \union {"TEMP_CACHE", "VAULT", "CODE", "DOCUMENT", "KNOWLEDGE"}
Routine == {"READ", "ANALYZE", "GENERATE", "PATCH_CODE", "MODIFY_DOCUMENT"}
Actions == Routine \union {"DELETE_ARTIFACT", "MODIFY_KNOWLEDGE_STRUCTURE",
            "MODIFY_GOVERNANCE", "MODIFY_SYSTEM_CONFIG", "DEPLOY_EXTERNAL"}

\* The asset whose patterns a canonical path matches first; "other" matches
\* none of them, "none" is no path.
PathKinds == (AssetTypes \ {"KNOWLEDGE"}) \union {"other", "none"}

\* The word lists.  says_*: classifyTargetAsset, about the context of a task;
\* the others: deriveActionProposal.
Words == {"says_governance", "says_config", "says_cleanup", "says_vault", "says_code",
          "governance", "config", "direction", "destructive", "cleanup", "deploy"}

\* "invalid": missing, of another type, or not of the vocabulary.
Proposal == [action : Actions \union {"invalid"}, version : {"supported", "unsupported"},
             type : AssetTypes \union {"invalid"}, path : PathKinds,
             scope : {"valid", "invalid"}, reversible : {"yes", "no", "invalid"}]
NoProposal == [action |-> "none"]

Capsule == [target_path : PathKinds, candidate : PathKinds, governed : BOOLEAN,
            words : SUBSET Words, proposal : Proposal \union {NoProposal}]

CONSTANT Capsules       \* the capsules the rules are checked for

ASSUME CapsulesAssumption == Capsules \subseteq Capsule

-----------------------------------------------------------------------------
(* asset-classifier.mjs *)

FirstPath(p, q) == IF p = "none" THEN q ELSE p

\* What the text says when the path matches no pattern.
ByContext(c) ==
  LET says(word) == word \in c.words
  IN IF says("says_governance") THEN "GOVERNANCE"
     ELSE IF says("says_config") THEN "SYSTEM_CONFIG"
     ELSE IF says("says_cleanup") THEN "TEMP_CACHE"
     ELSE IF says("says_vault") \/ c.governed THEN "VAULT"
     ELSE IF says("says_code") THEN "CODE" ELSE "DOCUMENT"

\* classifyTargetAsset's type.  The capsule's own target_path comes before a
\* declared path, and that one before the path of the governed candidate.
Classify(declared, c) ==
  LET path == FirstPath(c.target_path, FirstPath(declared, c.candidate))
  IN IF path \in {"other", "none"} THEN ByContext(c) ELSE path

-----------------------------------------------------------------------------
(* action-validator.mjs *)

Proposed(action, type, reversible) ==
  [action |-> action, version |-> "supported", type |-> type, path |-> type,
   scope |-> "valid", reversible |-> reversible]

\* Deletion with the routine cleanup first.
DeletionCleanupFirst(c, real) ==
  IF "cleanup" \in c.words THEN Proposed("DELETE_ARTIFACT", "TEMP_CACHE", "yes")
                           ELSE Proposed("DELETE_ARTIFACT", real, "no")

\* The deletions deriveActionProposal knows, the destructive one first.
Deletion(c, real) ==
  IF "destructive" \in c.words THEN Proposed("DELETE_ARTIFACT", real, "no")
                               ELSE Proposed("DELETE_ARTIFACT", "TEMP_CACHE", "yes")

\* deriveActionProposal: the rules in their order, the first that applies.
Derived(c) ==
  LET real == Classify("none", c)
      says(word) == word \in c.words
  IN IF real = "GOVERNANCE" \/ says("governance")
       THEN Proposed("MODIFY_GOVERNANCE", real, "no")
     ELSE IF real = "SYSTEM_CONFIG" \/ says("config")
       THEN Proposed("MODIFY_SYSTEM_CONFIG", real, "no")
     ELSE IF says("direction") THEN Proposed("MODIFY_KNOWLEDGE_STRUCTURE", real, "no")
     ELSE IF says("destructive") \/ says("cleanup") THEN Deletion(c, real)
     ELSE IF says("deploy") THEN Proposed("DEPLOY_EXTERNAL", real, "no")
     ELSE Proposed(IF real = "CODE" THEN "PATCH_CODE" ELSE "GENERATE", real, "yes")

\* A proposal of the caller or the planner comes before a derived one.
ProposalOf(c) == IF c.proposal = NoProposal THEN Derived(c) ELSE c.proposal

\* An unknown action throws: the task is neither stored nor queued.
Refused(c) == ProposalOf(c).action = "invalid"

\* JudgedType by the declared asset.
JudgedTypeAsDeclared(p, real) == IF p.type = "invalid" THEN "UNKNOWN" ELSE p.type

\* The asset a proposal is judged by: the real one, not the declared one.
JudgedType(p, real) == IF p.type = "invalid" /\ real \notin Protected THEN "UNKNOWN" ELSE real

\* JudgedAction that lets protected files be read.
JudgedActionUnlessRead(p, real) ==
  IF real = "GOVERNANCE" /\ p.action # "READ" THEN "MODIFY_GOVERNANCE"
  ELSE IF real = "SYSTEM_CONFIG" THEN "MODIFY_SYSTEM_CONFIG"
  ELSE p.action

\* A protected asset turns every action into its own.
JudgedAction(p, real) ==
  IF real = "GOVERNANCE" THEN "MODIFY_GOVERNANCE"
  ELSE IF real = "SYSTEM_CONFIG" THEN "MODIFY_SYSTEM_CONFIG"
  ELSE p.action

\* validateAndComputeEffectiveAction.
Effective(c) ==
  LET p == ProposalOf(c)
      real == Classify(p.path, c)
      action == JudgedAction(p, real)
      judged == JudgedType(p, real)
      vault == action = "DELETE_ARTIFACT" /\ "VAULT" \in {judged, p.type}
      reversible == p.reversible = "yes" /\ real \notin Protected /\ ~vault
      type == IF vault THEN "VAULT" ELSE judged
      valid == /\ p.version = "supported"
               /\ "invalid" \notin {p.type, p.scope, p.reversible}
      harmless == \/ action \in Routine
                  \/ action = "DELETE_ARTIFACT" /\ type = "TEMP_CACHE" /\ reversible
  IN [action |-> action, type |-> type, reversible |-> reversible,
      gate |-> IF valid /\ harmless THEN "AUTO_ALLOW" ELSE "WAITING_HUMAN"]

Automatic(c) == ~Refused(c) /\ Effective(c).gate = "AUTO_ALLOW"
=============================================================================
