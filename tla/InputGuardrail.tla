--------------------------- MODULE InputGuardrail ---------------------------
(***************************************************************************)
(* InputGuardrailService.guard before it looks at the rate: the rules a       *)
(* request must pass, in the fixed order in which they are tried.  A request  *)
(* is what the rules see of it:                                               *)
(*   principal   "active", "inactive", "id_mismatch" or "role_mismatch"       *)
(*   unsafe      a prohibited character is left after NFC                      *)
(*   bytes       the length of its normalised text                            *)
(*   attachments a sequence of [media, bytes]; media Unknown when missing     *)
(*   skill       "none", or what the authorizer says of the explicit skill    *)
(***************************************************************************)
EXTENDS Integers, SequencesExt

CONSTANTS
  Policy,    \* InputGuardrailPolicy without its rate
  Unknown    \* the media type or the size of an attachment that has none

(* What InputGuardrailPolicy accepts of its limits.                           *)
IsPolicy(p) ==
  /\ p.text \in Nat \ {0}
  /\ {p.count, p.each, p.total} \subseteq Nat
  /\ Unknown \notin p.media

ASSUME PolicyAssumption == IsPolicy(Policy)

Rule(stage, code, broken) == [stage |-> stage, code |-> code, broken |-> broken]

(* guard, up to the attachments: who asks, what the text holds, how long it   *)
(* is.                                                                        *)
LeadingRules(q) ==
  << Rule("principal", "principal_inactive", q.principal = "inactive"),
     Rule("principal", "principal_id_mismatch", q.principal = "id_mismatch"),
     Rule("principal", "principal_role_mismatch", q.principal = "role_mismatch"),
     Rule("normalization", "unsafe_unicode", q.unsafe),
     Rule("text", "text_bytes_exceeded", q.bytes > Policy.text) >>

Total(attachments) ==
  FoldLeft(LAMBDA sum, a : sum + (IF a.bytes = Unknown THEN 0 ELSE a.bytes), 0, attachments)

(* _guard_attachments: the number of them, then each with the running total.  *)
AttachmentRules(q) ==
  LET each(i) ==
        LET a == q.attachments[i]
            known == a.media # Unknown /\ a.bytes # Unknown
        IN << Rule("attachments", "attachment_metadata_missing", ~known),
              Rule("attachments", "attachment_bytes_exceeded", known /\ a.bytes > Policy.each),
              Rule("attachments", "attachment_total_bytes_exceeded",
                   Total(SubSeq(q.attachments, 1, i)) > Policy.total),
              Rule("attachments", "attachment_media_type_denied", a.media \notin Policy.media) >>
  IN <<Rule("attachments", "attachment_count_exceeded", Len(q.attachments) > Policy.count)>>
       \o FlattenSeq([i \in DOMAIN q.attachments |-> each(i)])

(* check_access, asked only about an explicit skill.                          *)
SkillRules(q) ==
  << Rule("explicit_skill", "explicit_skill_denied", q.skill = "denied"),
     Rule("explicit_skill", "explicit_skill_unavailable", q.skill = "unavailable") >>

Rules(q) == LeadingRules(q) \o AttachmentRules(q) \o SkillRules(q)

(* The first rule that is broken blocks; the bytes of the text are told once  *)
(* they were counted.                                                         *)
Decision(q) ==
  LET broken == SelectSeq(Rules(q), LAMBDA rule : rule.broken)
      counted(stage) == stage \notin {"principal", "normalization"}
  IN IF broken = <<>>
     THEN [stage |-> "complete", outcome |-> "allowed", code |-> "none", counted |-> TRUE]
     ELSE [stage |-> broken[1].stage, outcome |-> "blocked", code |-> broken[1].code,
           counted |-> counted(broken[1].stage)]

Admissible(q) == Decision(q).outcome = "allowed"

(* GuardrailDecision.__post_init__: which decisions can be stated.            *)
IsDecision(d) ==
  IF d.outcome = "allowed" THEN d.stage = "complete" /\ d.code = "none"
  ELSE d.stage # "complete" /\ d.code # "none"
=============================================================================
