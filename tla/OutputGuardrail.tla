-------------------------- MODULE OutputGuardrail --------------------------
(***************************************************************************)
(* OutputGuardrailService.sanitize.  The links are looked at in one scan from *)
(* left to right, and nothing is looked at again: neither what stands behind   *)
(* a label once its target is gone nor what the cut leaves of the last token.  *)
(* A secret in a target is replaced before the target is judged.              *)
(***************************************************************************)
EXTENDS Markdown

(* OutputGuardrailPolicy; marker is the length of the truncation marker.      *)
IsOutputPolicy(p) ==
  /\ p.maxInput \in Nat /\ p.maxOutput \in 1..p.maxInput
  /\ p.maxMentions \in Nat /\ p.maxLinks \in Nat
  /\ p.marker \in 1..(p.maxOutput - 1)
  /\ p.schemes \intersect {"data", "file", "javascript", "vbscript"} = {}

AllowedLink(uri, p) ==
  IF uri.scheme = "relative" THEN p.relative ELSE uri.scheme \in p.schemes

RedactedLink(uri) == [uri EXCEPT !.secret = FALSE]

(* What stands for a secret or an internal detail is written in brackets.     *)
Redacted(token) ==
  CASE token[1] = "secret" -> <<"label", "redacted">>
    [] token[1] \in LinkKinds -> <<token[1], RedactedLink(token[2])>>
    [] OTHER -> token

InternalRemoved(token) == IF token[1] = "internal" THEN <<"label", "removed">> ELSE token
HtmlEscaped(token) == IF token[1] = "html" THEN <<"text", "escaped">> ELSE token

Blank == <<"blank", "line">>
Marker == <<"text", "marker">>

(* A definition that is not allowed goes whole, its line stays.               *)
ReferencesKept(markdown, p) ==
  LET Refused(k) == IsDefinition(markdown, k) /\ ~AllowedLink(DefinedTarget(markdown, k), p)
      blanked == [k \in DOMAIN markdown |-> IF Refused(k) THEN Blank ELSE markdown[k]]
  IN Chosen(blanked, {k \in DOMAIN markdown :
       /\ ~Refused(k - 1)
       /\ ~(Refused(k - 2) /\ markdown[k][1] = "onward")})

(* Of an inline link that is not allowed the target goes; its label is then    *)
(* joined with what stood behind the target, which the scan has passed.        *)
InlineLinksKept(markdown, p) ==
  Chosen(markdown, {k \in DOMAIN markdown :
    IsInlineLink(markdown, k - 1) => AllowedLink(markdown[k][2], p)})

EvidenceLinksKept(links, p) ==
  Chosen(links, {k \in DOMAIN links : ~links[k].long /\ AllowedLink(links[k], p)})

(* A broadcast is neutralized unless a tail makes it an ordinary mention; of    *)
(* these the first maxMentions are left.                                      *)
MentionsNeutralized(markdown, p) ==
  LET Mentioned(j) == markdown[j][1] \in {"mention", "broadcast"} /\ ~IsBroadcast(markdown, j)
      NthMention(i) == Cardinality({j \in 1..i : Mentioned(j)})
  IN [i \in DOMAIN markdown |->
        IF \/ IsBroadcast(markdown, i)
           \/ Mentioned(i) /\ NthMention(i) > p.maxMentions
        THEN <<"text", "neutralized">> ELSE markdown[i]]

(* Without the blanks at its end. *)
Stripped(markdown) ==
  LET written == {k \in DOMAIN markdown : markdown[k][1] # "blank"}
  IN IF written = {} THEN <<>> ELSE SubSeq(markdown, 1, Max(written))

(* A bug to catch: the marker comes after a prefix of the full length.        *)
TruncatedLate(markdown, p) ==
  IF Len(markdown) <= p.maxOutput THEN markdown
  ELSE Stripped(SubSeq(markdown, 1, p.maxOutput)) \o [i \in 1..p.marker |-> Marker]

(* The cut falls wherever the limit is, between the two tokens of a link or of *)
(* a mention, too.                                                            *)
Truncated(markdown, p) ==
  IF Len(markdown) <= p.maxOutput THEN markdown
  ELSE Stripped(SubSeq(markdown, 1, p.maxOutput - p.marker)) \o [i \in 1..p.marker |-> Marker]

SafeMarkdown(markdown, p) ==
  LET Clean(token) == HtmlEscaped(InternalRemoved(Redacted(token)))
      cleaned == [i \in DOMAIN markdown |-> Clean(markdown[i])]
      linked == InlineLinksKept(ReferencesKept(cleaned, p), p)
  IN Truncated(MentionsNeutralized(linked, p), p)

SafeLinks(links, p) ==
  LET capped == SubSeq(links, 1, IF Len(links) < p.maxLinks THEN Len(links) ELSE p.maxLinks)
  IN EvidenceLinksKept([i \in DOMAIN capped |-> RedactedLink(capped[i])], p)

(* The output, or the code it is blocked with.                                *)
Sanitized(candidate, p) ==
  LET markdown == SafeMarkdown(candidate.markdown, p)
      links == SafeLinks(candidate.links, p)
      code == CASE Len(candidate.markdown) + Len(candidate.links) > p.maxInput ->
                     "output_input_bytes_exceeded"
                [] Stripped(markdown) = <<>> -> "output_empty"
                [] OTHER -> "allowed"
  IN [code |-> code,
      markdown |-> IF code = "allowed" THEN markdown ELSE <<>>,
      links |-> IF code = "allowed" THEN links ELSE <<>>,
      removed |-> IF code = "allowed" THEN Len(candidate.links) - Len(links) ELSE 0]

(* SafeOutput is made of an allowed decision only and is never blank.          *)
IsSafeOutput(output) == output.code = "allowed" /\ Stripped(output.markdown) # <<>>
=============================================================================
