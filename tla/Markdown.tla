------------------------------ MODULE Markdown ------------------------------
(***************************************************************************)
(* The text that travels from the executors to the answer: a sequence of     *)
(* tokens whose first component is the kind, every token one unit long.  What *)
(* a token is depends on its neighbours, as in the text:                      *)
(*   label target        an inline link; "label" ends with its bracket        *)
(*   label definition    a line that defines a reference link                 *)
(*   definition onward   a longer target of such a line: the second component *)
(*                       of "onward" is the whole of it, of "definition" what *)
(*                       its beginning alone amounts to                       *)
(*   broadcast tail      an ordinary mention whose name begins like one that  *)
(*                       reaches everybody                                    *)
(* A definition ends its line and a label before it begins it.                *)
(***************************************************************************)
EXTENDS Integers, SequencesExt

(* No scheme is "relative"; long is over the limit of a URL.                  *)
Uris == [name : STRING, scheme : STRING, long : BOOLEAN, secret : BOOLEAN]

(* The tokens with a target as their second component.                        *)
LinkKinds == {"target", "definition", "onward"}

(* The kind of the token at k, of none outside the text.                      *)
KindAt(m, k) == IF k \in DOMAIN m THEN m[k][1] ELSE "none"

IsInlineLink(m, k) == KindAt(m, k) = "label" /\ KindAt(m, k + 1) = "target"
IsDefinition(m, k) == KindAt(m, k) = "label" /\ KindAt(m, k + 1) = "definition"

(* The target of the line whose label stands at k.                            *)
DefinedTarget(m, k) ==
  IF KindAt(m, k + 2) = "onward" THEN m[k + 2][2] ELSE m[k + 1][2]

IsBroadcast(m, k) == KindAt(m, k) = "broadcast" /\ KindAt(m, k + 1) # "tail"

IsMarkdown(m) ==
  /\ m \in Seq(ToSet(m))
  /\ \A k \in DOMAIN m : m[k][1] \in LinkKinds => m[k][2] \in Uris

(* The elements at the places given, in their order.                          *)
Chosen(s, places) ==
  LET upTo[k \in 0..Len(s)] ==
        IF k = 0 THEN <<>>
        ELSE IF k \in places THEN Append(upTo[k - 1], s[k]) ELSE upTo[k - 1]
  IN upTo[Len(s)]
=============================================================================
