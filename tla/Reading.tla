------------------------------ MODULE Reading ------------------------------
(***************************************************************************)
(* Reading an upload in any of the formats, and what holds of any text at  *)
(* all that a parser accepts, whether or not somebody meant something by   *)
(* it: its brackets match, unless a directive or a graph name swallows     *)
(* one, and in N-Triples and N-Quads it has none of the shorthands of      *)
(* Turtle.                                                                 *)
(***************************************************************************)
EXTENDS NQuads

ReadingSpec == Init /\ [][ReadingNext]_vars

-----------------------------------------------------------------------------
(* The brackets of a text.  They nest, so those that are open after n      *)
(* tokens are a sequence, the innermost first; a closing bracket that      *)
(* closes nothing stays in it, and nothing closes that one.                *)

Opening == {"[", "(", "<<", "<<(", "{", "{|"}

Closing == {"]", ")", ">>", ")>>", "}", "|}"}

Closes(open, close) ==
  <<open, close>> \in
    {<<"[", "]">>, <<"(", ")">>, <<"<<", ">>">>, <<"<<(", ")>>">>, <<"{", "}">>, <<"{|", "|}">>}

After(open, type) ==
  IF type \notin Opening \cup Closing THEN open
  ELSE IF open # <<>> /\ Closes(Head(open), type) THEN Tail(open)
  ELSE <<type>> \o open

Nesting(text) ==
  LET open[n \in Nat] == IF n = 0 THEN <<>> ELSE After(open[n - 1], TypeAt(text, n))
  IN open

Balanced(text) == Nesting(text)[Len(text)] = <<>>

(* Between PREFIX and its colon, whatever stands there, is a name: in a     *)
(* plain text there is no bracket.                                         *)
PlainPrefixes(text) ==
  \A i, j \in 1 .. Len(text) :
    i < j /\ text[i].t = "prefix" /\ text[j].t \in Opening \cup Closing =>
      \E k \in i + 1 .. j - 1 : text[k].t \in HasColon

(* Up to a > is an IRI for TriG: in a plain text no bracket with a < stands *)
(* where an IRI is read, of a directive or in front of a block.            *)
PlainIRIs(text) ==
  \A i \in 1 .. Len(text) :
    text[i].t \in {"<<", "<<("} =>
      /\ TypeAt(text, i - 1) \notin {"prefixname", "@base", "base"}
      /\ \A j \in TriGIRIEnds(text, i) : j = First(TriGIRIEnds(text, i)) => TypeAt(text, j + 1) # "{"

SwallowsNoBracket(text, format) ==
  /\ format \in {"turtle", "trig"} => PlainPrefixes(text)
  /\ format = "trig" => PlainIRIs(text)

(* A text is accepted only if its brackets match, though TriG looks for    *)
(* the ends of blocks and statements by counting and skipping: but for the *)
(* brackets that directives and names of graphs swallow.                   *)
AcceptedIsBalanced ==
  upload.status = "done" /\ SwallowsNoBracket(upload.text, upload.format) => Balanced(upload.text)

Shorthand ==
  {"version", "prefix", "@base", "base", "relative", "name", "a", "number", "boolean",
   ",", ";", "~", "{|", "<<"}

(* The i-th token stands within brackets of one of these kinds. *)
Within(text, i, kinds) ==
  \E k \in DOMAIN Nesting(text)[i - 1] : Nesting(text)[i - 1][k] \in kinds

(* Outside brackets, which it reads as Turtle does, the strict parser      *)
(* accepts the marks of N-Triples only; that of N-Quads everywhere.        *)
StrictRefusesShorthand ==
  upload.status = "done" /\ upload.format \in {"strict", "nquads"} =>
    \A i \in 1 .. Len(upload.text) :
      TypeAt(upload.text, i) \in Shorthand =>
        upload.format = "strict" /\ Within(upload.text, i, {"[", "(", "<<("})
=============================================================================
