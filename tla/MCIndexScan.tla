---------------------------- MODULE MCIndexScan ----------------------------
(***************************************************************************)
(* Two small machines side by side.  IndexScan: every pattern over four    *)
(* terms against every set of five quads that agree and differ in each     *)
(* position.  TermLookup: every two of some fifty terms, inserted and read *)
(* back, with numbers of four bits and two ticks to a second.              *)
(***************************************************************************)
EXTENDS IndexScan, TermLookup, TLC

CONSTANTS a, b, g, dg, var, nil, none

MCStrOf == [t \in {a, b, g, dg} |-> none]
MCHash == [s \in {} |-> s]

Q(s, p, o, graph) == [s |-> s, p |-> p, o |-> o, g |-> graph]

FiveQuads ==
  {Q(a, a, b, dg), Q(a, b, b, dg), Q(b, a, b, dg), Q(a, a, b, g), Q(b, a, a, g)}

-----------------------------------------------------------------------------
AnyFragment == STRING

IntTexts ==
  [n \in -8 .. 15 |-> IF n < 0 THEN <<"-", ToString(-n)>>
                      ELSE IF n < 10 THEN <<ToString(n)>> ELSE <<"1", ToString(n - 10)>>]

Ints ==
  [text \in Range(IntTexts) |-> CHOOSE n \in DOMAIN IntTexts : IntTexts[n] = text]
  @@ (<<"+", "7">> :> 7) @@ (<<"0", "7">> :> 7) @@ (<<"-", "0">> :> 0)
  @@ (<<"1", "6">> :> 16) @@ (<<"-", "9">> :> -9)

(* 10, 15, 1000 and 9999 name the floats 1, 1.5, 1000000 and infinity.     *)
Floats ==
  (<<"1">> :> 10) @@ (<<"1", ".", "0">> :> 10) @@ (<<"0", "1">> :> 10)
  @@ (<<"1", ".", "5">> :> 15) @@ (<<"15", "e", "-1">> :> 15)
  @@ (<<"1", "e", "+06">> :> 1000) @@ (<<"1000000">> :> 1000)
  @@ (<<"1000000", ".", "0">> :> 1000)
  @@ (<<"INF">> :> 9999) @@ (<<"+Inf">> :> 9999)

FloatTexts ==
  (10 :> <<"1">>) @@ (15 :> <<"1", ".", "5">>) @@ (1000 :> <<"1", "e", "+06">>)
  @@ (9999 :> <<"+Inf">>)

WholeTexts == (10 :> <<"1", ".", "0">>) @@ (1000 :> <<"1000000", ".", "0">>)

Bools ==
  (<<"true">> :> TRUE) @@ (<<"1">> :> TRUE) @@ (<<"T">> :> TRUE)
  @@ (<<"false">> :> FALSE) @@ (<<"0">> :> FALSE)

DayTexts == [n \in -3 .. 3 |-> <<"day", ToString(n)>>]

Days ==
  [text \in Range(DayTexts) |-> CHOOSE n \in DOMAIN DayTexts : DayTexts[n] = text]
  @@ (<<" ", "day", "1">> :> 1)

(* The local zone is an hour ahead. *)
SecondTexts == [n \in -4 .. 3 |-> <<"second", ToString(n), "+01:00">>]

Ticks ==
  [text \in Range(SecondTexts) |-> 2 * CHOOSE n \in DOMAIN SecondTexts : SecondTexts[n] = text]
  @@ (<<"second", "1", "Z">> :> 2) @@ (<<"second", "1">> :> 2)
  @@ (<<"second", "1", ".5", "Z">> :> 3) @@ (<<"second", "-1", "Z">> :> -2)
  @@ (<<"second", "9", "Z">> :> 18)

Typed(type, texts) == {TypedLiteral(text, type) : text \in texts}

SomeTerms ==
  {IRITerm(<<"i">>), IRITerm(<<"long", "text", "x">>)}
  \cup {BlankTerm(id) : id \in {<<"7">>, <<"0", "7">>, <<"1", "5">>, <<"1", "6">>, <<"b", "1">>}}
  \cup {PlainLiteral(text) :
          text \in {<<>>, <<"x">>, <<"x", "NUL">>, <<"7">>, <<"x", "@", "en">>,
                    <<"long", "text", "x">>, <<"long", "text", "NUL">>}}
  \cup {LangLiteral(<<"x">>, <<"en">>, <<>>), LangLiteral(<<"x">>, <<"de">>, <<>>),
        LangLiteral(<<"x", "@", "en">>, <<"de">>, <<>>), LangLiteral(<<"x">>, <<"en">>, <<"rtl">>),
        LangLiteral(<<"x", "--">>, <<"en">>, <<>>)}
  \cup Typed("other", {<<"x">>, <<"x", "^^", "other">>, <<"7">>})
  \cup Typed("string", {<<"x">>})
  \cup Typed("integer", {<<"7">>, <<"0", "7">>, <<"+", "7">>, <<"0">>, <<"-", "0">>, <<"-", "8">>,
                         <<"8">>, <<"-", "9">>, <<"x">>})
  \cup Typed("decimal", {<<"1">>, <<"0", "1">>, <<"1", ".", "5">>, <<"1000000">>, <<"x">>})
  \cup Typed("double", {<<"1">>, <<"1", ".", "5">>, <<"15", "e", "-1">>, <<"1000000">>, <<"INF">>})
  \cup Typed("boolean", {<<"true">>, <<"1">>, <<"T">>, <<"0">>, <<"x">>})
  \cup Typed("date", {<<"day", "1">>, <<" ", "day", "1">>, <<"day", "-1">>})
  \cup Typed("dateTime", DOMAIN Ticks \ {SecondTexts[n] : n \in {-4, -3, -2, 3}})

-----------------------------------------------------------------------------
bothVars == <<vars, lookupVars>>

Everything == [pos \in Position |-> var]

BothInit == Init /\ LookupInit

BothNext ==
  \/ inserted = {} /\ Ask /\ UNCHANGED lookupVars
  \/ quads = {} /\ pat = Everything /\ LookupNext /\ UNCHANGED vars

BothSpec == BothInit /\ [][BothNext]_bothVars
=============================================================================
