------------------------------ MODULE MCOptions ------------------------------
(***************************************************************************)
(* Instances of Options: every filter of up to FilterLen characters, and   *)
(* every order of a few options.                                           *)
(***************************************************************************)
EXTENDS Options

CONSTANTS FilterLen, ArgvLen

A == "a"
B == "b"

\* arm64 and arm32 give different numbers to a name, and each has its own.
Tables64 == (0 :> NoText @@ 1 :> <<A>> @@ 2 :> <<A, B>> @@ 3 :> <<B>>)
Tables32 == (0 :> <<B>> @@ 1 :> <<A, A>> @@ 2 :> NoText @@ 3 :> <<A>>)

FilterTexts == BoundedSeq({A, B, Comma, Blank}, FilterLen)
CommTexts   == {<<A>>, <<A, B, A, B, A>>, <<A, B, A, B, A, B>>,
                <<"c", "o", "m", ".", A>>, <<"c", "o", "m", ".", A, B, B>>}
AbiTexts    == {<<"3", "2">>, <<"6", "4">>}

Opt(o)        == [opt |-> o, text |-> <<>>, num |-> 0, whole |-> FALSE]
OptText(o, t) == [opt |-> o, text |-> t, num |-> 0, whole |-> FALSE]
OptPid(n, w)  == [opt |-> "p", text |-> <<>>, num |-> n, whole |-> w]

\* One target, a filter, and perhaps -t before or after the filter.
FilterArgvs ==
  UNION {{<<OptPid(1, TRUE), OptText("e", t)>>,
          <<OptPid(1, TRUE), OptText("e", t), OptText("t", <<"3", "2">>)>>} :
         t \in FilterTexts}

OptionSet ==
  {OptPid(1, TRUE), OptPid(2, TRUE), OptPid(0, TRUE), OptPid(MaxPid + 1, TRUE),
   OptPid(1, FALSE)}
  \cup {OptText("c", t) : t \in CommTexts}
  \cup {OptText("t", t) : t \in AbiTexts}
  \cup {OptText("e", <<A>>), OptText("e", <<B, Comma, A>>)}
  \cup {Opt("s"), Opt("h"), Opt("?"), Opt("operand")}

OrderArgvs == BoundedSeq(OptionSet, ArgvLen)

MCArgvs == FilterArgvs \cup OrderArgvs
=============================================================================
