--------------------------- MODULE MCLogicFilter ---------------------------
(* LogicFilter for TLC: two front ends, three signals.                     *)
EXTENDS LogicFilter
CONSTANTS f1, f2

MCSignals == <<[fem |-> f1, ch |-> 1, delay |-> 0],
               [fem |-> f2, ch |-> 1, delay |-> 1],
               [fem |-> f2, ch |-> 2, delay |-> -2]>>

\* What is meant by an expression, as the sets of signals for which it holds.
Patterns == SUBSET (0 .. 2)
Expression(type, formula, holds) == [type |-> type, formula |-> formula, holds |-> holds]

MCExpressions == {
    <<>>,
    <<Expression(1, <<"0", "&", "1">>, {on \in Patterns : 0 \in on /\ 1 \in on}),
      Expression(2, <<"0", "|", "1", "&", "2">>,
                 {on \in Patterns : 0 \in on \/ (1 \in on /\ 2 \in on)})>>,
    <<Expression(3, <<"0", "&", "!", "(", "1", "|", "2", ")">>,
                 {on \in Patterns : 0 \in on /\ ~(1 \in on \/ 2 \in on)})>>,
    <<Expression(4, <<"RPN", "2", "0", "!", "x", "0", "d", "&">>,
                 {on \in Patterns : 2 \in on /\ 0 \notin on})>>,
    <<Expression(5, <<"0", "&", ")">>, {})>>}

\* The premise of the theorems about what the formulas mean, for these expressions.
ASSUME MCFormulasAreMeant == FormulasAreMeant

Hit(c, t) == [type |-> "TDC", ch |-> c, time |-> t]
Other(c, t) == [type |-> "other", ch |-> c, time |-> t]
Stf(fem, hbfs) == [fem |-> fem, type |-> "TDC64L", hbfs |-> hbfs]

\* Heartbeats with and without hits, a front end with fewer and with none.
OfF == {<<<<>>, <<Hit(1, 2)>>>>, <<<<Hit(1, 1), Hit(1, 4)>>, <<Hit(1, 3), Hit(2, 3)>>>>,
        <<<<Other(1, 3), Hit(1, 0)>>, <<>>>>}
OfG == {<<<<Hit(1, 1)>>, <<Hit(2, 5), Hit(1, 2)>>>>, <<<<Hit(2, 1)>>>>, <<>>,
        <<<<>>, <<Hit(1, 1), Hit(2, 4)>>>>}

\* The first frame is any of them, the others are one.
MCFramesOf == [n \in 1 .. MaxFrames |->
    IF n = 1 THEN {<<Stf(f1, a), Stf(f2, b)>> : a \in OfF, b \in OfG}
                  \cup {<<Stf(f2, b), Stf(f1, a)>> : a \in OfF, b \in OfG}
             ELSE {<<Stf(f1, <<<<>>>>), Stf(f2, <<<<Hit(1, 1)>>>>)>>}]
=============================================================================
