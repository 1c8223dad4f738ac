------------------------------ MODULE LogiCalc ------------------------------
(***************************************************************************)
(* The trigger expressions of the logic filter: the infix parser           *)
(* (LogicFilter/infixtorpn.cxx), the stack calculator (LogiCalc.cxx) and    *)
(* the look-up table made with it (TriggerMap.cxx).                        *)
(*                                                                         *)
(* A formula is the sequence of its words.  The first word of a formula    *)
(* already in reverse Polish order is "RPN".  A word of 32 bits is the set *)
(* of its bits; bit s is signal s.                                         *)
(***************************************************************************)
EXTENDS Integers, Sequences, FiniteSetsExt

CONSTANT fNsigMax       \* signals an expression may name: 32

ASSUME SignalsAssumption == fNsigMax \in Nat \ {0}

\* The numbers that formulas name, and what atoi makes of them.
Number == [w \in {"0", "1", "2", "3", "40"} |->
            CASE w = "0" -> 0 [] w = "1" -> 1 [] w = "2" -> 2
              [] w = "3" -> 3 [] w = "40" -> 40]

IsNumber(w) == w \in DOMAIN Number

-----------------------------------------------------------------------------
(* infixtorpn: recursive descent over the words.  A rule applied at        *)
(* position i yields the words it emits and the position it stops at.      *)

Thrown == 0             \* std::runtime_error
Failed == [rpn |-> <<>>, at |-> Thrown]

Then(a, b)  == [rpn |-> a.rpn \o b.rpn, at |-> b.at]
Emit(a, op) == [a EXCEPT !.rpn = Append(@, op)]

\* parse_or, parse_and, parse_not and parse_value, the tree written out by
\* to_rpn.  The words that ran out are no error: the node is left empty.
Parse(words) ==
    LET End == Len(words) + 1
        WordAt(i) == IF i \in DOMAIN words THEN words[i] ELSE "end"
        parse[rule \in {"or", "or rest", "and", "and rest", "not", "value"},
              i \in 0 .. End] ==
            CASE i = Thrown -> Failed
              [] i # Thrown /\ rule = "or" ->
                    LET left == parse["and", i]
                    IN  Then(left, parse["or rest", left.at])
              [] i # Thrown /\ rule = "or rest" ->
                    IF WordAt(i) = "|"
                      THEN LET right == parse["and", i + 1]
                           IN  Then(Emit(right, "|"), parse["or rest", right.at])
                      ELSE [rpn |-> <<>>, at |-> i]
              [] i # Thrown /\ rule = "and" ->
                    LET left == parse["not", i]
                    IN  Then(left, parse["and rest", left.at])
              [] i # Thrown /\ rule = "and rest" ->
                    IF WordAt(i) = "&"
                      THEN LET right == parse["not", i + 1]
                           IN  Then(Emit(right, "&"), parse["and rest", right.at])
                      ELSE [rpn |-> <<>>, at |-> i]
              [] i # Thrown /\ rule = "not" ->
                    IF WordAt(i) = "!" THEN Emit(parse["not", i + 1], "!")
                                       ELSE parse["value", i]
              [] i # Thrown /\ rule = "value" ->
                    CASE WordAt(i) = "("    ->
                            LET inner == parse["or", i + 1]
                            IN  IF WordAt(inner.at) = ")" THEN [inner EXCEPT !.at = @ + 1]
                                                          ELSE Failed
                      [] IsNumber(WordAt(i)) -> [rpn |-> <<words[i]>>, at |-> i + 1]
                      [] WordAt(i) = "end"   -> [rpn |-> <<>>, at |-> i]
                      [] OTHER               -> Failed
    IN  parse["or", 1]

\* infixtorpn throws also when words are left over.
ParseThrows(words) == Parse(words).at # Len(words) + 1

-----------------------------------------------------------------------------
(* LogiCalc *)

IsRpn(formula) == formula # <<>> /\ Head(formula) = "RPN"

\* SetFormula can throw only on an infix formula.
FormulaThrows(formula) == ~IsRpn(formula) /\ ParseThrows(formula)

\* SetFormula and ComPushBack: numbers out of range and unknown words are
\* reported and dropped.
Commands(formula) ==
    SelectSeq(IF IsRpn(formula) THEN Tail(formula) ELSE Parse(formula).rpn,
              LAMBDA w : IF IsNumber(w) THEN Number[w] < fNsigMax
                                        ELSE w \in {"&", "|", "!", "x", "d"})

SigMax(commands) ==
    Max({Number[commands[i]] : i \in {k \in DOMAIN commands : IsNumber(commands[k])}} \cup {0})

\* One command of Calc.  The top of the stack is its head.  A "!" on an empty
\* stack has no defined result: Calculable says of which commands this is true.
Applied(com, stack, bits) ==
    CASE IsNumber(com)                    -> <<Number[com] \in bits>> \o stack
      [] com = "&" /\ Len(stack) > 1      -> <<stack[1] /\ stack[2]>> \o SubSeq(stack, 3, Len(stack))
      [] com = "|" /\ Len(stack) > 1      -> <<stack[1] \/ stack[2]>> \o SubSeq(stack, 3, Len(stack))
      [] com = "x" /\ Len(stack) > 1      -> <<stack[2], stack[1]>> \o SubSeq(stack, 3, Len(stack))
      [] com = "!" /\ stack # <<>>        -> <<~stack[1]>> \o Tail(stack)
      [] com = "d" /\ stack # <<>>        -> Tail(stack)
      [] OTHER                            -> stack

StackAfter(commands, bits) ==
    LET stack[n \in 0 .. Len(commands)] ==
            IF n = 0 THEN <<>> ELSE Applied(commands[n], stack[n - 1], bits)
    IN  stack

Calculable(commands) ==
    \A n \in DOMAIN commands :
        commands[n] = "!" => StackAfter(commands, {})[n - 1] # <<>>

Calc(commands, bits) ==
    LET stack == StackAfter(commands, bits)[Len(commands)]
    IN  stack # <<>> /\ Head(stack)

-----------------------------------------------------------------------------
(* TriggerMap *)

\* Mutant: the largest signal is counted as the number of signals.
MakeTableOneLess(formula) ==
    LET commands == Commands(formula)
        mask == 0 .. SigMax(commands) - 1
    IN  [fSignalMask |-> mask, fLut |-> {bits \in SUBSET mask : Calc(commands, bits)}]

\* MakeTable: the signals up to the largest one named, and the value of the
\* formula for each of their patterns.  fLut holds those for which it is true.
MakeTable(formula) ==
    LET commands == Commands(formula)
        mask == 0 .. SigMax(commands)
    IN  [fSignalMask |-> mask, fLut |-> {bits \in SUBSET mask : Calc(commands, bits)}]

\* LookUp: bits of no signal of the formula are masked out.
LookUp(map, bits) == bits \cap map.fSignalMask \in map.fLut
=============================================================================
