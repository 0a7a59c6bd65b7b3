-------------------------------- MODULE Fence --------------------------------
(***************************************************************************)
(* The fence around one retrieved source of a prompt.  A text is a         *)
(* sequence of symbols: its brackets, angle brackets, bars and blanks, and *)
(* the words control tokens are made of.                                   *)
(***************************************************************************)
EXTENDS Integers, Sequences, SequencesExt

\* Variant: replace(cc, "c c"), which goes on after the pair it replaced.
SplitPairs(c, text) ==
  LET step(acc, x) ==
        IF acc.open /\ x = c THEN [done |-> acc.done \o <<" ", x>>, open |-> FALSE]
        ELSE [done |-> Append(acc.done, x), open |-> x = c]
  IN FoldLeft(step, [done |-> <<>>, open |-> FALSE], text).done

\* A blank between two neighbours wherever both are the symbol c.
SplitRuns(c, text) ==
  FoldLeft(LAMBDA done, x : IF done # <<>> /\ x = c /\ Last(done) = c
                              THEN done \o <<" ", x>> ELSE Append(done, x),
           <<>>, text)

\* Chat-role tokens and what they are spaced out to; "SYS" and "INST" stand for the
\* word with or without its slash.
ControlTokens ==
  <<[token |-> <<"<", "<", "SYS", ">", ">">>, safe |-> <<"<", "<", " ", "SYS", " ", ">", ">">>],
    [token |-> <<"[", "INST", "]">>, safe |-> <<"[", " ", "INST", " ", "]">>],
    [token |-> <<"<", "|">>, safe |-> <<"<", "|", " ">>],
    [token |-> <<"|", ">">>, safe |-> <<" ", "|", ">">>]>>

Occurs(token, text, i) ==
  i + Len(token) - 1 <= Len(text) /\ SubSeq(text, i, i + Len(token) - 1) = token

ReplaceToken(text, c) ==
  LET rest[i \in 1 .. Len(text) + 1] ==
        IF i > Len(text) THEN <<>>
        ELSE IF Occurs(c.token, text, i) THEN c.safe \o rest[i + Len(c.token)]
        ELSE <<text[i]>> \o rest[i + 1]
  IN rest[1]

NeutralizeUntrustedText(text) ==
  FoldLeft(ReplaceToken, SplitRuns("]", SplitRuns("[", text)), ControlTokens)

Parenthesised(c) == IF c = "[" THEN "(" ELSE IF c = "]" THEN ")" ELSE c

FenceSource(number, title, text) ==
  LET neutral == NeutralizeUntrustedText(title)
      safeTitle == [i \in DOMAIN neutral |-> Parenthesised(neutral[i])]
  IN <<"[", "[", "UNTRUSTED SOURCE", "[", number, "]", ":">> \o safeTitle \o <<"]", "]", "nl">>
       \o NeutralizeUntrustedText(text)
       \o <<"nl", "[", "[", "END SOURCE", "[", number, "]", "]", "]">>
=============================================================================
