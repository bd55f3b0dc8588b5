----------------------------- MODULE NumberWords -----------------------------
(***************************************************************************)
(* The amount of a legal document in words.  A word is the number that it  *)
(* names (with 30, 40, ... and 200, 300, ... for the tens and hundreds),   *)
(* "cien" and "ciento" apart, "un" and "veintiun" apart from the full      *)
(* forms, "y", "mil", "millon" or "millones".                              *)
(***************************************************************************)
EXTENDS Integers, Sequences

Word(n) == [kind |-> "number", value |-> n]
Short(n) == [kind |-> "short", value |-> n]     \* un, veintiun
Cien == [kind |-> "cien", value |-> 100]
Y == [kind |-> "y", value |-> 0]
Mil == [kind |-> "mil", value |-> 1000]
Millon == [kind |-> "millon", value |-> 1000000]
Millones == [kind |-> "millones", value |-> 1000000]

\* 0 to 999; apocope shortens a last 1 before mil and millones.
ThreeDigits(n, apocope) ==
  LET hundreds == IF n >= 100 THEN <<Word(n - (n % 100))>> ELSE <<>>
      rest == n % 100
      units == rest % 10
      last(u) == IF apocope /\ u \in {1, 21} THEN Short(u) ELSE Word(u)
  IN  IF n = 100 THEN <<Cien>>
      ELSE hundreds \o (CASE rest = 0 -> <<>>
                          [] rest \in 1..29 -> <<last(rest)>>
                          [] OTHER -> IF units = 0 THEN <<Word(rest)>>
                                      ELSE <<Word(rest - units), Y, last(units)>>)

Thousands(n) == IF n = 0 THEN <<>>
                ELSE IF n = 1 THEN <<Mil>> ELSE ThreeDigits(n, TRUE) \o <<Mil>>

\* Mutant: the thousands of the millions are left out.
MillionsOfUnits(n) == IF n % 1000 > 0 THEN ThreeDigits(n % 1000, TRUE) \o <<Millones>> ELSE <<>>

Millions(n) ==
  IF n = 0 THEN <<>> ELSE IF n = 1 THEN <<Short(1), Millon>>
  ELSE Thousands(n \div 1000)
       \o (IF n % 1000 > 0 THEN ThreeDigits(n % 1000, TRUE) ELSE <<>>) \o <<Millones>>

\* The amount is given as its millions and the rest, below a million, because
\* TLC's integers have 32 bits.
NumberToSpanishWords(millions, rest) ==
  IF millions = 0 /\ rest = 0 THEN <<Word(0)>>
  ELSE Millions(millions) \o Thousands(rest \div 1000)
       \o (IF rest % 1000 > 0 THEN ThreeDigits(rest % 1000, FALSE) ELSE <<>>)

-----------------------------------------------------------------------------
(***************************************************************************)
(* How a reader of Spanish adds the words up: the words before a "mil"     *)
(* count by thousands, those before the millions by millions.              *)
(***************************************************************************)
Below1000(words) ==
  LET sum[i \in 0..Len(words)] == IF i = 0 THEN 0 ELSE sum[i-1] + words[i].value
  IN  sum[Len(words)]

\* The place of the only word of these kinds, 0 if there is none.
PlaceOf(words, kinds) ==
  IF \E i \in 1..Len(words) : words[i].kind \in kinds
  THEN CHOOSE i \in 1..Len(words) : words[i].kind \in kinds ELSE 0

Below1000000(words) ==
  LET mil == PlaceOf(words, {"mil"})
      before == Below1000(SubSeq(words, 1, mil - 1))
  IN  IF mil = 0 THEN Below1000(words)
      ELSE 1000 * (IF mil = 1 THEN 1 ELSE before) + Below1000(SubSeq(words, mil + 1, Len(words)))

\* The millions and the rest that the words name.
ReadWords(words) ==
  LET million == PlaceOf(words, {"millon", "millones"}) IN
  [millions |-> IF million = 0 THEN 0 ELSE Below1000000(SubSeq(words, 1, million - 1)),
   rest |-> Below1000000(SubSeq(words, million + 1, Len(words)))]

\* Who reads the amount of a note in words reads the amount in figures.
ReadsBack(millions, rest) ==
  ReadWords(NumberToSpanishWords(millions, rest)) = [millions |-> millions, rest |-> rest]
=============================================================================
