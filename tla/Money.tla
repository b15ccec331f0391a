-------------------------------- MODULE Money --------------------------------
(***************************************************************************)
(* Amounts and phone numbers as they are written and as they are stored:   *)
(* packages/core/src/money.ts and msisdn.ts.                               *)
(*                                                                         *)
(* A text is a sequence of characters.  "KES" is one character, "254" is   *)
(* one ("K"), and so are the nine digits of a subscriber.                  *)
(***************************************************************************)
EXTENDS Integers, Sequences, FiniteSets, SequencesExt

CONSTANTS
  Subscribers,   \* the last nine digits of a number, beginning with 7 or 1
  MaxDigits,     \* digits before the point, at most: 15
  MinCents,      \* DARAJA_B2C_MIN_CENTS
  MaxCents       \* DARAJA_B2C_MAX_CENTS

ASSUME MoneyAssumption ==
  MaxDigits \in Nat \ {0} /\ MinCents \in Nat \ {0} /\ MaxCents \in Nat /\ MinCents <= MaxCents

Figures == <<"0", "1", "2", "3", "4", "5", "6", "7", "8", "9">>
Figure(n) == Figures[n + 1]
Value(c) == (CHOOSE i \in DOMAIN Figures : Figures[i] = c) - 1

Spaces == {" ", "\t", "\r", "\n"}

Blank(text) == Range(text) \subseteq Spaces

\* String.prototype.trim
Trim(text) ==
  IF Blank(text) THEN <<>>
  ELSE LET kept == {i \in DOMAIN text : text[i] \notin Spaces}
           first == CHOOSE i \in kept : \A j \in kept : i <= j
           last  == CHOOSE i \in kept : \A j \in kept : j <= i
       IN  SubSeq(text, first, last)

Without(text, chars) == SelectSeq(text, LAMBDA c : c \notin chars)
StartsWith(text, c)  == text # <<>> /\ text[1] = c

-----------------------------------------------------------------------------
(* money.ts.  Text that is no amount is told from one that is not positive *)
(* by its message only: both are 0 here.                                   *)

NoAmount == 0

Number(figures) == FoldLeft(LAMBDA n, c : 10 * n + Value(c), 0, figures)

\* AMOUNT_PATTERN on the text without a sign, whose point is at p.
IsAmount(text, p) ==
  /\ p - 1 \in 1..MaxDigits
  /\ p <= Len(text) => Len(text) - p \in 1..2
  /\ \A i \in DOMAIN text : i # p => text[i] \in Range(Figures)

\* A negative amount is refused by every caller, as zero is.
ParseAmountToCents(text) ==
  LET bare    == Without(text, Spaces)
      cleaned == Without(IF StartsWith(bare, "KES") THEN Tail(bare) ELSE bare, {","})
      p       == IF "." \in Range(cleaned) THEN SelectInSeq(cleaned, LAMBDA c : c = ".") ELSE Len(cleaned) + 1
      cents   == SubSeq(SubSeq(cleaned, p + 1, Len(cleaned)) \o <<"0", "0">>, 1, 2)
  IN  IF ~IsAmount(cleaned, p) THEN NoAmount
      ELSE Number(SubSeq(cleaned, 1, p - 1)) * 100 + Number(cents)

\* What Daraja takes: centsToDarajaAmount refuses cents, the limits are checked on upload.
IsPayable(cents) == cents % 100 = 0 /\ cents \in MinCents..MaxCents

Padded(n, width) == [k \in 1..width |-> Figure((n \div 10^(width - k)) % 10)]

\* The whole shillings in groups of three figures.
Grouped[n \in Nat] ==
  IF n >= 1000 THEN Grouped[n \div 1000] \o <<",">> \o Padded(n % 1000, 3)
  ELSE Padded(n, IF n < 10 THEN 1 ELSE IF n < 100 THEN 2 ELSE 3)

FormatCents(cents) == Grouped[cents \div 100] \o <<".">> \o Padded(cents % 100, 2)

-----------------------------------------------------------------------------
(* msisdn.ts: 0..., 254..., 00254... and the subscriber's digits alone,    *)
(* with any formatting and one leading plus.                               *)

NoNumber == <<>>

Canonical(subscriber) == <<"K", subscriber>>

TryNormalizeMsisdn(text) ==
  LET bare   == Without(text, Spaces \cup {"(", ")", "-", "."})
      digits == IF StartsWith(bare, "+") THEN Tail(bare) ELSE bare
      taken  == {s \in Subscribers :
                   digits \in {<<s>>, <<"0", s>>, <<"K", s>>, <<"0", "0", "K", s>>}}
  IN  IF taken = {} THEN NoNumber ELSE Canonical(CHOOSE s \in taken : TRUE)
=============================================================================
