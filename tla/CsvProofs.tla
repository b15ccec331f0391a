------------------------------ MODULE CsvProofs ------------------------------
(***************************************************************************)
(* Theorems of CsvIngest about the rows of a file, for every text, however *)
(* it was written: what the tokenizer makes of a text is an induction over *)
(* it, which stays with TLC.                                               *)
(*                                                                         *)
(* The invariant, Answers, says which of the rows have been looked at, and *)
(* that each was answered: passed over as blank, accepted once, as what it *)
(* says and in the order of the file, or given its reasons.                *)
(***************************************************************************)
EXTENDS CsvIngest, FiniteSetTheorems, SequenceTheorems, TLAPS

Failed(k)   == {column \in Required : ColumnFails(rows[k], column)}
BlankRow(k) == \A c \in DOMAIN rows[k] : Blank(rows[k][c])
Asked       == {k \in 2..next : ~BlankRow(k)}
Sound       == {k \in Asked : Failed(k) = {}}

\* The data rows have been looked at up to the one before next.
Answers ==
  /\ next \in Nat /\ next >= 1
  /\ phase \in {"reading", "read", "refused"} =>
       next = 1 /\ accepted = <<>> /\ errors = {} /\ warnings = {}
  /\ phase \in {"reading", "read", "refused", "validating", "done"}
  /\ errors = UNION {{[line |-> k, column |-> c] : c \in Failed(k)} : k \in Asked}
  /\ accepted \in Seq({Parsed(rows[k], k) : k \in 2..next})
  /\ Range(accepted) = {Parsed(rows[k], k) : k \in Sound}
  /\ \A m, n \in DOMAIN accepted : m < n => accepted[m].line < accepted[n].line
  /\ phase = "done" => next = Len(rows)
  /\ phase = "done" =>
       warnings = {Same(r) : r \in {q \in Range(accepted) : Cardinality(Same(q)) > 1}}

LEMMA ParsedLine == ASSUME NEW cells, NEW k PROVE Parsed(cells, k).line = k
  BY DEF Parsed

\* What is said of a row depends on the rows alone.
LEMMA SaidOfRows ==
  ASSUME rows' = rows
  PROVE  \A k : /\ (Failed(k))' = Failed(k) /\ (BlankRow(k))' = BlankRow(k)
               /\ (Parsed(rows[k], k))' = Parsed(rows[k], k)
<1>1. \A k : (Failed(k))' = Failed(k)
  BY DEF Failed, ColumnFails, At, Named
<1>2. \A k : (BlankRow(k))' = BlankRow(k)
  BY DEF BlankRow
<1>3. \A k : (Parsed(rows[k], k))' = Parsed(rows[k], k)
  BY DEF Parsed, At, Named
<1> QED
  BY <1>1, <1>2, <1>3

\* One more answer.
LEMMA RangeOfAppended ==
  ASSUME NEW S, NEW s \in Seq(S), NEW e
  PROVE  Range(Append(s, e)) = Range(s) \cup {e}
<1>1. DOMAIN Append(s, e) = DOMAIN s \cup {Len(s) + 1}
  OBVIOUS
<1>2. Append(s, e)[Len(s) + 1] = e /\ \A k \in DOMAIN s : Append(s, e)[k] = s[k]
  OBVIOUS
<1> QED
  BY <1>1, <1>2 DEF Range

LEMMA AnswersInit == Init => Answers
<1> SUFFICES ASSUME Init PROVE Answers
  OBVIOUS
<1>1. Asked = {} /\ Sound = {}
  BY DEF Init, Asked, Sound
<1> QED
  BY <1>1 DEF Init, Answers, Range

\* Reading the text looks at no row.
LEMMA AnswersRead ==
  ASSUME Answers, phase = "reading", phase' \in {"reading", "read"}, UNCHANGED <<next, result>>
  PROVE  Answers'
<1>1. Asked = {} /\ Sound = {} /\ Asked' = {} /\ Sound' = {}
  BY DEF Answers, Asked, Sound, result
<1> QED
  BY <1>1 DEF Answers, Range, result

\* A row more, and its answer.
LEMMA AnswersRow == Answers /\ ValidateRow => Answers'
<1> SUFFICES ASSUME Answers, ValidateRow PROVE Answers'
  OBVIOUS
<1> DEFINE new == next + 1
           was == {Parsed(rows[k], k) : k \in 2..next}
<1>1. /\ phase = "validating" /\ phase' = "validating" /\ next' = new /\ rows' = rows
      /\ next \in Nat /\ next >= 1 /\ next' \in Nat /\ next' >= 1
  BY DEF ValidateRow, Answers, tokenizer
<1>2. 2..next' = (2..next) \cup {new} /\ new \notin 2..next
  BY <1>1
<1>3. \A k : (Failed(k))' = Failed(k) /\ (BlankRow(k))' = BlankRow(k)
  BY <1>1, SaidOfRows
<1>4. \A k : (Parsed(rows[k], k))' = Parsed(rows[k], k)
  BY <1>1, SaidOfRows
<1>5. CASE BlankRow(new)
  <2>1. Asked' = Asked /\ Sound' = Sound
    BY <1>2, <1>3, <1>5 DEF Asked, Sound
  <2>2. errors' = errors /\ accepted' = accepted
    BY <1>1, <1>5 DEF ValidateRow, BlankRow
  <2> QED
    BY <1>1, <1>2, <1>3, <1>4, <2>1, <2>2 DEF Answers
<1>6. CASE ~BlankRow(new) /\ Failed(new) # {}
  <2>1. Asked' = Asked \cup {new} /\ Sound' = Sound
    BY <1>1, <1>2, <1>3, <1>6 DEF Asked, Sound
  <2>2. errors' = errors \cup {[line |-> new, column |-> c] : c \in Failed(new)} /\ accepted' = accepted
    BY <1>1, <1>6 DEF ValidateRow, BlankRow, Failed
  <2>3. errors' = UNION {{[line |-> k, column |-> c] : c \in (Failed(k))'} : k \in Asked'}
    BY <1>3, <2>1, <2>2 DEF Answers
  <2> QED
    BY <1>1, <1>2, <1>4, <2>1, <2>2, <2>3 DEF Answers
<1>7. CASE ~BlankRow(new) /\ Failed(new) = {}
  <2>1. Asked' = Asked \cup {new} /\ Sound' = Sound \cup {new}
    BY <1>1, <1>2, <1>3, <1>7 DEF Asked, Sound
  <2>2. errors' = errors /\ accepted' = Append(accepted, Parsed(rows[new], new))
    BY <1>1, <1>7 DEF ValidateRow, BlankRow, Failed
  <2>3. errors' = UNION {{[line |-> k, column |-> c] : c \in (Failed(k))'} : k \in Asked'}
    BY <1>3, <1>7, <2>1, <2>2 DEF Answers
  <2>4. accepted' \in Seq({(Parsed(rows[k], k))' : k \in 2..next'})
    <3>1. accepted \in Seq({Parsed(rows[k], k) : k \in 2..next'})
      BY <1>1, <1>2 DEF Answers
    <3>2. Parsed(rows[new], new) \in {Parsed(rows[k], k) : k \in 2..next'}
      BY <1>2
    <3> QED
      BY <1>4, <2>2, <3>1, <3>2, AppendProperties
  <2>5. Range(accepted') = Range(accepted) \cup {Parsed(rows[new], new)}
    BY <2>2, RangeOfAppended DEF Answers
  <2>6. Range(accepted') = {(Parsed(rows[k], k))' : k \in Sound'}
    BY <1>4, <2>1, <2>5 DEF Answers
  <2>7. \A m \in DOMAIN accepted : accepted[m].line \in 2..next
    BY ParsedLine DEF Answers
  <2>8. \A m, n \in DOMAIN accepted' : m < n => accepted'[m].line < accepted'[n].line
    BY <1>1, <2>2, <2>7, ParsedLine DEF Answers
  <2> QED
    BY <1>1, <2>3, <2>4, <2>6, <2>8 DEF Answers
<1> QED
  BY <1>5, <1>6, <1>7

\* The columns, and the report at the end, answer no row.
LEMMA AnswersColumns == Answers /\ MapColumns => Answers'
<1> SUFFICES ASSUME Answers, MapColumns PROVE Answers'
  OBVIOUS
<1>1. Asked = {} /\ Sound = {} /\ Asked' = {} /\ Sound' = {}
  BY DEF Answers, MapColumns, Asked, Sound
<1> QED
  BY <1>1 DEF Answers, MapColumns, Range, result, tokenizer

LEMMA AnswersReport == Answers /\ Report => Answers'
<1> SUFFICES ASSUME Answers, Report PROVE Answers'
  OBVIOUS
<1>1. /\ phase = "validating" /\ phase' = "done" /\ next = Len(rows)
      /\ next' = next /\ rows' = rows /\ accepted' = accepted /\ errors' = errors
      /\ warnings' = {Same(r) : r \in {q \in Range(accepted) : Cardinality(Same(q)) > 1}}
  BY DEF Report, tokenizer
<1>2. Asked' = Asked /\ Sound' = Sound
  BY <1>1, SaidOfRows DEF Asked, Sound
<1>3. \A r : (Same(r))' = Same(r)
  BY <1>1 DEF Same
<1>4. errors' = UNION {{[line |-> k, column |-> c] : c \in (Failed(k))'} : k \in Asked'}
  BY <1>1, <1>2, SaidOfRows DEF Answers
<1>5. accepted' \in Seq({(Parsed(rows[k], k))' : k \in 2..next'})
  <2>1. {(Parsed(rows[k], k))' : k \in 2..next'} = {Parsed(rows[k], k) : k \in 2..next}
    BY <1>1, SaidOfRows
  <2> QED
    BY <1>1, <2>1 DEF Answers
<1>6. Range(accepted') = {(Parsed(rows[k], k))' : k \in Sound'}
  BY <1>1, <1>2, SaidOfRows DEF Answers
<1>7. warnings' = {(Same(r))' : r \in {q \in Range(accepted') : Cardinality((Same(q))') > 1}}
  BY <1>1, <1>3
<1> QED
  BY <1>1, <1>4, <1>5, <1>6, <1>7 DEF Answers

LEMMA AnswersNext == Answers /\ [Next]_vars => Answers'
<1> SUFFICES ASSUME Answers, [Next]_vars PROVE Answers'
  OBVIOUS
<1>1. CASE ReadText
  BY <1>1, AnswersRead DEF ReadText, EscapedQuote, CloseQuote, OpenQuote, Plain, Separator,
    CarriageReturn, LineEnd, EndOfText, Reading
<1>2. CASE MapColumns
  BY <1>2, AnswersColumns
<1>3. CASE ValidateRow
  BY <1>3, AnswersRow
<1>4. CASE Report
  BY <1>4, AnswersReport
<1>5. CASE UNCHANGED vars
  <2>1. /\ rows' = rows /\ phase' = phase /\ next' = next
        /\ accepted' = accepted /\ errors' = errors /\ warnings' = warnings
    BY <1>5 DEF vars, tokenizer, result
  <2>2. Asked' = Asked /\ Sound' = Sound
    BY <2>1, SaidOfRows DEF Asked, Sound
  <2>3. \A r : (Same(r))' = Same(r)
    BY <2>1 DEF Same
  <2>4. errors' = UNION {{[line |-> k, column |-> c] : c \in (Failed(k))'} : k \in Asked'}
    BY <2>1, <2>2, SaidOfRows DEF Answers
  <2>5. /\ accepted' \in Seq({(Parsed(rows[k], k))' : k \in 2..next'})
        /\ Range(accepted') = {(Parsed(rows[k], k))' : k \in Sound'}
    BY <2>1, <2>2, SaidOfRows DEF Answers
  <2>6. phase' = "done" =>
          warnings' = {(Same(r))' : r \in {q \in Range(accepted') : Cardinality((Same(q))') > 1}}
    BY <2>1, <2>3 DEF Answers
  <2> QED
    BY <2>1, <2>4, <2>5, <2>6 DEF Answers
<1> QED
  BY <1>1, <1>2, <1>3, <1>4, <1>5 DEF Next

THEOREM AnswersInvariant == Spec => []Answers
  BY AnswersInit, AnswersNext, PTL DEF Spec

-----------------------------------------------------------------------------
(* "Every row that fails produces a row-level reason with a 1-based line   *)
(* number" (csv.ts:11): the rows looked at that say anything are accepted, *)
(* as they were read, once and in the order of the file, or have a reason  *)
(* for each column that fails, and no row has both or neither.             *)
RowsAreAnswered ==
  /\ errors = UNION {{[line |-> k, column |-> c] : c \in Failed(k)} : k \in Asked}
  /\ Range(accepted) = {Parsed(rows[k], k) : k \in Sound}
  /\ \A m, n \in DOMAIN accepted : m < n => accepted[m].line < accepted[n].line
  /\ phase = "done" => next = Len(rows)

(* What is accepted can be paid: an amount within the limits, a name that  *)
(* fits, and the number of a subscriber in its canonical form, whatever    *)
(* the row said.                                                           *)
AcceptedArePayments ==
  \A r \in Range(accepted) :
    /\ IsPayable(r.cents)
    /\ Len(r.name) \in 1..MaxName
    /\ \E s \in Subscribers : r.msisdn = Canonical(s)

(* "same number, same amount, twice in one payroll run" (csv.ts:328): two  *)
(* accepted rows are in one warning exactly when they agree in both.       *)
WarningsAreDuplicates ==
  phase = "done" =>
    \A q, r \in Range(accepted) :
      q # r => (q.msisdn = r.msisdn /\ q.cents = r.cents <=>
                \E lines \in warnings : {q.line, r.line} \subseteq lines)

(* Every row that says anything is answered, whatever the text.            *)
THEOREM EveryRowIsAnswered == Spec => []RowsAreAnswered
<1>1. Answers => RowsAreAnswered
  BY DEF Answers, RowsAreAnswered
<1> QED
  BY <1>1, AnswersInvariant, PTL

\* A number that is read at all is a subscriber's, in its canonical form.
LEMMA NumbersAreCanonical ==
  ASSUME NEW text, TryNormalizeMsisdn(text) # NoNumber
  PROVE  \E s \in Subscribers : TryNormalizeMsisdn(text) = Canonical(s)
<1> DEFINE bare   == Without(text, Spaces \cup {"(", ")", "-", "."})
           digits == IF StartsWith(bare, "+") THEN Tail(bare) ELSE bare
           taken  == {s \in Subscribers :
                        digits \in {<<s>>, <<"0", s>>, <<"K", s>>, <<"0", "0", "K", s>>}}
<1>1. TryNormalizeMsisdn(text) = IF taken = {} THEN NoNumber ELSE Canonical(CHOOSE s \in taken : TRUE)
  BY DEF TryNormalizeMsisdn
<1> HIDE DEF bare, digits
<1>2. taken # {} /\ (CHOOSE s \in taken : TRUE) \in taken
  BY <1>1
<1> QED
  BY <1>1, <1>2

(* Only what can be paid is accepted, whatever the row.                    *)
THEOREM OnlyPaymentsAccepted == Spec => []AcceptedArePayments
<1>1. ASSUME Answers, NEW r \in Range(accepted)
      PROVE  IsPayable(r.cents) /\ Len(r.name) \in 1..MaxName /\ \E s \in Subscribers : r.msisdn = Canonical(s)
  <2>1. PICK k \in Sound : r = Parsed(rows[k], k)
    BY <1>1 DEF Answers
  <2>2. \A column \in Required : ~ColumnFails(rows[k], column)
    BY DEF Sound, Failed
  <2>3. Len(At(rows[k], "name")) \in 1..MaxName
    BY <2>2 DEF ColumnFails, Required
  <2>4. TryNormalizeMsisdn(At(rows[k], "phone")) # NoNumber
    BY <2>2 DEF ColumnFails, Required
  <2>5. IsPayable(ParseAmountToCents(At(rows[k], "amount")))
    BY <2>2 DEF ColumnFails, Required
  <2> QED
    BY <2>1, <2>3, <2>4, <2>5, NumbersAreCanonical DEF Parsed
<1>2. Answers => AcceptedArePayments
  BY <1>1 DEF AcceptedArePayments
<1> QED
  BY <1>2, AnswersInvariant, PTL

\* An accepted row is told from the others by its line.
LEMMA LinesAreApart ==
  ASSUME Answers
  PROVE  /\ \A r \in Range(accepted) : r.line \in 2..next
         /\ \A q, r \in Range(accepted) : q.line = r.line => q = r
  BY ParsedLine DEF Answers, Sound, Asked

(* Two rows are in a warning exactly when they pay the same twice.         *)
THEOREM WarningsAreOfDuplicates == Spec => []WarningsAreDuplicates
<1>1. ASSUME Answers, phase = "done", NEW q \in Range(accepted), NEW r \in Range(accepted), q # r,
             q.msisdn = r.msisdn, q.cents = r.cents
      PROVE  \E lines \in warnings : {q.line, r.line} \subseteq lines
  <2>1. {q.line, r.line} \subseteq Same(q) /\ Same(q) \subseteq 2..next
    BY <1>1, LinesAreApart DEF Same
  <2>2. IsFiniteSet(Same(q))
    <3>1. IsFiniteSet(2..next)
      BY <1>1, FS_Interval DEF Answers
    <3> QED
      BY <2>1, <3>1, FS_Subset
  <2>3. Cardinality({q.line, r.line}) = 2
    <3>1. q.line # r.line
      BY <1>1, LinesAreApart
    <3>2. IsFiniteSet({q.line}) /\ Cardinality({q.line}) = 1
      BY FS_Singleton
    <3>3. Cardinality({q.line} \cup {r.line}) = 2
      BY <3>1, <3>2, FS_AddElement
    <3>4. {q.line, r.line} = {q.line} \cup {r.line}
      OBVIOUS
    <3> QED
      BY <3>3, <3>4
  <2>4. Cardinality(Same(q)) \in Nat /\ Cardinality({q.line, r.line}) <= Cardinality(Same(q))
    BY <2>1, <2>2, FS_Subset, FS_CardinalityType
  <2>5. Same(q) \in warnings
    BY <1>1, <2>3, <2>4 DEF Answers
  <2> QED
    BY <2>1, <2>5
<1>2. ASSUME Answers, phase = "done", NEW q \in Range(accepted), NEW r \in Range(accepted),
             NEW lines \in warnings, {q.line, r.line} \subseteq lines
      PROVE  q.msisdn = r.msisdn /\ q.cents = r.cents
  <2>1. PICK p \in Range(accepted) : lines = Same(p)
    BY <1>2 DEF Answers
  <2>2. \A s \in Range(accepted) : s.line \in Same(p) => s.msisdn = p.msisdn /\ s.cents = p.cents
    BY <1>2, LinesAreApart DEF Same
  <2> QED
    BY <1>2, <2>1, <2>2
<1>3. Answers => WarningsAreDuplicates
  BY <1>1, <1>2 DEF WarningsAreDuplicates
<1> QED
  BY <1>3, AnswersInvariant, PTL
=============================================================================
