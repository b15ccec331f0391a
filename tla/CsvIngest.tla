------------------------------ MODULE CsvIngest ------------------------------
(***************************************************************************)
(* An uploaded payment file: the tokenizer, the columns, the rows and the  *)
(* duplicates of packages/core/src/csv.ts, character by character and row  *)
(* by row, and the fields of export-csv.ts, which may be uploaded again.   *)
(*                                                                         *)
(* A file is what its author meant, and how it was written down: a header  *)
(* and lines of cells, the separator, the end of a line, and whether cells *)
(* are quoted when they must be, always, or as an export of SOLVAREN is.   *)
(***************************************************************************)
EXTENDS Money, FiniteSetsExt

CONSTANTS
  Headers,     \* sequences of columns: "name", "phone", "amount" and others
  Lines,       \* what a line may say: its cells, and what is meant by them
  MaxLines,    \* lines of a file
  Separators,
  Careful,     \* are commas quoted, whatever the file's own separator?
  MaxName      \* characters of a name: 140

ASSUME CsvAssumption ==
  /\ MaxLines \in Nat \ {0} /\ MaxName \in Nat \ {0} /\ Careful \in BOOLEAN
  /\ Separators \subseteq {",", ";", "\t"}

Required == {"name", "phone", "amount"}

VARIABLES
  file,       \* never changes
  src,        \* its text, and the index in it
  i,
  field, row, rows, inQuotes,
  phase,
  next,       \* index of the next of the data rows
  accepted,   \* ParsedRow[]
  errors,     \* RowError[]: line and column
  warnings,   \* DuplicateWarning[]: the line numbers of each
  total       \* totalAmountCents

tokenizer == <<field, row, rows, inQuotes>>
result    == <<accepted, errors, warnings, total>>
vars      == <<file, src, i, tokenizer, phase, next, result>>

-----------------------------------------------------------------------------
(* How a file is written.                                                  *)

Quote == "\""
BOM   == "BOM"

Quoted(text) ==
  <<Quote>> \o FlattenSeq([k \in DOMAIN text |->
                            IF text[k] = Quote THEN <<Quote, Quote>> ELSE <<text[k]>>]) \o <<Quote>>

\* FORMULA_TRIGGER, FORMULA_PREFIX
LooksLikeFormula(text) == text # <<>> /\ text[1] \in {"=", "+", "-", "@", "\t", "\r"}

Guarded(text) == IF LooksLikeFormula(text) THEN <<"'">> \o text ELSE text

EscapeCsvField(text) ==
  IF Range(Guarded(text)) \cap {Quote, ",", "\n", "\r"} # {} THEN Quoted(Guarded(text)) ELSE Guarded(text)

\* What a spreadsheet or a careful person quotes.
MustQuote(text, separator) ==
  Range(text) \cap ({Quote, "\n", "\r", separator} \cup IF Careful THEN {",", ";", "\t"} ELSE {}) # {}

Written(text, f) ==
  IF f.style = "exported" THEN EscapeCsvField(text)
  ELSE IF f.style = "quoted" \/ MustQuote(text, f.separator) THEN Quoted(text)
  ELSE text

\* An export writes the canonical number and the formatted amount.
Says(line, column, f) ==
  IF f.style # "exported" \/ column \notin {"phone", "amount"} THEN line[column]
  ELSE IF column = "phone" THEN Canonical(line.subscriber)
  ELSE FormatCents(line.cents)

Joined(texts, separator) ==
  FlattenSeq([k \in DOMAIN texts |-> IF k = 1 THEN texts[k] ELSE <<separator>> \o texts[k]])

Cells(line, f) ==
  [k \in DOMAIN f.header |-> Says(line, f.header[k], f)]

\* A line without anything in it has no separators either.
SaysNothing(line, f) == \A k \in DOMAIN f.header : Cells(line, f)[k] = <<>>

LineText(line, f) ==
  IF SaysNothing(line, f) THEN <<>>
  ELSE Joined([k \in DOMAIN f.header |-> Written(Cells(line, f)[k], f)], f.separator)

FileText(f) ==
  (IF f.bom THEN <<BOM>> ELSE <<>>) \o
  Joined([k \in DOMAIN f.header |-> <<f.header[k]>>], f.separator) \o
  FlattenSeq([k \in DOMAIN f.lines |-> f.end \o LineText(f.lines[k], f)]) \o
  (IF f.closed THEN f.end ELSE <<>>)

IsPayment(line) ==
  /\ Len(Trim(line.name)) \in 1..MaxName
  /\ line.subscriber \in Subscribers
  /\ IsPayable(line.cents)

\* Only payments are in the ledger, which an export is made from.
Files ==
  {f \in [header : Headers, lines : UNION {[1..n -> Lines] : n \in 0..MaxLines},
          separator : Separators, end : {<<"\n">>, <<"\r", "\n">>}, style : {"bare", "quoted", "exported"},
          bom : BOOLEAN, closed : BOOLEAN] :
     f.style = "exported" =>
       /\ f.separator = "," /\ f.end = <<"\r", "\n">> /\ f.closed /\ ~f.bom
       /\ \A k \in DOMAIN f.lines : IsPayment(f.lines[k])}

-----------------------------------------------------------------------------
(* parseCsvGrid.  src[i + 1] is undefined at the end of the text.          *)

Init ==
  /\ file \in Files
  /\ src = IF StartsWith(FileText(file), BOM) THEN Tail(FileText(file)) ELSE FileText(file)
  /\ i = 1 /\ field = <<>> /\ row = <<>> /\ rows = <<>> /\ inQuotes = FALSE
  /\ phase = "reading" /\ next = 1
  /\ accepted = <<>> /\ errors = {} /\ warnings = {} /\ total = 0

Reading == phase = "reading" /\ i <= Len(src) /\ UNCHANGED <<file, src, phase, next, result>>
Ahead(c) == i < Len(src) /\ src[i + 1] = c

\* Mutant: the second of two quotes is read again.
EscapedQuoteOnce ==
  /\ Reading /\ inQuotes /\ src[i] = Quote /\ Ahead(Quote)
  /\ field' = Append(field, Quote) /\ i' = i + 1
  /\ UNCHANGED <<row, rows, inQuotes>>

EscapedQuote ==
  /\ Reading /\ inQuotes /\ src[i] = Quote /\ Ahead(Quote)
  /\ field' = Append(field, Quote) /\ i' = i + 2
  /\ UNCHANGED <<row, rows, inQuotes>>

CloseQuote ==
  /\ Reading /\ inQuotes /\ src[i] = Quote /\ ~Ahead(Quote)
  /\ inQuotes' = FALSE /\ i' = i + 1
  /\ UNCHANGED <<field, row, rows>>

OpenQuote ==
  /\ Reading /\ ~inQuotes /\ src[i] = Quote /\ Blank(field)
  /\ inQuotes' = TRUE /\ field' = <<>> /\ i' = i + 1
  /\ UNCHANGED <<row, rows>>

\* In quotes everything but a quote is part of the field.
Plain ==
  /\ Reading
  /\ IF inQuotes THEN src[i] # Quote
     ELSE src[i] \notin {",", ";", "\t", "\r", "\n"} /\ (src[i] = Quote => ~Blank(field))
  /\ field' = Append(field, src[i]) /\ i' = i + 1
  /\ UNCHANGED <<row, rows, inQuotes>>

Separator ==
  /\ Reading /\ ~inQuotes /\ src[i] \in {",", ";", "\t"}
  /\ row' = Append(row, field) /\ field' = <<>> /\ i' = i + 1
  /\ UNCHANGED <<rows, inQuotes>>

CarriageReturn ==
  /\ Reading /\ ~inQuotes /\ src[i] = "\r"
  /\ i' = i + 1
  /\ UNCHANGED tokenizer

\* A line that is entirely empty is no row.
PushRow ==
  LET pushed == Append(row, field)
  IN  /\ rows' = IF Len(pushed) = 1 /\ Blank(field) THEN rows ELSE Append(rows, pushed)
      /\ row' = <<>> /\ field' = <<>>

LineEnd ==
  /\ Reading /\ ~inQuotes /\ src[i] = "\n"
  /\ PushRow /\ i' = i + 1
  /\ UNCHANGED inQuotes

EndOfText ==
  /\ phase = "reading" /\ i > Len(src)
  /\ IF field # <<>> \/ row # <<>> THEN PushRow ELSE UNCHANGED <<field, row, rows>>
  /\ phase' = "read"
  /\ UNCHANGED <<file, src, i, inQuotes, next, result>>

ReadText ==
  \/ EscapedQuote \/ CloseQuote \/ OpenQuote \/ Plain
  \/ Separator \/ CarriageReturn \/ LineEnd \/ EndOfText

-----------------------------------------------------------------------------
(* parsePaymentCsv.                                                        *)

\* mapColumns: the first column that has one of the names.
Named(column) == {k \in DOMAIN rows[1] : Trim(rows[1][k]) = <<column>>}

\* CSV_EMPTY, CSV_MISSING_COLUMNS, CSV_NO_ROWS, CSV_TOO_MANY_ROWS
MapColumns ==
  /\ phase = "read"
  /\ phase' = IF Len(rows) \in 2..(MaxLines + 1) /\ \A column \in Required : Named(column) # {}
              THEN "validating" ELSE "refused"
  /\ UNCHANGED <<file, src, i, tokenizer, next, result>>

At(cells, column) ==
  LET k == Min(Named(column)) IN IF k \in DOMAIN cells THEN Trim(cells[k]) ELSE <<>>

ColumnFails(cells, column) ==
  LET text == At(cells, column) IN
  CASE column = "name"   -> Len(text) \notin 1..MaxName
    [] column = "phone"  -> TryNormalizeMsisdn(text) = NoNumber
    [] column = "amount" -> LooksLikeFormula(text) \/ ~IsPayable(ParseAmountToCents(text))

Parsed(cells, lineNumber) ==
  [line |-> lineNumber, name |-> At(cells, "name"), msisdn |-> TryNormalizeMsisdn(At(cells, "phone")),
   cents |-> ParseAmountToCents(At(cells, "amount"))]

\* Mutant: the number is kept as it was written.
ValidateRowAsWritten ==
  LET cells == rows[next + 1]
      failed == {column \in Required : ColumnFails(cells, column)}
      blank  == \A k \in DOMAIN cells : Blank(cells[k])
  IN  /\ phase = "validating" /\ next < Len(rows)
      /\ next' = next + 1
      /\ errors' = IF blank THEN errors ELSE errors \cup {[line |-> next + 1, column |-> c] : c \in failed}
      /\ accepted' = IF blank \/ failed # {} THEN accepted
                     ELSE Append(accepted, [Parsed(cells, next + 1) EXCEPT !.msisdn = At(cells, "phone")])
      /\ UNCHANGED <<file, src, i, tokenizer, phase, warnings, total>>

\* Mutant: a row without a name is reported, and accepted all the same.
ValidateRowButName ==
  LET cells == rows[next + 1]
      failed == {column \in Required : ColumnFails(cells, column)}
      blank  == \A k \in DOMAIN cells : Blank(cells[k])
  IN  /\ phase = "validating" /\ next < Len(rows)
      /\ next' = next + 1
      /\ errors' = IF blank THEN errors ELSE errors \cup {[line |-> next + 1, column |-> c] : c \in failed}
      /\ accepted' = IF blank \/ failed \ {"name"} # {} THEN accepted ELSE Append(accepted, Parsed(cells, next + 1))
      /\ UNCHANGED <<file, src, i, tokenizer, phase, warnings, total>>

\* One of the data rows; lineNumber counts the rows that are left, from the header.
ValidateRow ==
  LET cells == rows[next + 1]
      failed == {column \in Required : ColumnFails(cells, column)}
      blank  == \A k \in DOMAIN cells : Blank(cells[k])
  IN  /\ phase = "validating" /\ next < Len(rows)
      /\ next' = next + 1
      /\ errors' = IF blank THEN errors ELSE errors \cup {[line |-> next + 1, column |-> c] : c \in failed}
      /\ accepted' = IF blank \/ failed # {} THEN accepted ELSE Append(accepted, Parsed(cells, next + 1))
      /\ UNCHANGED <<file, src, i, tokenizer, phase, warnings, total>>

\* Lines of the accepted rows with the number and the amount of r.
Same(r) == {q.line : q \in {p \in Range(accepted) : p.msisdn = r.msisdn /\ p.cents = r.cents}}

Report ==
  /\ phase = "validating" /\ next = Len(rows)
  /\ phase' = "done"
  /\ warnings' = {Same(r) : r \in {q \in Range(accepted) : Cardinality(Same(q)) > 1}}
  /\ total' = FoldLeft(LAMBDA sum, r : sum + r.cents, 0, accepted)
  /\ UNCHANGED <<file, src, i, tokenizer, next, accepted, errors>>

Next == ReadText \/ MapColumns \/ ValidateRow \/ Report

Spec == Init /\ [][Next]_vars

-----------------------------------------------------------------------------
\* The lines that are rows.
Kept == SelectSeq(file.lines, LAMBDA line : ~SaysNothing(line, file))

Meant(k) ==
  LET name == IF file.style = "exported" THEN Guarded(Kept[k].name) ELSE Kept[k].name
  IN  [line |-> k + 1, name |-> Trim(name), msisdn |-> Canonical(Kept[k].subscriber), cents |-> Kept[k].cents]

(* "Quoted fields, embedded commas, embedded newlines and escaped quotes   *)
(* are supported" (csv.ts:6): the grid is the cells that were written,     *)
(* however they were quoted, separated and ended.  Files in the style of   *)
(* an export of SOLVAREN are among them, with cells that have no ; and no  *)
(* tab: export-csv.ts quotes neither, and those move to another column.    *)
GridIsAsWritten ==
  phase = "read" =>
    rows = <<[k \in DOMAIN file.header |-> <<file.header[k]>>]>> \o
           [k \in DOMAIN Kept |->
              [n \in DOMAIN file.header |->
                 IF file.style = "exported" THEN Guarded(Cells(Kept[k], file)[n]) ELSE Cells(Kept[k], file)[n]]]

(* "a mis-parsed amount is a mis-paid salary" (money.ts:25): a line that   *)
(* means a payment becomes that payment, to the number and with the amount *)
(* that was meant; any other line that says something gets a reason; and   *)
(* the total is that of the payments.                                      *)
AnswersAreTrue ==
  LET payments == {k \in DOMAIN Kept : IsPayment(Kept[k])}
      silent   == {k \in DOMAIN Kept : \A n \in DOMAIN file.header : Blank(Cells(Kept[k], file)[n])}
  IN  phase = "done" =>
        /\ Range(accepted) = {Meant(k) : k \in payments} /\ Len(accepted) = Cardinality(payments)
        /\ {e.line : e \in errors} = {k + 1 : k \in DOMAIN Kept \ (payments \cup silent)}
        /\ total = MapThenSumSet(LAMBDA k : Kept[k].cents, payments)

(* "Rejects anything else outright" (money.ts:24): whatever an amount is   *)
(* read as, it is what was meant on that line, or the line is refused.     *)
AcceptedIsMeant ==
  phase = "done" => \A r \in Range(accepted) : \E k \in DOMAIN Kept : r = Meant(k)

(* "same number, same amount, twice in one payroll run" (csv.ts:328) is    *)
(* found however the number and the amount are written, and nothing else   *)
(* is.                                                                     *)
DuplicatesAreFound ==
  LET payments   == {k \in DOMAIN Kept : IsPayment(Kept[k])}
      Twice(j, k) == Kept[j].subscriber = Kept[k].subscriber /\ Kept[j].cents = Kept[k].cents
  IN  phase = "done" =>
        \A j, k \in payments :
          j # k => (Twice(j, k) <=> \E lines \in warnings : {j + 1, k + 1} \subseteq lines)
=============================================================================
