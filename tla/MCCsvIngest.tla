----------------------------- MODULE MCCsvIngest -----------------------------
(***************************************************************************)
(* CsvIngest for TLC: the headers and lines that the files of              *)
(* csv_upload.cfg and find_amount.cfg are made of.                         *)
(***************************************************************************)
EXTENDS CsvIngest

Line(name, phone, subscriber, amount, cents, remarks) ==
  [name |-> name, phone |-> phone, subscriber |-> subscriber, amount |-> amount, cents |-> cents,
   remarks |-> remarks]

MCHeaders == {<<"name", "phone", "amount">>, <<"amount", "remarks", "phone", "name">>, <<"name", "amount">>}

MCLines == {
  Line(<<"J">>, <<"0", "s">>, "s", <<"1", "5", ",", "0", "0", "0">>, 1500000, <<>>),
  Line(<<"D", ",", " ", "J">>, <<"+", "K", " ", "s">>, "s", <<"K", "E", "S">>, 0, <<"n">>),
  Line(<<" ", "J">>, <<"0", "0", "K", "s">>, "s", <<"KES", " ", "1", "5", "0", "0", "0", ".", "0">>, 1500000, <<"n", "\n", "m">>),
  Line(<<"O", "\"">>, <<"t">>, "t", <<"2", "5", "0", "0", "0", "0">>, 25000000, <<"\"", "a", "\"">>),
  Line(<<"=", "x">>, <<"(", "0", "t", ")">>, "t", <<"2", "5", "0", "0", "0", "1">>, 25000100, <<" ">>),
  Line(<<"-", "y">>, <<"K", "t">>, "t", <<"1", "0">>, 1000, <<"'">>),
  Line(<<>>, <<"0", "s">>, "s", <<"1", "0", ".", "0", "0">>, 1000, <<>>),
  Line(<<"J">>, <<"0", "-", "s">>, "s", <<"1", "0", ".", "5">>, 1050, <<>>),
  Line(<<"J", "J", "J", "J", "J">>, <<"0", "u">>, "u", <<"=", "1", "0">>, 0, <<";">>),
  Line(<<"J">>, <<"K", "0", "s">>, "none", <<>>, 0, <<"\r">>),
  Line(<<" ">>, <<>>, "none", <<>>, 0, <<>>),
  Line(<<>>, <<>>, "none", <<>>, 0, <<>>)}
=============================================================================
