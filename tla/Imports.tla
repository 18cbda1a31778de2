------------------------------- MODULE Imports -------------------------------
(***************************************************************************)
(* `mkt portfolio import`: a broker's CSV file becomes transactions, and   *)
(* those that a portfolio does not have yet are appended to its log.       *)
(*                                                                         *)
(* A file is a sequence of lines, a line a sequence of cells, and a cell a *)
(* sequence of words; header cells are in lower case.                      *)
(***************************************************************************)
EXTENDS Integers, Sequences, SequencesExt, FiniteSets

GenericColumns == {<<"date">>, <<"type">>, <<"symbol">>, <<"quantity">>, <<"price">>}
SchwabColumns == {<<"date">>, <<"action">>, <<"symbol">>, <<"quantity">>, <<"price">>}
Formats == <<"generic", "schwab">>

Columns(format) == IF format = "generic" THEN GenericColumns ELSE SchwabColumns

DetectsGeneric(header) == GenericColumns \subseteq ToSet(header)

DetectsSchwab(header) ==
  /\ Contains(header, <<"action">>)
  /\ \/ Contains(header, <<"fees & comm">>)
     \/ Cardinality(SchwabColumns \cap ToSet(header)) >= 4

(* The first format, in their order, that knows the first line that is not *)
(* empty.                                                                  *)
Detect(file) ==
  LET lines == SelectSeq(file, LAMBDA l : l # <<>>)
      knows(f) == IF f = "generic" THEN DetectsGeneric(Head(lines)) ELSE DetectsSchwab(Head(lines))
      known == SelectSeq(Formats, knows)
  IN IF lines = <<>> \/ known = <<>> THEN "none" ELSE Head(known)

(* "$", "," and ")" are dropped and "(" is a minus; what is left is one    *)
(* number or none.                                                         *)
StripNumeric(cell) ==
  LET kept == SelectSeq(cell, LAMBDA w : w \notin {"$", ",", ")", " "})
  IN [i \in 1..Len(kept) |-> IF kept[i] = "(" THEN "-" ELSE kept[i]]

Digits == [w \in {"0", "1", "2", "5"} |-> CASE w = "0" -> 0 [] w = "1" -> 1 [] w = "2" -> 2 [] w = "5" -> 5]
IsNumber(words) ==
  \/ Len(words) = 1 /\ words[1] \in DOMAIN Digits
  \/ Len(words) = 2 /\ words[1] = "-" /\ words[2] \in DOMAIN Digits
NumberOf(words) == IF Len(words) = 1 THEN Digits[words[1]] ELSE -Digits[words[2]]

ActionOf(format, cell) ==
  CASE format = "generic" ->
         (CASE cell = <<"buy">> -> "buy" [] cell = <<"sell">> -> "sell"
            [] cell \in {<<"dividend">>, <<"div">>} -> "dividend" [] OTHER -> "none")
    [] IsPrefix(<<"buy">>, cell) -> "buy"
    [] IsPrefix(<<"sell">>, cell) -> "sell"
    [] format = "schwab" /\ (Contains(cell, "dividend") \/ Contains(cell, "reinvest")) -> "dividend"
    [] OTHER -> "none"

RefusedRow == [type |-> "refused"]

(* The last of two columns of one name counts; a cell past the end of its  *)
(* row is empty; a fee that is no number is none.                          *)
ParseRow(format, header, row) ==
  LET at(name) == {i \in 1..Len(row) : i <= Len(header) /\ header[i] = name
                                         /\ \A j \in (i + 1)..Len(header) : header[j] # name}
      cell(name) == IF at(name) = {} THEN <<>> ELSE row[CHOOSE i \in at(name) : TRUE]
      number(name) == StripNumeric(cell(name))
      type == ActionOf(format, cell(IF format = "generic" THEN <<"type">> ELSE <<"action">>))
      fee == number(IF format = "generic" THEN <<"fee">> ELSE <<"fees & comm">>)
  IN IF type = "none" \/ ~IsNumber(number(<<"quantity">>)) \/ ~IsNumber(number(<<"price">>))
     THEN RefusedRow
     ELSE [type |-> type, symbol |-> cell(<<"symbol">>), date |-> cell(<<"date">>),
           qty |-> NumberOf(number(<<"quantity">>)), price |-> NumberOf(number(<<"price">>)),
           fee |-> IF IsNumber(fee) THEN NumberOf(fee) ELSE 0]

(* A file without rows has no transactions; a row that cannot be read is   *)
(* skipped, a column that is missing refuses the file.                     *)
Parse(format, file) ==
  LET rows == SelectSeq(file, LAMBDA l : l # <<>>)
      read == [i \in 1..(Len(rows) - 1) |-> ParseRow(format, Head(rows), rows[i + 1])]
  IN IF rows = <<>> THEN [ok |-> TRUE, txs |-> <<>>]
     ELSE [ok |-> Columns(format) \subseteq ToSet(Head(rows)),
           txs |-> SelectSeq(read, LAMBDA t : t # RefusedRow)]

(* What makes two rows one transaction: a broker revises fees.             *)
TxKey(t) == <<t.date, t.type, t.symbol, t.qty, t.price>>

(* Matching counts: each recorded transaction accounts for one incoming.   *)
NewTransactions(existing, incoming, force) ==
  LET count(txs, k) == Cardinality({i \in 1..Len(txs) : TxKey(txs[i]) = k})
      fresh == {i \in 1..Len(incoming) :
                  count(SubSeq(incoming, 1, i), TxKey(incoming[i])) > count(existing, TxKey(incoming[i]))}
      places == SelectSeq([i \in 1..Len(incoming) |-> i], LAMBDA i : i \in fresh)
  IN IF force THEN incoming ELSE [n \in 1..Len(places) |-> incoming[places[n]]]

(* One command on a configuration [degraded, logs], logs by portfolio.     *)
(* The result says whether it is to be saved; what a degraded             *)
(* configuration may overwrite is the store's decision.                    *)
Import(cfg, file, asked, name, dryRun, force) ==
  LET format == IF asked = "auto" THEN Detect(file) ELSE asked
      parsed == Parse(format, file)
      had == IF name \in DOMAIN cfg.logs THEN cfg.logs[name] ELSE <<>>
      fresh == NewTransactions(had, parsed.txs, force)
  IN IF format \notin ToSet(Formats) THEN [ok |-> FALSE, save |-> FALSE, logs |-> cfg.logs]
     ELSE IF ~parsed.ok THEN [ok |-> FALSE, save |-> FALSE, logs |-> cfg.logs]
     ELSE IF dryRun \/ fresh = <<>> THEN [ok |-> ~cfg.degraded, save |-> FALSE, logs |-> cfg.logs]
     ELSE [ok |-> TRUE, save |-> TRUE,
           logs |-> [n \in DOMAIN cfg.logs \cup {name} |->
                       IF n = name THEN had \o fresh ELSE cfg.logs[n]]]
=============================================================================
