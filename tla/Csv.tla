--------------------------------- MODULE Csv ---------------------------------
(***************************************************************************)
(* The text that utility_functions::jsontao::save_to_csv makes of a table   *)
(* and the table that from_csv_file makes of a text.  Both are pure here;   *)
(* SaveFiles has the files.                                                 *)
(*                                                                         *)
(* A text is a sequence of characters, one of each kind the code tells      *)
(* apart: a digit, the point, the letter e, small or capital, any other     *)
(* letter, the minus, a blank, CR, and the separators.  "T" stands for a    *)
(* whole word: any spelling of true or false.  The texts have no other      *)
(* beginning of a number (+, inf, nan, hexadecimal).  A table is a sequence *)
(* of rows, a row a function from keys (texts of their own) to values, or   *)
(* NotObject; a value has the text it prints as.                            *)
(***************************************************************************)
EXTENDS Integers, SequencesExt, FiniteSets

CONSTANTS
  Longs, Doubles, \* [numeral -> text]: those std::stoll and std::stod can hold, as they print
  Rank        \* [key -> Nat]: how the std::map of an object orders its keys

ASSUME RankAssumption ==
  /\ Rank \in [DOMAIN Rank -> Nat] /\ DOMAIN Rank \subseteq Seq(STRING)
  /\ \A k, l \in DOMAIN Rank : Rank[k] = Rank[l] => k = l

Comma == ","
NewLine == "/"
CR == "r"
Blank == " "
Point == "."
Digit == "1"
Exp == "e"
Sign == "-"
Word == "T"

NotObject == [object |-> FALSE]
Row(cells) == [object |-> TRUE, cells |-> cells]
Value(kind, text) == [kind |-> kind, text |-> text]

-----------------------------------------------------------------------------
(* The parts of s that end at the given positions.                          *)
CutAt(s, ends) ==
  LET End(k) == IF k = 0 THEN 0 ELSE CHOOSE e \in ends : Cardinality({f \in ends : f <= e}) = k
  IN [k \in 1 .. Cardinality(ends) |-> SubSeq(s, End(k - 1) + 1, End(k) - 1)]
(* What std::getline takes out of s one after the other: nothing follows a  *)
(* separator that ends s.                                                   *)
Ends(s, sep) == {i \in DOMAIN s : s[i] = sep}
Pieces_KeepsEmptyEnd(s, sep) == CutAt(s, Ends(s, sep) \cup {Len(s) + 1})
Pieces(s, sep) ==
  CutAt(s, IF s = << >> \/ Last(s) = sep THEN Ends(s, sep) ELSE Ends(s, sep) \cup {Len(s) + 1})

Trim(s, blanks) ==
  LET kept == {i \in DOMAIN s : s[i] \notin blanks}
  IN IF kept = {} THEN << >> ELSE SubSeq(s, Min(kept), Max(kept))

(* The spellings of numbers: digits with a point among them or none, then   *)
(* perhaps e and whole digits, a minus before either.                       *)
IsNumeral(p) ==
  /\ Range(p) \subseteq {Digit, Point, Exp, Sign}
  /\ \E i \in DOMAIN p : p[i] = Digit /\ \A j \in 1 .. i : p[j] # Exp
  /\ \A i, j \in DOMAIN p :
       /\ p[i] = p[j] /\ p[i] \in {Point, Exp} => i = j
       /\ p[i] = Exp => p[Len(p)] = Digit /\ (p[j] = Point => j < i)
       /\ p[i] = Sign => i = 1 \/ p[i - 1] = Exp
(* The longest beginning of s that std::stoll, or std::stod, takes for a    *)
(* number.  Whatever follows it is ignored.                                 *)
Numeral(s) ==
  LET lengths == {n \in 0 .. Len(s) : IsNumeral(SubSeq(s, 1, n))}
  IN SubSeq(s, 1, IF lengths = {} THEN 0 ELSE Max(lengths))

(* A number prints as a number.                                             *)
ASSUME NumbersAssumption ==
  \A numbers \in {Longs, Doubles} :
    /\ numbers \in [DOMAIN numbers -> Seq(STRING)] /\ << >> \notin DOMAIN numbers
    /\ \A n \in DOMAIN numbers : IsNumeral(numbers[n])

(* A cell with a point or an e anywhere, as in true and false, goes to      *)
(* std::stod; a number that does not fit leaves it the string it was.       *)
Numbers(cell) == IF Range(cell) \cap {Point, Exp, Word} # {} THEN Doubles ELSE Longs
Parse(cell) ==
  LET number == Numeral(cell) IN
  IF cell = << Word >> THEN Value("bool", cell)
  ELSE IF number \in DOMAIN Numbers(cell) THEN Value("number", Numbers(cell)[number])
  ELSE Value("string", cell)

Without(s, c) == FlattenSeq([i \in DOMAIN s |-> IF s[i] = c THEN << >> ELSE << s[i] >>])
Headers(line) ==
  LET h == Pieces(line, Comma) IN [k \in DOMAIN h |-> Trim(h[k], {Blank, CR})]
Cells_NotEmpty(line) == SelectSeq(Pieces(Without(line, CR), Comma), LAMBDA c : c # << >>)
Cells(line) == Pieces(Without(line, CR), Comma)
Loaded(headers, line) ==
  LET cells == Cells(line)
      n     == Min({Len(cells), Len(headers)})
      (* a header that comes twice takes the later cell                    *)
      At(key) == Max({k \in 1 .. n : headers[k] = key})
  IN Row([key \in {headers[k] : k \in 1 .. n} |-> Parse(Trim(cells[At(key)], {Blank}))])
from_csv(text) ==
  LET lines == Pieces(text, NewLine)
  IN IF text = << >> THEN << >>
     ELSE [k \in 1 .. Len(lines) - 1 |-> Loaded(Headers(lines[1]), lines[k + 1])]

-----------------------------------------------------------------------------
(* The keys of a row in the order of the map that holds them.               *)
Keys(row) ==
  LET keys == DOMAIN row.cells
  IN [n \in 1 .. Cardinality(keys) |->
        CHOOSE k \in keys : Cardinality({l \in keys : Rank[l] <= Rank[k]}) = n]

Joined(cells) ==
  FlattenSeq([k \in DOMAIN cells |-> IF k = 1 THEN cells[k] ELSE << Comma >> \o cells[k]])
Printed(keys, row) ==
  Joined([k \in DOMAIN keys |-> IF keys[k] \in DOMAIN row.cells THEN row.cells[keys[k]].text ELSE << >>])
to_csv(table) ==
  LET keys == Keys(table[1])
      Rows == [k \in DOMAIN table |->
                 IF table[k].object THEN Printed(keys, table[k]) \o << NewLine >> ELSE << >>]
  IN Joined(keys) \o << NewLine >> \o FlattenSeq(Rows)

-----------------------------------------------------------------------------
(* What a table is: a number prints as one, a bool as its word, a row has    *)
(* the keys of an object.                                                    *)
IsValue(v) ==
  /\ v \in [kind : {"string", "number", "bool", "null"}, text : Seq(STRING)]
  /\ v.kind = "number" => IsNumeral(v.text)
  /\ v.kind = "bool" => v.text = << Word >>
IsRow(row) ==
  \/ row = NotObject
  \/ /\ row = Row([key \in DOMAIN row.cells |-> row.cells[key]])
     /\ DOMAIN row.cells \subseteq DOMAIN Rank /\ IsFiniteSet(DOMAIN row.cells)
     /\ \A key \in DOMAIN row.cells : IsValue(row.cells[key])
IsTable(table) ==
  table \in Seq(Range(table)) /\ \A i \in DOMAIN table : IsRow(table[i])

(* What a table must be for a CSV file to hold it.                          *)
PlainString(text) ==
  /\ Range(text) \cap {Comma, NewLine, CR} = {}
  /\ Trim(text, {Blank}) = text /\ text # << Word >>
  /\ Numeral(text) \notin DOMAIN Numbers(text)
PlainValue(v) ==
  CASE v.kind = "string" -> PlainString(v.text)
    [] v.kind = "number" -> v.text \in DOMAIN Numbers(v.text) /\ Numbers(v.text)[v.text] = v.text
    [] OTHER             -> v.kind = "bool"
(* getline does not see an empty cell at the end of a line, so the last     *)
(* column may be missing but not be empty.                                  *)
Plain(table) ==
  LET keys == DOMAIN table[1].cells
      last == {k \in keys : \A l \in keys : Rank[l] <= Rank[k]}
  IN \A i \in DOMAIN table :
       /\ table[i].object /\ DOMAIN table[i].cells \in {keys, keys \ last}
       /\ \A key \in DOMAIN table[i].cells :
            LET v == table[i].cells[key]
            IN /\ PlainValue(v) /\ (key \in last => v.text # << >> /\ key # << >>)
               /\ Trim(key, {Blank, CR}) = key /\ Range(key) \cap {Comma, NewLine} = {}
=============================================================================
