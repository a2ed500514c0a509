---------------------------- MODULE MCProcessFiles ----------------------------
(* Two threads on two files: their calls save two tables of different length, *)
(* an empty one and one that begins with no object.  Beside them two that     *)
(* check ports of which there are three, 0 among them.                        *)
EXTENDS ProcessFiles
CONSTANTS t1, t2, k1, k2
MCThread == {t1, t2}
MCChecker == {k1, k2}
MCSymmetry == Permutations(MCThread) \cup Permutations(MCChecker)
Str(s) == Value("string", s)
Num(s) == Value("number", s)
KeyA == << "a" >>
KeyB == << "b" >>
(* Keys in their order: none, two of a letter, some that no file gives back.  *)
OddKeys == << << "a", Comma >>, << "a", Blank >>, << "a", CR >>, << "a", CR, "a" >>, << "a", NewLine >> >>
MCKeys == << << >>, KeyA >> \o OddKeys \o << KeyB >>
MCRank == [key \in Range(MCKeys) |-> CHOOSE n \in DOMAIN MCKeys : MCKeys[n] = key]
MCTables ==
  [P |-> << Row(KeyA :> Num(<< Digit >>)), Row(KeyA :> Value("bool", << Word >>)) >>,
   Q |-> << Row(KeyA :> Str(<< "x" >>)) >>,
   E |-> << >>,
   N |-> << NotObject, Row(KeyA :> Num(<< Digit >>)) >>]
(* Whole numbers of up to two digits are a long long, and a double has one    *)
(* digit behind its point or its e; others are rounded.                       *)
MCLongs == [n \in {<< Digit >>, << Digit, Digit >>, << Sign, Digit >>} |-> n]
MCPrinted == {<< Digit, Point, Digit >>, << Sign, Digit, Point, Digit >>, << Digit, Exp, Digit >>}
MCDoubles ==
  [n \in MCPrinted \cup {<< Digit >>, << Digit, Digit >>, << Digit, Digit, Digit >>,
                         << Digit, Point >>, << Point, Digit >>} |->
     IF n \in MCPrinted THEN n ELSE IF n = << Digit, Digit, Digit >> THEN << Digit, Exp, Digit >>
     ELSE << Digit, Point, Digit >>]
(* Every text of up to two characters as a string, and what else a cell may   *)
(* hold, beside a short cell in either column, or alone in its row.           *)
MCChar == {Digit, Point, Exp, Sign, "x", Blank, CR, Comma, NewLine, Word}
MCNumerals == {<< Digit, Digit >>, << Sign, Digit >>, << Digit, Digit, Digit >>, << Digit, Point, Digit >>,
               << Digit, Exp, Digit >>, << Digit, Exp, Digit, Digit >>}
MCCells == {Str(s) : s \in UNION {[1 .. n -> MCChar] : n \in 0 .. 2}}
           \cup {Num(n) : n \in MCNumerals} \cup {Str(n) : n \in MCNumerals}
           \cup {Str(<< Digit, Digit, Digit, Exp >>), Str(<< Digit, Exp, Digit, Digit, Exp >>),
                 Str(<< Digit, Digit, Digit, Word >>), Value("bool", << Word >>), Value("null", << "x" >>)}
MCCsvTables ==
  {<< Row((KeyA :> v) @@ (KeyB :> w)), Row((KeyA :> w) @@ (KeyB :> v)) >> :
     v \in MCCells, w \in {Str(<< >>), Str(<< "x" >>), Num(<< Digit >>)}}
  \cup {<< Row((KeyA :> v) @@ (KeyB :> Num(<< Digit >>))) >> : v \in MCCells}
  \cup {<< Row(KeyA :> v) >> : v \in MCCells} \cup {<< Row(KeyA :> v), NotObject >> : v \in MCCells}
  \cup {<< Row((KeyA :> v) @@ (KeyB :> v)), Row(KeyA :> v) >> : v \in MCCells}
  \cup {<< Row(key :> Num(<< Digit >>)) >> : key \in Range(MCKeys)}
  \cup {<< Row((key :> v) @@ (KeyB :> v)) >> : key \in Range(MCKeys) \ {KeyB}, v \in MCCells}
  \cup {<< Row(<< >>), Row(key :> Str(<< "x" >>)) >> : key \in Range(MCKeys)}
  \cup {<< Row(<< >>), Row(<< >>) >>, << Row(KeyA :> Str(<< "x" >>)), Row(<< >>), Row(KeyB :> Str(<< "x" >>)) >>}
Ask(lib, op, ext, path, doc, chunk) ==
  [lib |-> lib, op |-> op, ext |-> ext, path |-> path, doc |-> doc, chunk |-> chunk]
MCMenu ==
  {Ask("jsontao", "save", "csv", "csv", d, 1) : d \in {"P", "Q", "E", "N"}}
  \cup {Ask("jsontao", "save", "json", "json", "P", 1), Ask("jsontao", "save", "csv", "json", "Q", 1),
        Ask("jsoncpp", "save", "csv", "csv", "P", 1), Ask("jsoncpp", "load", "json", "csv", "P", 1)}
  \cup {Ask("jsontao", "load", "csv", "csv", "P", 1)}
  \cup {Ask(l, "load", "json", "json", "P", 1) : l \in {"jsontao", "jsoncpp"}}
  \cup {Ask("file", "save", "raw", "json", "Q", 1)}
  \cup {Ask("file", "load", "raw", "json", "P", n) : n \in 0 .. 2}
MCPortArg == {-1, 1, 2, 3}
MCDenied == {1}
=============================================================================
