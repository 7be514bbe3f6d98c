-------------------------------- MODULE Csv ---------------------------------
(***************************************************************************)
(* Tables as JSON: pkg/lib/csv.  A table is what renderCSV, the CSV reader *)
(* of Go, makes of the file: a sequence of rows, which are sequences of    *)
(* cells and need not be of one length.  A result is a sequence of JSON    *)
(* objects, or a word that says how the conversion ends without one.       *)
(***************************************************************************)
EXTENDS Naturals, SequencesExt

CONSTANTS
  Reads,     \* what a cell that is not empty is read as, by type
  Comments,  \* the cells that begin with "#"
  Trim       \* the cells that are other without the blanks around them

Types == {"string", "int64", "int", "float64", "bool", "string,array", "int64,array",
          "int,array", "float64,array", "bool,array", "json"}
SkipColumn == [type |-> "SKIP_COLUMN", ptr |-> FALSE]
Unreadable == <<"unreadable">>
Trimmed(c) == IF c \in DOMAIN Trim THEN Trim[c] ELSE c

Pointer(type) == "*" \o type

(* No text is read as two types. *)
ASSUME TypesAssumption ==
  \A t, u \in Types : Pointer(t) \notin Types /\ (Pointer(t) = Pointer(u) => t = u)

(* isValidFormat: the types, and "*" for those whose empty cells are null. *)
Format(c) == {[type |-> t, ptr |-> p] : t \in {u \in Types : c \in {u, Pointer(u)}},
                                         p \in {c \notin Types}}

(* int,array passes isValidFormat, but getTyped knows nothing of it. *)
getTyped(c, type) ==
  CASE type = "int,array" -> Unreadable
    [] type = "string" -> <<"string", c>>
    [] c = "" /\ type \in {"int64", "int", "float64"} -> <<"number", 0>>
    [] c = "" /\ type = "bool" -> <<"bool", FALSE>>
    [] c = "" /\ type = "json" -> <<"null">>
    [] c = "" /\ type \in {"string,array", "int64,array", "float64,array", "bool,array"} ->
         <<"array", << >>>>
    [] c # "" /\ type \notin {"string", "int,array"} ->
         IF c \in DOMAIN Reads[type] THEN Reads[type][c] ELSE Unreadable

Typed(c, info) == IF info.ptr /\ c = "" THEN <<"null">> ELSE getTyped(c, info.type)

(* A row under columns [name, info]: of two columns of one name the last one
   wins, and a short row has no keys for the columns it lacks. *)
RowObject(columns, row) ==
  LET read == {k \in DOMAIN row \cap DOMAIN columns : columns[k].info # SkipColumn}
      lastOf(n) == CHOOSE k \in read : columns[k].name = n
                   /\ \A j \in read : columns[j].name = n => j <= k
      f == [n \in {columns[k].name : k \in read} |-> Typed(row[lastOf(n)], columns[lastOf(n)].info)]
  IN  IF \E k \in read : getTyped(row[k], columns[k].info.type) = Unreadable THEN Unreadable
      ELSE <<"object", f, << >>>>

Objects(columns, rows) ==
  LET objects == [i \in DOMAIN rows |-> RowObject(columns, rows[i])]
  IN  IF Unreadable \in Range(objects) THEN <<"error">> ELSE <<"array", objects>>

(* Mutant: the columns that are left out are not in the list of columns. *)
extractHeaderInformation_Shifts(names, formats) ==
  LET kept == SelectSeq([k \in 1 .. Len(names) |-> k],
                        LAMBDA k : k <= Len(formats) /\ Format(formats[k]) # {}
                                   /\ Trimmed(names[k]) # "")
  IN  [i \in DOMAIN kept |-> [name |-> Trimmed(names[kept[i]]),
                              info |-> CHOOSE f \in Format(formats[kept[i]]) : TRUE]]

(* The columns of a typed table: those without a format or a name are left
   out; << >> stands for an invalid format. *)
extractHeaderInformation(names, formats) ==
  LET columns == {k \in DOMAIN names : k <= Len(formats)}
      blank(k) == Format(formats[k]) = {} /\ Trimmed(formats[k]) = "" IN
  IF \E k \in columns : Format(formats[k]) = {} /\ ~blank(k) THEN << >>
  ELSE [k \in columns |->
          [name |-> Trimmed(names[k]),
           info |-> IF blank(k) \/ Trimmed(names[k]) = "" THEN SkipColumn
                    ELSE CHOOSE f \in Format(formats[k]) : TRUE]]

removeEmptyRowsAndComments(rows) ==
  LET empty(row) == row[1] \in Comments \/ \A i \in DOMAIN row : row[i] = ""
      output[n \in 0 .. Len(rows)] ==
        IF n = 0 THEN << >>
        ELSE IF empty(rows[n]) THEN output[n - 1]
        ELSE Append(output[n - 1], rows[n])
  IN  output[Len(rows)]

(* Less than the two rows for names and formats end in a panic.  A table << >> is an
   input of line ends only; no input at all is an error before, see Convert. *)
CSVToMap(table) ==
  LET records == removeEmptyRowsAndComments(table) IN
  IF Len(records) < 2 THEN <<"panic">>
  ELSE LET columns == extractHeaderInformation(records[1], records[2])
       IN  IF columns = << >> THEN <<"error">> ELSE Objects(columns, SubSeq(records, 3, Len(records)))

(* So does one that has nothing but line ends. *)
GenericCSVToMap(table) ==
  IF table = << >> THEN <<"panic">>
  ELSE Objects([k \in DOMAIN table[1] |-> [name |-> Trimmed(table[1][k]),
                                          info |-> [type |-> "string", ptr |-> FALSE]]],
               Tail(table))
=============================================================================
