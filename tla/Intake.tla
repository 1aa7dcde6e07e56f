------------------------------- MODULE Intake -------------------------------
(***************************************************************************)
(* How a file becomes an import: the wizard of the web application         *)
(* (ImportWizard), preview and the checks of create (ImportsService), the  *)
(* fields and the template of a type (ImportHandlerRegistry and the two    *)
(* handlers) and the parser (ImportParser).                                *)
(*                                                                         *)
(* A text is the sequence of its characters, of which q is the quote, n a  *)
(* line feed and r a carriage return; names of columns stand normalised.   *)
(* In the wizard a cell is reduced to what validation asks of it: its      *)
(* length and its digits. The e-mails and sites of the samples are well    *)
(* formed.                                                                 *)
(***************************************************************************)
EXTENDS CheckDigits, Integers, FiniteSets

CONSTANTS
  Sheets,      \* the files at hand, by name
  MaxSize,     \* importMaxFileSizeBytes
  MaxRows,     \* importMaxRows
  HandKeys,    \* bound: fields that are mapped by hand
  MaxChanges,  \* bound: changes of the form
  Cells        \* the texts of the tables that are written and read

VARIABLES
  wizard,   \* the form: its inputs, the preview shown and the answer awaited
  request,  \* the import asked for and what became of it
  reader    \* parseDelimited: the table written, and how far its text is read

intakeVars == <<wizard, request, reader>>

-----------------------------------------------------------------------------
(* The fields of a type and its template *)

Field(key, aliases, required) == [key |-> key, aliases |-> aliases, required |-> required]

CustomerFields ==
  <<Field("name", <<"nome", "name", "cliente", "razao_social">>, TRUE),
    Field("document", <<"documento", "cpf_cnpj", "cpf", "cnpj", "document">>, TRUE),
    Field("email", <<"email", "e_mail">>, FALSE),
    Field("phone", <<"telefone", "phone", "celular">>, FALSE),
    Field("postalCode", <<"cep", "postal_code">>, FALSE),
    Field("city", <<"cidade", "city">>, FALSE),
    Field("state", <<"estado", "uf", "state">>, FALSE)>>

CarrierFields ==
  <<Field("name", <<"nome", "name", "transportadora", "carrier">>, TRUE),
    Field("code", <<"codigo", "code", "cod">>, TRUE),
    Field("document", <<"cnpj", "documento", "document">>, FALSE),
    Field("legalName", <<"razao_social", "legal_name">>, FALSE),
    Field("email", <<"email", "e_mail">>, FALSE),
    Field("phone", <<"telefone", "phone">>, FALSE),
    Field("contactName", <<"contato", "contact", "contact_name">>, FALSE),
    Field("site", <<"site", "website">>, FALSE)>>

Fields(type) == IF type = "CUSTOMERS" THEN CustomerFields ELSE CarrierFields

\* The keys normalizeHeader leaves unlike themselves.
NormalizedKey(key) ==
  CASE key = "postalCode" -> "postalcode" [] key = "legalName" -> "legalname"
    [] key = "contactName" -> "contactname" [] OTHER -> key

Names(f) == <<NormalizedKey(f.key)>> \o f.aliases

\* The first name of a field, its key before its aliases, that is a header.
Match(f, headers) ==
  LET i == CHOOSE i \in DOMAIN Names(f) :
             Names(f)[i] \in headers /\ \A j \in 1 .. i - 1 : Names(f)[j] \notin headers
  IN Names(f)[i]

\* autoMapping: the fields with such a name, by key.
AutoMapping(type, headers) ==
  LET matched == {f \in Range(Fields(type)) : Range(Names(f)) \cap headers # {}}
  IN [key \in {f.key : f \in matched} |-> Match(CHOOSE f \in matched : f.key = key, headers)]

MissingRequiredFields(type, mapping) ==
  {f.key : f \in {g \in Range(Fields(type)) : g.required}} \ DOMAIN mapping

\* normalizeMapping drops what is not mapped.
NormalizeMapping(mapping) ==
  [key \in {k \in DOMAIN mapping : mapping[k] # ""} |-> mapping[key]]

\* template: a column for each field under its first alias.
TemplateColumns(type) == [i \in DOMAIN Fields(type) |-> Fields(type)[i].aliases[1]]

Cell(len, digits) == [len |-> len, digits |-> digits]

\* sampleRows of the two handlers.
CustomerSamples ==
  <<<<Cell(13, << >>), Cell(14, <<1, 1, 2, 2, 2, 3, 3, 3, 0, 0, 0, 1, 8, 1>>), Cell(26, << >>),
      Cell(11, <<1, 1, 9, 9, 9, 9, 9, 0, 0, 0, 0>>), Cell(8, <<2, 0, 0, 4, 0, 0, 0, 2>>),
      Cell(14, << >>), Cell(2, << >>)>>,
    <<Cell(9, << >>), Cell(11, <<1, 2, 3, 4, 5, 6, 7, 8, 9, 0, 9>>), Cell(20, << >>),
      Cell(11, <<2, 1, 9, 8, 8, 8, 8, 7, 7, 7, 7>>), Cell(8, <<3, 0, 1, 4, 0, 0, 7, 1>>),
      Cell(14, << >>), Cell(2, << >>)>>>>

CarrierSamples ==
  <<<<Cell(18, << >>), Cell(6, << >>), Cell(14, <<2, 2, 3, 3, 3, 4, 4, 4, 0, 0, 0, 1, 9, 1>>),
      Cell(21, << >>), Cell(18, << >>), Cell(10, <<1, 1, 3, 3, 3, 3, 4, 4, 4, 4>>),
      Cell(9, << >>), Cell(18, << >>)>>,
    <<Cell(15, << >>), Cell(9, << >>), Cell(14, <<3, 3, 4, 4, 4, 5, 5, 5, 0, 0, 0, 1, 4, 4>>),
      Cell(20, << >>), Cell(17, << >>), Cell(10, <<1, 1, 3, 3, 3, 3, 5, 5, 5, 5>>),
      Cell(9, << >>), Cell(21, << >>)>>>>

Template(type) ==
  LET columns == TemplateColumns(type)
      samples == IF type = "CUSTOMERS" THEN CustomerSamples ELSE CarrierSamples
  IN [headers |-> columns, size |-> 1, extension |-> "csv", formula |-> FALSE,
      rows |-> {[h \in Range(columns) |-> samples[k][CHOOSE i \in DOMAIN columns : columns[i] = h]] :
                k \in DOMAIN samples}]

-----------------------------------------------------------------------------
(* Validation of a row *)

\* value: the cell of the mapped column, or an empty one.
Value(row, mapping, field) ==
  IF field \in DOMAIN mapping /\ mapping[field] \in DOMAIN row THEN row[mapping[field]] ELSE Cell(0, << >>)

ValidateCustomer(row, mapping) ==
  /\ Value(row, mapping, "name").len >= 2
  /\ IsValidDocument(Value(row, mapping, "document").digits)
  /\ Len(Value(row, mapping, "postalCode").digits) \in {0, 8}
  /\ Value(row, mapping, "state").len \in {0, 2}

ValidateCarrier(row, mapping) ==
  /\ Value(row, mapping, "name").len >= 2 /\ Value(row, mapping, "code").len >= 2
  /\ Len(Value(row, mapping, "document").digits) \in {0, 14}

Accepts(type, row, mapping) ==
  IF type = "CUSTOMERS" THEN ValidateCustomer(row, mapping) ELSE ValidateCarrier(row, mapping)

-----------------------------------------------------------------------------
(* ImportWizard and the requests it sends *)

ValidateUpload(file) == file.size \in 1 .. MaxSize /\ file.extension \in {"csv", "xlsx"}

FindDuplicate(values) == \E i, j \in DOMAIN values : i # j /\ values[i] = values[j]

\* formula: a cell starts like one, which refuses the file.
ValidateParsedFile(file) ==
  /\ file.headers # << >> /\ Cardinality(file.rows) \in 1 .. MaxRows
  /\ ~FindDuplicate(file.headers)
  /\ ~file.formula

Readable(name) == ValidateUpload(Sheets[name]) /\ ValidateParsedFile(Sheets[name])

NoMapping == [key \in {} |-> ""]

NoPreview == [type |-> "none"]

Types == {"CUSTOMERS", "CARRIERS"}

\* pending: what the previews under way were asked for; touched: the file or the
\* type was changed since the latest one; byHand: a field was mapped by hand.
WizardInit ==
  /\ wizard = [type |-> "CUSTOMERS", file |-> "none", mapping |-> NoMapping,
               preview |-> NoPreview, pending |-> {}, touched |-> FALSE,
               byHand |-> FALSE, changes |-> 0]
  /\ request = [pc |-> "none"]

Change == wizard.changes < MaxChanges /\ request.pc # "made"

\* Another type takes the mapping back, not the preview.
ChooseType(type) ==
  /\ Change /\ type # wizard.type
  /\ wizard' = [wizard EXCEPT !.type = type, !.mapping = NoMapping, !.touched = TRUE, !.changes = @ + 1]
  /\ UNCHANGED request

\* Another file takes nothing back.
ChooseFile(file) ==
  /\ Change /\ file # wizard.file
  /\ wizard' = [wizard EXCEPT !.file = file, !.touched = TRUE, !.changes = @ + 1]
  /\ UNCHANGED request

\* A field of the preview's type is mapped to a header of it, or to none.
MapField(key, header) ==
  /\ Change /\ wizard.preview # NoPreview
  /\ key \in {f.key : f \in Range(Fields(wizard.preview.type))} \cap HandKeys
  /\ header \in wizard.preview.headers \cup {""}
  /\ wizard' = [wizard EXCEPT !.mapping = [k \in DOMAIN @ \cup {key} |-> IF k = key THEN header ELSE @[k]],
                              !.byHand = TRUE, !.changes = @ + 1]
  /\ UNCHANGED request

\* Faulty variant: a preview may be asked for while one is under way.
AskPreviewAnytime ==
  /\ wizard.file # "none" /\ request.pc # "made"
  /\ wizard' = [wizard EXCEPT !.preview = NoPreview, !.touched = FALSE, !.byHand = FALSE,
                              !.pending = @ \cup {[type |-> wizard.type, file |-> wizard.file]}]
  /\ UNCHANGED request

\* Ler arquivo: a new mutation forgets the answer of the one before.
AskPreview ==
  /\ wizard.file # "none" /\ wizard.pending = {} /\ request.pc # "made"
  /\ wizard' = [wizard EXCEPT !.preview = NoPreview, !.touched = FALSE, !.byHand = FALSE,
                              !.pending = {[type |-> wizard.type, file |-> wizard.file]}]
  /\ UNCHANGED request

\* preview parses the file and proposes a mapping; the answer sets it, whatever the
\* form holds by then. A file the parser refuses, or a request lost, sets nothing.
PreviewAnswered(p) ==
  LET headers == Range(Sheets[p.file].headers)
      mapping == AutoMapping(p.type, headers)
  IN /\ p \in wizard.pending /\ request.pc # "made"
     /\ Readable(p.file)
     /\ wizard' = [wizard EXCEPT !.pending = @ \ {p}, !.mapping = mapping,
                                 !.preview = [type |-> p.type, headers |-> headers,
                                              errors |-> MissingRequiredFields(p.type, mapping)]]
     /\ UNCHANGED request

PreviewFailed(p) ==
  /\ p \in wizard.pending /\ request.pc # "made"
  /\ wizard' = [wizard EXCEPT !.pending = @ \ {p}]
  /\ UNCHANGED request

\* Iniciar importacao sends the form as it is now; the check is on the preview shown.
AskImport ==
  /\ wizard.preview # NoPreview /\ wizard.preview.errors = {}
  /\ wizard.file # "none" /\ request.pc = "none"
  /\ request' = [pc |-> "asked", type |-> wizard.type, file |-> wizard.file,
                 mapping |-> wizard.mapping, touched |-> wizard.touched, byHand |-> wizard.byHand]
  /\ UNCHANGED wizard

\* create parses the file again and wants the required fields mapped, to whatever
\* column; the page then goes to the import.
ImportServed ==
  LET mapping == NormalizeMapping(request.mapping)
  IN /\ request.pc = "asked"
     /\ IF Readable(request.file) /\ MissingRequiredFields(request.type, mapping) = {}
        THEN request' = [request EXCEPT !.pc = "made", !.mapping = mapping]
        ELSE request' = [pc |-> "none"]
     /\ UNCHANGED wizard

ImportLost == request.pc = "asked" /\ request' = [pc |-> "none"] /\ UNCHANGED wizard

WizardNext ==
  /\ \/ \E type \in Types : ChooseType(type)
     \/ \E file \in DOMAIN Sheets : ChooseFile(file)
     \/ wizard.preview # NoPreview
          /\ \E key \in HandKeys, h \in wizard.preview.headers \cup {""} : MapField(key, h)
     \/ AskPreview
     \/ \E p \in wizard.pending : PreviewAnswered(p) \/ PreviewFailed(p)
     \/ AskImport \/ ImportServed \/ ImportLost
  /\ UNCHANGED reader

WizardSpec == WizardInit /\ [][WizardNext]_intakeVars

-----------------------------------------------------------------------------
(* ImportParser *)

\* escapeCsv quotes a text with a comma, a quote or a line feed.
EscapeCsv(text) ==
  IF Range(text) \cap {",", "q", "n"} = {} THEN text
  ELSE <<"q">> \o FlattenSeq([i \in DOMAIN text |-> IF text[i] = "q" THEN <<"q", "q">> ELSE <<text[i]>>])
         \o <<"q">>

Join(texts, separator) ==
  FoldLeft(LAMBDA all, i : IF i = 1 THEN texts[1] ELSE all \o <<separator>> \o texts[i],
           << >>, [i \in DOMAIN texts |-> i])

\* The csv of template and errorReport.
WriteCsv(table) ==
  Join([i \in DOMAIN table |-> Join([j \in DOMAIN table[i] |-> EscapeCsv(table[i][j])], ",")], "n")

\* detectDelimiter counts in the first line, within quotes too.
DetectDelimiter(input) ==
  LET ends == {i \in DOMAIN input : input[i] = "n"}
      line == IF ends = {} THEN input ELSE SubSeq(input, 1, (CHOOSE i \in ends : \A j \in ends : i <= j) - 1)
      count(c) == Len(SelectSeq(line, LAMBDA d : d = c))
  IN IF count(";") > count(",") THEN ";" ELSE ","

Blank(text) == Range(text) \subseteq {"n", "r"}

\* normalizeCell cuts blanks and line ends off both sides.
Trim(text) ==
  LET kept == {i \in DOMAIN text : text[i] \notin {"n", "r"}}
      first == CHOOSE i \in kept : \A j \in kept : i <= j
      last == CHOOSE i \in kept : \A j \in kept : i >= j
  IN IF kept = {} THEN << >> ELSE SubSeq(text, first, last)

\* A table of two columns with plain names and two rows.
ReaderInit ==
  \E body \in [1 .. 2 -> [1 .. 2 -> Cells]] :
    LET table == <<<<<<"a">>, <<"b">>>>>> \o body
    IN reader = [table |-> table, input |-> WriteCsv(table), index |-> 1, current |-> << >>,
                 row |-> << >>, rows |-> << >>, quoted |-> FALSE]

Reading == reader.index <= Len(reader.input)

Char == reader.input[reader.index]

Next2(c) == reader.index < Len(reader.input) /\ reader.input[reader.index + 1] = c

\* Faulty variant: two quotes within quotes are read one by one.
ReadPairOne ==
  /\ Reading /\ Char = "q" /\ reader.quoted /\ Next2("q")
  /\ reader' = [reader EXCEPT !.quoted = ~@, !.index = @ + 1]

\* The loop of parseDelimited, one character a step: two quotes within quotes ...
ReadPair ==
  /\ Reading /\ Char = "q" /\ reader.quoted /\ Next2("q")
  /\ reader' = [reader EXCEPT !.current = Append(@, "q"), !.index = @ + 2]

\* ... a quote ...
ReadQuote ==
  /\ Reading /\ Char = "q" /\ ~(reader.quoted /\ Next2("q"))
  /\ reader' = [reader EXCEPT !.quoted = ~@, !.index = @ + 1]

\* ... a delimiter or the end of a line outside quotes ...
ReadDelimiter ==
  /\ Reading /\ ~reader.quoted /\ Char = DetectDelimiter(reader.input)
  /\ reader' = [reader EXCEPT !.row = Append(@, reader.current), !.current = << >>, !.index = @ + 1]

ReadLineEnd ==
  /\ Reading /\ ~reader.quoted /\ Char \in {"n", "r"}
  /\ reader' = [reader EXCEPT !.rows = Append(@, Append(reader.row, reader.current)),
                              !.row = << >>, !.current = << >>,
                              !.index = @ + (IF Char = "r" /\ Next2("n") THEN 2 ELSE 1)]

\* ... or any other character.
ReadOther ==
  /\ Reading /\ Char # "q"
  /\ reader.quoted \/ Char \notin {DetectDelimiter(reader.input), "n", "r"}
  /\ reader' = [reader EXCEPT !.current = Append(@, Char), !.index = @ + 1]

ReaderNext ==
  /\ ReadPair \/ ReadQuote \/ ReadDelimiter \/ ReadLineEnd \/ ReadOther
  /\ UNCHANGED <<wizard, request>>

\* What parseDelimited returns: the last row closed, blank rows left out.
ParsedRows ==
  SelectSeq(Append(reader.rows, Append(reader.row, reader.current)),
            LAMBDA cells : \E j \in DOMAIN cells : ~Blank(cells[j]))

\* normalizeHeaders leaves blank headers out.
NormalizeHeaders(cells) == SelectSeq(cells, LAMBDA h : ~Blank(h))

\* toParsedRow takes the cells by position.
ToParsedRow(headers, cells) ==
  [h \in Range(headers) |->
     LET j == CHOOSE j \in DOMAIN headers : headers[j] = h
     IN IF j <= Len(cells) THEN Trim(cells[j]) ELSE << >>]

\* A row without data under the headers is dropped. Row numbers are left out.
ParseCsv(rows) ==
  LET headers == NormalizeHeaders(rows[1])
  IN [headers |-> headers,
      rows |-> SelectSeq([k \in 1 .. Len(rows) - 1 |-> ToParsedRow(headers, rows[k + 1])],
                         LAMBDA row : \E h \in Range(headers) : row[h] # << >>)]

\* The first sheet of a workbook: sheet_to_json leaves out rows without any text.
ParseXlsx(sheet) ==
  LET rows == SelectSeq(sheet, LAMBDA cells : \E j \in DOMAIN cells : cells[j] # << >>)
      headers == NormalizeHeaders(rows[1])
  IN [headers |-> headers,
      rows |-> SelectSeq([k \in 1 .. Len(rows) - 1 |-> ToParsedRow(headers, rows[k + 1])],
                         LAMBDA row : \E h \in Range(headers) : row[h] # << >>)]

-----------------------------------------------------------------------------
(* Properties *)

\* An import was made of the file and the type its preview was asked for.
Untouched == request.pc = "made" /\ ~request.touched

\* Each field is mapped to a column of the file that was sent.
MappedToColumns ==
  Untouched => \A k \in DOMAIN request.mapping : request.mapping[k] \in Range(Sheets[request.file].headers)

\* Unless fields were mapped by hand no two of them share a column.
ColumnsApart ==
  Untouched /\ ~request.byHand =>
    \A k, l \in DOMAIN request.mapping : request.mapping[k] = request.mapping[l] => k = l

\* Nor is a sample row of a type's own template refused, and its document is one that
\* CustomersService accepts.
SamplesAccepted ==
  Untouched /\ ~request.byHand /\ Sheets[request.file] = Template(request.type) =>
    \A row \in Sheets[request.file].rows :
      /\ Accepts(request.type, row, request.mapping)
      /\ request.type = "CUSTOMERS" =>
           ValidateDocument(Value(row, request.mapping, "document").digits)

\* An import whose file and type are those its preview was asked for fits the form. A
\* file or type changed after the preview was asked for voids it, and no check catches
\* that (ImportWizard, preview, create).
PreviewedImportFits == MappedToColumns /\ ColumnsApart /\ SamplesAccepted

\* What template and errorReport write, the parser reads back: under its header each
\* cell that was written, with the quotes, commas and line feeds within it, and no
\* row more or less, but for blank ones; and the same as from a workbook with these
\* cells (escapeCsv, parseDelimited, toParsedRow, parseXlsx). A carriage return, which
\* escapeCsv does not quote, would end the row.
ReadsWhatWasWritten ==
  ~Reading =>
    LET parsed == ParseCsv(ParsedRows)
        body == SelectSeq(Tail(reader.table), LAMBDA cells : \E j \in DOMAIN cells : ~Blank(cells[j]))
    IN /\ parsed.headers = reader.table[1]
       /\ parsed = ParseXlsx(reader.table)
       /\ Len(parsed.rows) = Len(body)
       /\ \A k \in DOMAIN body, j \in DOMAIN parsed.headers :
            parsed.rows[k][parsed.headers[j]] = Trim(body[k][j])
=============================================================================
