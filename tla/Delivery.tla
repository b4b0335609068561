------------------------------ MODULE Delivery ------------------------------
(***************************************************************************)
(* From finished searches to the sink: what is rendered in which format    *)
(* (output/format.rs, output/project.rs) and how it is written, whole to   *)
(* stdout, in place of the --output file or behind what the file holds     *)
(* (output/emit.rs; pipeline/mod.rs for a stream). A text is a sequence of *)
(* characters, of which a row holds "x", "t", "n", a backslash ("bs"), a   *)
(* tab, a newline, a control character ("esc"), one of the characters      *)
(* Markdown marks with ("br") or a parenthesis ("par").                    *)
(***************************************************************************)
EXTENDS ResultOps, SequencesExt

CONSTANT Deliveries   \* the forms, formats, sinks and searches of a delivery

Characters == {"x", "t", "n", "bs", "tab", "nl", "esc", "br", "par", "rank"}
Columns == {"title", "url", "snippet"}
Hits == [Columns -> Seq(Characters)]

ASSUME DeliveryAssumption ==
    \A d \in Deliveries :
      /\ d.form \in {"single", "multi", "stream"} /\ {d.old, d.toFile, d.tty} \subseteq BOOLEAN
      /\ d.format \in {"auto", "json", "text", "markdown", "tsv"}
      /\ Len(d.searches) \in Nat /\ DOMAIN d.searches = 1..Len(d.searches)
      /\ \A s \in DOMAIN d.searches : {d.searches[s].web, d.searches[s].news} \subseteq Seq(Hits)
      /\ d.fields \in Seq(STRING)

VARIABLES delivery,       \* what is delivered, and where
          deliveryStage,  \* given, ready, rendered, temp, torn, done or killed
          received,       \* the searches rendered so far, in their order
          parcel,         \* the searches rendered and not written, or nothing
          stdoutParcels,  \* what stdout has got
          fileParcels,    \* what the --output file holds
          deliveryCode    \* 0, or the exit code of a failure

deliveryVars == <<delivery, deliveryStage, received, parcel, stdoutParcels, fileParcels,
                  deliveryCode>>

Joined(texts) == FlattenSeq(texts)

\* What a text becomes when every member of it is replaced by what "code" has for it.
Coded(text, code) == Joined([i \in DOMAIN text |-> code[text[i]]])
Replacing(char, by) == [c \in Characters |-> IF c = char THEN by ELSE <<c>>]
Replaced(text, char, by) == Coded(text, Replacing(char, by))

\* The members of a list that are in a set, in their order.
Kept(list, set) == Retain(list, LAMBDA i : list[i] \in set)

----------------------------------------------------------------------------
(* Fields.                                                                 *)

\* FieldSet::parse: the English and the Portuguese names; a blank entry counts for none,
\* and without the flag there is nothing to parse.
FieldNames == [title |-> "title", titulo |-> "title", url |-> "url", snippet |-> "snippet"]
FieldsAccepted(tokens) ==
    /\ \A i \in DOMAIN tokens : tokens[i] \in DOMAIN FieldNames \cup {""}
    /\ tokens = <<>> \/ \E i \in DOMAIN tokens : tokens[i] # ""
FieldSet(tokens) ==
    LET named == Retain(tokens, LAMBDA i : tokens[i] # "")
        keys == [i \in DOMAIN named |-> FieldNames[named[i]]]
    IN  Retain(keys, LAMBDA i : \A j \in 1..(i - 1) : keys[j] # keys[i])

\* project_web_result: the texts that were not asked for are emptied, the URL never is.
Stripped(row, fields) ==
    [k \in Columns |-> IF k \in {"title", "snippet"} /\ fields # <<>> /\ k \notin ToSet(fields)
                       THEN <<>> ELSE row[k]]

\* project_object_keys: a row of a JSON document keeps the keys it was asked for.
KeptKeys(row, fields) ==
    [k \in {c \in Columns : fields = <<>> \/ c \in ToSet(fields)} |-> row[k]]

----------------------------------------------------------------------------
(* Formats. A document keeps its structure, a table and a listing are text. *)

JsonOf(searches, fields) ==
    [is |-> "json",
     docs |-> [s \in DOMAIN searches |->
                 [web |-> [i \in DOMAIN searches[s].web |-> KeptKeys(searches[s].web[i], fields)],
                  news |-> [i \in DOMAIN searches[s].news |->
                              KeptKeys(searches[s].news[i], fields)]]]]

\* push_tsv_escaped: every character by itself, in one pass.
TsvCode ==
    LET escape == [bs |-> "bs", tab |-> "t", nl |-> "n"]
    IN  [c \in Characters |-> IF c \in DOMAIN escape THEN <<"bs", escape[c]>> ELSE <<c>>]
TsvEscaped(text) == Coded(text, TsvCode)

\* Fault: the backslash is replaced last.
TsvFieldLate(text) ==
    Replaced(Replaced(Replaced(text, "tab", <<"bs", "t">>), "nl", <<"bs", "n">>), "bs", <<"bs", "bs">>)

\* tsv_field: the backslash first, so that the ones that follow are not escaped again.
TsvField(text) ==
    Replaced(Replaced(Replaced(text, "bs", <<"bs", "bs">>), "tab", <<"bs", "t">>), "nl", <<"bs", "n">>)

TableLine(cells) == Joined([i \in DOMAIN cells |-> IF i = 1 THEN cells[i] ELSE <<"tab">> \o cells[i]])

\* format_search_tsv_projected, format_single_tsv and format_multi_tsv: the web rows
\* alone, the searches' one after another. The columns of several searches are always the
\* same; the header is left out.
TableOf(rows, columns, projected) ==
    LET cell(text) == IF projected THEN TsvEscaped(text) ELSE TsvField(text)
    IN  [k \in DOMAIN rows |-> TableLine([i \in DOMAIN columns |-> cell(rows[k][columns[i]])])]

AllColumns == <<"title", "url", "snippet">>

\* Fault: what a title holds is shown as it is.
DisplayedAsIs(text) == text

\* sanitize_untrusted_display: no control character but the tab.
Displayed(text) == Kept(text, Characters \ {"esc", "nl"})

\* escape_markdown, and escape_markdown_url, whose percent codes count as one character.
MarkdownCode == [c \in Characters |-> IF c \in {"bs", "br"} THEN <<"bs", c>> ELSE <<c>>]
EscapeMarkdown(text) == Coded(Displayed(text), MarkdownCode)
EscapeMarkdownUrl(text) ==
    LET shown == Displayed(text)
    IN  [i \in DOMAIN shown |-> IF shown[i] \in {"par", "tab"} THEN "x" ELSE shown[i]]

\* format_result_text: its title behind its rank, its URL and its snippet, indented, each on
\* a line of its own.
TextOf(row) ==
    LET indented(text) == <<"x">> \o Displayed(text)
    IN  <<<<>>, <<"rank">> \o Displayed(row.title), indented(row.url)>>
        \o (IF row.snippet = <<>> THEN <<>> ELSE <<indented(row.snippet)>>)

\* format_single_markdown: the title and the URL make one link.
MarkdownOf(row) ==
    <<<<"rank", "br">> \o EscapeMarkdown(row.title) \o <<"br", "par">>
        \o EscapeMarkdownUrl(row.url) \o <<"par">>>>
    \o (IF row.snippet = <<>> THEN <<>> ELSE <<EscapeMarkdown(row.snippet)>>)

\* A search: a header, and the lines of each web row, as the format has them.
Listing(output, format) ==
    <<<<>>>> \o Joined([i \in DOMAIN output.web |->
                          IF format = "text" THEN TextOf(output.web[i]) ELSE MarkdownOf(output.web[i])])

\* resolve_auto_format; a stream takes no notice of the terminal and has no tables.
Format(d) ==
    CASE d.form = "stream" /\ d.format = "auto" -> "json"
      [] d.form = "stream" /\ d.format = "tsv" -> "text"
      [] d.form # "stream" /\ d.format = "auto" -> IF ~d.toFile /\ d.tty THEN "text" ELSE "json"
      [] OTHER -> d.format

\* The web rows of all these searches, one after another.
WebOf(searches) == Joined([s \in DOMAIN searches |-> searches[s].web])

\* What a search keeps of its web rows' texts when only these fields are asked for.
ProjectedOutputs(searches, fields) ==
    [s \in DOMAIN searches |->
       [web |-> [i \in DOMAIN searches[s].web |-> Stripped(searches[s].web[i], fields)],
        news |-> searches[s].news]]

\* The lines of these searches, in a format that is no document.
LinesOf(d, outputs, fields) ==
    LET projected == d.form = "single" /\ fields # <<>>
    IN  IF Format(d) = "tsv"
        THEN TableOf(WebOf(outputs), IF projected THEN fields ELSE AllColumns, projected)
        ELSE Joined([s \in DOMAIN outputs |-> Listing(outputs[s], Format(d))])
Ended(lines) == [k \in DOMAIN lines |-> lines[k] \o <<"nl">>]

\* What one writing delivers of these searches: a document, or lines.
Rendered(d, searches) ==
    LET fields == FieldSet(d.fields)
        outputs == ProjectedOutputs(searches, fields)
    IN  IF Format(d) = "json" THEN JsonOf(outputs, fields)
        ELSE [is |-> "lines", chars |-> Joined(Ended(LinesOf(d, outputs, fields)))]

\* The searches one writing delivers: each by itself, or all of them.
AllOf(d) == [s \in DOMAIN d.searches |-> s]
Parcels(d) == IF d.form = "stream" THEN {<<s>> : s \in DOMAIN d.searches} ELSE {AllOf(d)}
SearchesOf(d, p) == [k \in DOMAIN p |-> d.searches[p[k]]]

----------------------------------------------------------------------------
(* Sinks.                                                                  *)

ProjectedLine(d) == d.form = "stream" /\ Format(d) = "json" /\ d.fields # <<>>
Appends(d) == d.toFile /\ d.form = "stream" /\ ~ProjectedLine(d)

\* enforce_max_output_bytes guards stdout, but for the blocks of a stream, and whatever
\* goes through emit_payload.
Capped(d) == \/ ProjectedLine(d)
             \/ ~d.toFile /\ (d.form # "stream" \/ Format(d) = "json")

\* A failed writing ends the command: run/mod.rs reports 1, the error of a stream comes
\* back with a code of its own.
DeliveryFails(code) == /\ deliveryCode' = code /\ deliveryStage' = "done"
                       /\ UNCHANGED <<delivery, received, parcel, stdoutParcels>>
ErrorOf(d) == IF d.form = "stream" THEN 2 ELSE 1

\* What follows a writing: the next item of a stream, or the end.
Delivered == deliveryStage' = IF delivery.form = "stream" THEN "ready" ELSE "done"

\* What the file holds, the old content as nothing, with its last newline or without.
InFile(p, whole) == [of |-> p, whole |-> whole]

DeliveryInit ==
    /\ deliveryStage = "given" /\ received = <<>> /\ parcel = <<>> /\ stdoutParcels = <<>>
    /\ fileParcels = IF delivery.old THEN <<InFile(<<>>, TRUE)>> ELSE <<>>
    /\ deliveryCode = 0

\* The fields are parsed before anything is searched.
AcceptFields ==
    /\ deliveryStage = "given"
    /\ IF FieldsAccepted(delivery.fields)
       THEN deliveryStage' = "ready" /\ UNCHANGED deliveryCode
       ELSE deliveryStage' = "done" /\ deliveryCode' = 2
    /\ UNCHANGED <<delivery, received, parcel, stdoutParcels, fileParcels>>

RenderWhole ==
    /\ deliveryStage = "ready" /\ delivery.form # "stream"
    /\ received' = AllOf(delivery) /\ parcel' = <<AllOf(delivery)>>
    /\ deliveryStage' = "rendered"
    /\ UNCHANGED <<delivery, stdoutParcels, fileParcels, deliveryCode>>

\* The consumer of a stream gets the searches in the order in which they end.
ReceiveItem(s) ==
    /\ deliveryStage = "ready" /\ delivery.form = "stream" /\ s \notin ToSet(received)
    /\ received' = Append(received, s)
    /\ parcel' = <<<<s>>>>
    /\ deliveryStage' = "rendered"
    /\ UNCHANGED <<delivery, stdoutParcels, fileParcels, deliveryCode>>

StreamEnds ==
    /\ deliveryStage = "ready" /\ delivery.form = "stream"
    /\ Len(received) = Len(delivery.searches)
    /\ deliveryStage' = "done"
    /\ UNCHANGED <<delivery, received, parcel, stdoutParcels, fileParcels, deliveryCode>>

\* "over": the writings that are larger than --max-output-bytes.
Fit(d) == Capped(d) => parcel[1] \notin d.over

RefuseOversize ==
    /\ deliveryStage = "rendered" /\ ~Fit(delivery)
    /\ DeliveryFails(ErrorOf(delivery)) /\ UNCHANGED fileParcels

ToStdout ==
    /\ deliveryStage = "rendered" /\ ~delivery.toFile /\ Fit(delivery)
    /\ stdoutParcels' = stdoutParcels \o parcel /\ parcel' = <<>>
    /\ Delivered
    /\ UNCHANGED <<delivery, received, fileParcels, deliveryCode>>

ReaderGone ==
    /\ deliveryStage = "rendered" /\ ~delivery.toFile /\ Fit(delivery)
    /\ DeliveryFails(141) /\ UNCHANGED fileParcels

\* Fault: the file is truncated before it is written.
ToTruncated ==
    /\ deliveryStage = "rendered" /\ delivery.toFile /\ ~Appends(delivery) /\ Fit(delivery)
    /\ deliveryStage' = "temp" /\ fileParcels' = <<>>
    /\ UNCHANGED <<delivery, received, parcel, stdoutParcels, deliveryCode>>

\* write_to_file: atomic_write puts a file of its own in the place of the old one.
ToTemp ==
    /\ deliveryStage = "rendered" /\ delivery.toFile /\ ~Appends(delivery) /\ Fit(delivery)
    /\ deliveryStage' = "temp"
    /\ UNCHANGED <<delivery, received, parcel, stdoutParcels, fileParcels, deliveryCode>>

Persist ==
    /\ deliveryStage = "temp"
    /\ fileParcels' = <<InFile(parcel, TRUE)>> /\ parcel' = <<>>
    /\ Delivered
    /\ UNCHANGED <<delivery, received, stdoutParcels, deliveryCode>>

\* append_line_to_file: the line, then its newline.
AppendLine ==
    /\ deliveryStage = "rendered" /\ Appends(delivery)
    /\ fileParcels' = Append(fileParcels, InFile(parcel, FALSE))
    /\ deliveryStage' = "torn"
    /\ UNCHANGED <<delivery, received, parcel, stdoutParcels, deliveryCode>>

AppendNewline ==
    /\ deliveryStage = "torn"
    /\ fileParcels' = [fileParcels EXCEPT ![Len(fileParcels)].whole = TRUE] /\ parcel' = <<>>
    /\ Delivered
    /\ UNCHANGED <<delivery, received, stdoutParcels, deliveryCode>>

\* The disk refuses: to open the file, to write it, to rename it, or, once the file is
\* there, to change its mode.
DiskFails ==
    /\ deliveryStage \in {"rendered", "temp", "torn"} /\ delivery.toFile /\ Fit(delivery)
    /\ \/ UNCHANGED fileParcels
       \/ deliveryStage = "temp" /\ fileParcels' = <<InFile(parcel, TRUE)>>
       \/ /\ deliveryStage = "torn"
          /\ fileParcels' = [fileParcels EXCEPT ![Len(fileParcels)].whole = TRUE]
    /\ DeliveryFails(ErrorOf(delivery))

DeliveryKilled ==
    /\ deliveryStage \in {"ready", "rendered", "temp", "torn"}
    /\ deliveryStage' = "killed"
    /\ UNCHANGED <<delivery, received, parcel, stdoutParcels, fileParcels, deliveryCode>>

DeliveryStep ==
    \/ AcceptFields \/ RenderWhole \/ StreamEnds \/ RefuseOversize \/ ToStdout \/ ReaderGone
    \/ ToTemp \/ Persist \/ AppendLine \/ AppendNewline \/ DiskFails
    \/ \E s \in DOMAIN delivery.searches : ReceiveItem(s)
DeliveryNext == DeliveryStep \/ DeliveryKilled

DeliveryEnds == deliveryStage \in {"done", "killed"}
DeliveryTypeOK ==
    /\ delivery.form \in {"single", "multi", "stream"}
    /\ deliveryStage \in {"given", "ready", "rendered", "temp", "torn", "done", "killed"}
    /\ ToSet(received) \subseteq DOMAIN delivery.searches
    /\ Len(parcel) <= 1 /\ deliveryCode \in {0, 1, 2, 141}

----------------------------------------------------------------------------
(* Reading back.                                                           *)

\* A text read from left to right: what "with" makes of what is known and of a character.
ReadThrough(text, known, with(_, _)) ==
    LET after[n \in 0..Len(text)] == IF n = 0 THEN known ELSE with(after[n - 1], text[n])
    IN  after[Len(text)]

\* The pieces of a text that the character separates.
PiecesAt(text, char) ==
    ReadThrough(text, <<<<>>>>,
        LAMBDA pieces, c : IF c = char THEN Append(pieces, <<>>)
                           ELSE [pieces EXCEPT ![Len(pieces)] = Append(@, c)])

\* What a cell says: a backslash takes the character behind it along.
Meant(c) == CASE c = "t" -> "tab" [] c = "n" -> "nl" [] OTHER -> c
ReadCell(known, c) ==
    IF known.escape THEN [said |-> Append(known.said, Meant(c)), escape |-> FALSE]
    ELSE IF c = "bs" THEN [said |-> known.said, escape |-> TRUE]
    ELSE [said |-> Append(known.said, c), escape |-> FALSE]
Unescaped(cell) == ReadThrough(cell, [said |-> <<>>, escape |-> FALSE], ReadCell).said

\* A line of Markdown read as a link: "[" opens the title and "](" the URL, which ends with
\* the line, unless a backslash stands before.
Unread == [at |-> "outside", escape |-> FALSE, title |-> <<>>, url |-> <<>>]
ReadLink(link, c) ==
    LET to(place, escape, title, url) == [at |-> place, escape |-> escape, title |-> title, url |-> url]
        goto(place) == to(place, FALSE, link.title, link.url)
    IN  CASE link.at \in {"outside", "title"} /\ ~link.escape /\ c = "bs" ->
               to(link.at, TRUE, link.title, link.url)
          [] link.at = "outside" /\ ~link.escape /\ c = "br" -> goto("title")
          [] link.at = "title" /\ ~link.escape /\ c = "br" -> goto("opening")
          [] link.at = "title" /\ (link.escape \/ c \notin {"bs", "br"}) ->
               to("title", FALSE, Append(link.title, c), link.url)
          [] link.at = "opening" -> goto(IF c = "par" THEN "url" ELSE "broken")
          [] link.at = "url" /\ c = "par" -> goto("end")
          [] link.at = "url" /\ c # "par" -> to("url", FALSE, link.title, Append(link.url, c))
          [] link.at = "outside" /\ (link.escape \/ c \notin {"bs", "br"}) -> goto("outside")
          [] link.at \in {"end", "broken"} -> goto("broken")
LinkIn(line) == ReadThrough(line, Unread, ReadLink)

\* The rows with the texts that were asked for, and always the URL.
Asked(rows, fields) ==
    [i \in DOMAIN rows |->
       [c \in Columns |-> IF fields = <<>> \/ c = "url" \/ c \in ToSet(fields) THEN rows[i][c] ELSE <<>>]]

\* A document has the rows of every search, with the keys that were asked for.
DocumentReads(searches, docs, fields) ==
    /\ Len(docs) = Len(searches)
    /\ \A s \in DOMAIN searches :
         /\ Len(docs[s].web) = Len(searches[s].web) /\ Len(docs[s].news) = Len(searches[s].news)
         /\ \A i \in DOMAIN searches[s].web : \A c \in Columns :
              IF fields = <<>> \/ c \in ToSet(fields)
              THEN docs[s].web[i][c] = searches[s].web[i][c]
              ELSE c \notin DOMAIN docs[s].web[i]

\* A table has a line for each row, whose cells say what the row has in these columns.
TableReads(rows, columns, lines) ==
    /\ Len(lines) = Len(rows) + 1
    /\ \A i \in DOMAIN rows :
         LET cells == PiecesAt(lines[i], "tab")
         IN  /\ Len(cells) = Len(columns)
             /\ \A c \in DOMAIN columns : Unescaped(cells[c]) = rows[i][columns[c]]

\* A listing has one heading for each row, in their order, with the row's title.
TextReads(rows, lines) ==
    LET headings == Kept(lines, {line \in ToSet(lines) : line # <<>> /\ Head(line) = "rank"})
    IN  /\ Len(headings) = Len(rows)
        /\ \A i \in DOMAIN rows : Tail(headings[i]) = Displayed(rows[i].title)

\* A Markdown document has one link for each row, in their order, with its title and its URL.
MarkdownReads(rows, lines) ==
    LET links == Kept(lines, {line \in ToSet(lines) : LinkIn(line).at = "end"})
    IN  /\ Len(links) = Len(rows)
        /\ \A i \in DOMAIN rows : /\ LinkIn(links[i]).title = Displayed(rows[i].title)
                                  /\ LinkIn(links[i]).url = EscapeMarkdownUrl(rows[i].url)

ReadsBack(d, parts) ==
    LET searches == SearchesOf(d, parts)
        p == Rendered(d, searches)
        fields == FieldSet(d.fields)
        rows == Asked(WebOf(searches), fields)
        columns == IF d.form = "single" /\ fields # <<>> THEN fields ELSE AllColumns
        lines == PiecesAt(p.chars, "nl")
    IN  CASE Format(d) = "json" -> DocumentReads(searches, p.docs, fields)
          [] Format(d) = "tsv" -> TableReads(rows, columns, lines)
          [] Format(d) = "text" -> TextReads(rows, lines)
          [] Format(d) = "markdown" -> MarkdownReads(rows, lines)

\* What is delivered reads back: a table has a line per row whose cells are the values
\* asked for, whatever tabs, newlines and backslashes they hold, a JSON document has
\* the rows with the keys asked for, and neither a listing nor a Markdown document has
\* a heading that is no row's; several searches come whole, or item by item in the
\* order in which they ended.
DeliveryReadsBack ==
    /\ stdoutParcels = <<>> \/ ~delivery.toFile
    /\ \A k \in DOMAIN stdoutParcels : ReadsBack(delivery, stdoutParcels[k])
    /\ \A k \in DOMAIN fileParcels :
         fileParcels[k].of # <<>> => ReadsBack(delivery, fileParcels[k].of[1])
    /\ deliveryStage = "done" /\ deliveryCode = 0 /\ ~delivery.toFile =>
         Joined(stdoutParcels) = received /\ Len(received) = Len(delivery.searches)

\* The --output file is whole at every moment, through a failure of the disk and a kill:
\* it is what it was until all of the new document is there; behind what it was a
\* stream adds its lines, of which the last alone may lack its newline.
FileStaysWhole ==
    LET old == IF delivery.old THEN 1 ELSE 0
    IN  /\ fileParcels = <<>> => ~delivery.old
        /\ Appends(delivery) =>
             /\ Len(received) - 1 <= Len(fileParcels) - old
             /\ Len(fileParcels) - old <= Len(received)
             /\ delivery.old => fileParcels[1].of = <<>>
             /\ \A k \in 1..(Len(fileParcels) - 1) : fileParcels[k].whole
             /\ \A k \in (old + 1)..Len(fileParcels) :
                  fileParcels[k].of = <<<<received[k - old]>>>>
        /\ ~Appends(delivery) =>
             \A k \in DOMAIN fileParcels :
               k = 1 /\ fileParcels[k].whole

\* As the documentation has it: when a stream is over, the --output file holds every
\* search of it.
StreamKeepsEveryLine ==
    /\ deliveryStage = "done" /\ deliveryCode = 0
    /\ delivery.form = "stream" /\ delivery.toFile
    => Len(SelectSeq(fileParcels, LAMBDA f : f.of # <<>>)) = Len(delivery.searches)
=============================================================================
