-------------------------- MODULE ReleaseEvidence --------------------------
(***************************************************************************)
(* The release gate: tools/masvs-report overlays a build-proof manifest on *)
(* the control catalog (docs/masvs-mapping.md) and tools/mastg, or         *)
(* "kseal-cli compliance mastg", decides from that report and from         *)
(* asserted test results whether the release is blocked.                   *)
(*                                                                         *)
(* Each tool has a parser of its own for the catalog.  A behaviour writes  *)
(* the document line by line, both parsers reading along, and runs the     *)
(* tools on it, masvs-report first or not at all.  A line is a category    *)
(* heading, another heading, the objective, text, a blank, or a table row: *)
(* the sequence of its cells (a header cell is the name of its column, "-" *)
(* a separator).                                                           *)
(***************************************************************************)
EXTENDS Integers, Sequences, FiniteSets

CONSTANTS
    Lines,       \* the lines a document is made of
    MaxLines,
    Manifests,   \* build-proof documents: [schema, platform, transforms, seed, slices, hash]
    Evidences    \* evidence files: sequences of [match, status]

VARIABLES
    masvs,       \* catalog.Parse: [cats, cur, expect, inObj, err]
    mastg,       \* mastg.ParseCatalog: the same with the columns of the header
    document,    \* what is written so far: the number of lines, and the rows that name a column
    report,      \* the JSON file masvs-report leaves: of which manifest, the categories, the orphans
    outcome      \* the last run of mastg: its inputs, results and exit code

vars == <<masvs, mastg, document, report, outcome>>

Columns == <<"objective", "control", "module", "mastg">>

NoColumns == <<>>

Fresh == [cats |-> <<>>, cur |-> FALSE, expect |-> FALSE, inObj |-> FALSE, err |-> FALSE, cols |-> NoColumns]

NoFile == [written |-> FALSE, categories |-> <<>>]

NotRun == [exit |-> 1]

Init == masvs = Fresh /\ mastg = Fresh /\ document = [lines |-> 0, headers |-> {}] /\ report = NoFile /\ outcome = NotRun

-----------------------------------------------------------------------------
(* The two parsers.                                                         *)

categoryHeading(p, line) ==
    [p EXCEPT !.cats = Append(@, [name |-> line.name, objective |-> 0, controls |-> <<>>]),
              !.cur = TRUE, !.expect = TRUE, !.inObj = FALSE, !.cols = NoColumns]

isSeparator(cells) == \A i \in DOMAIN cells : cells[i] \in {"", "-"}

isHeaderOrSeparator(cells) == (Len(cells) > 0 /\ cells[1] = "objective") \/ isSeparator(cells)

\* The columns of a header are where its cells say; it is one when all four are there.
parseHeader(cells) ==
    IF \A j \in 1..4 : \E i \in DOMAIN cells : cells[i] = Columns[j]
    THEN [j \in 1..4 |-> CHOOSE i \in DOMAIN cells : cells[i] = Columns[j] /\ \A k \in DOMAIN cells : cells[k] = Columns[j] => k <= i]
    ELSE NoColumns

Control(cells, cols) == [objective |-> cells[cols[1]], control |-> cells[cols[2]], mastg |-> cells[cols[4]]]

AddControl(p, c) == [p EXCEPT !.cats[Len(p.cats)].controls = Append(@, c)]

\* What both parsers do before they look at a table.
Section(p, line) ==
    CASE line.kind = "category" -> categoryHeading(p, line)
      [] line.kind = "heading" -> [p EXCEPT !.cur = FALSE, !.expect = FALSE, !.inObj = FALSE, !.cols = NoColumns]
      [] line.kind = "objective" /\ p.cur /\ p.expect ->
            [p EXCEPT !.cats[Len(p.cats)].objective = 1, !.expect = FALSE, !.inObj = TRUE]
      [] line.kind \in {"text", "objective"} /\ p.cur /\ p.inObj /\ (line.kind = "text" \/ ~p.expect) ->
            [p EXCEPT !.cats[Len(p.cats)].objective = @ + 1]
      [] line.kind \in {"blank", "row"} /\ p.cur -> [p EXCEPT !.inObj = FALSE]
      [] OTHER -> p

\* masvs-report reads the columns by position.
Parse(p, line) ==
    IF p.err THEN p
    ELSE IF ~p.cur \/ line.kind # "row" THEN Section(p, line)
    ELSE IF isHeaderOrSeparator(line.cells) THEN Section(p, line)
    ELSE IF Len(line.cells) < 4 THEN [p EXCEPT !.err = TRUE]
    ELSE AddControl(Section(p, line), Control(line.cells, <<1, 2, 3, 4>>))

Highest(cols) == CHOOSE i \in {cols[j] : j \in 1..4} : \A j \in 1..4 : cols[j] <= i

\* mastg reads them where the table's header says, and wants a header first.
ParseCatalog(p, line) ==
    IF p.err THEN p
    ELSE IF ~p.cur \/ line.kind # "row" THEN Section(p, line)
    ELSE IF isSeparator(line.cells) THEN Section(p, line)
    ELSE IF parseHeader(line.cells) # NoColumns THEN [Section(p, line) EXCEPT !.cols = parseHeader(line.cells)]
    ELSE IF p.cols = NoColumns THEN [p EXCEPT !.err = TRUE]
    ELSE IF Len(line.cells) < Highest(p.cols) THEN [p EXCEPT !.err = TRUE]
    ELSE AddControl(Section(p, line), Control(line.cells, p.cols))

Names(cells) == \E i \in DOMAIN cells, j \in 1..4 : cells[i] = Columns[j]

Write(line) ==
    /\ document.lines < MaxLines
    /\ masvs' = Parse(masvs, line)
    /\ mastg' = ParseCatalog(mastg, line)
    /\ document' = [lines |-> document.lines + 1,
                    headers |-> document.headers \cup {h \in {line} : h.kind = "row" /\ Names(h.cells)}]
    /\ UNCHANGED <<report, outcome>>

Parsed(p) == ~p.err /\ p.cats # <<>>

-----------------------------------------------------------------------------
(* masvs-report.                                                            *)

parseAndroid(doc) == [doc EXCEPT !.platform = "android", !.slices = FALSE]

\* The iOS document has no status for a transform: what it lists was applied.
\* It may name a platform of its own.
parseIOS(doc) ==
    [doc EXCEPT !.platform = IF @ = "" THEN "ios" ELSE @, !.transforms = [t \in DOMAIN @ |-> "applied"]]

Normalized(doc) == IF doc.schema = "android" THEN parseAndroid(doc) ELSE parseIOS(doc)

HasAppliedTransform(m, name) == name \in DOMAIN m.transforms /\ m.transforms[name] \in {"", "applied"}

sealingTransforms == {"string-obfuscation", "string-resource-seal"}

obfuscationTransforms == sealingTransforms \cup {"symbol-strip", "strip-debug-metadata"}

evalObfuscation(m) ==
    LET applied == \E n \in obfuscationTransforms : HasAppliedTransform(m, n)
        poly == m.seed \/ HasAppliedTransform(m, "polymorphism")
    IN IF applied /\ poly THEN "evidenced" ELSE IF applied \/ poly THEN "partial" ELSE "absent"

evalIntegrity(m) ==
    IF m.slices \/ HasAppliedTransform(m, "native-library-harden") THEN "evidenced"
    ELSE IF m.hash THEN "partial" ELSE "absent"

evalNativeMemory(m) ==
    IF "native-library-harden" \notin DOMAIN m.transforms
    THEN IF m.platform = "ios" THEN "not-applicable" ELSE "absent"
    ELSE IF HasAppliedTransform(m, "native-library-harden") THEN "evidenced" ELSE "skipped"

evalProvenance(m) == IF m.hash THEN "evidenced" ELSE "absent"

evalNoStaticSecrets(m) == IF \E n \in sealingTransforms : HasAppliedTransform(m, n) THEN "evidenced" ELSE "absent"

\* The rules with the control each is about.
rules(m) ==
    {[category |-> "RESILIENCE", sub |-> "Obfuscation", status |-> evalObfuscation(m)],
     [category |-> "RESILIENCE", sub |-> "Integrity", status |-> evalIntegrity(m)],
     [category |-> "CODE", sub |-> "Native", status |-> evalNativeMemory(m)],
     [category |-> "CODE", sub |-> "Provenance", status |-> evalProvenance(m)],
     [category |-> "STORAGE", sub |-> "Secrets", status |-> evalNoStaticSecrets(m)]}

\* The first control of the category that the rule's text matches, if any.
indexOfControl(controls, sub) == {i \in DOMAIN controls : controls[i].objective = sub /\ \A j \in 1..(i - 1) : controls[j].objective # sub}

RulesAt(m, category, i) == {r \in rules(m) : r.category = category.name /\ i \in indexOfControl(category.controls, r.sub)}

Overlaid(m, category) ==
    [name |-> category.name, controls |-> [i \in DOMAIN category.controls |->
        [objective |-> category.controls[i].objective,
         status |-> IF RulesAt(m, category, i) # {} THEN (CHOOSE r \in RulesAt(m, category, i) : TRUE).status ELSE "informational"]]]

Generate(m, cats) ==
    [written |-> TRUE, manifest |-> m, categories |-> [c \in DOMAIN cats |-> Overlaid(m, cats[c])],
     orphans |-> {r \in rules(m) : \E c \in DOMAIN cats : r.category = cats[c].name /\ indexOfControl(cats[c].controls, r.sub) = {}}]

\* A manifest of an unknown schema, or a document that does not parse, leaves the file as it was.
masvsReport(doc) ==
    /\ report' = IF doc.schema \in {"android", "ios"} /\ Parsed(masvs) THEN Generate(Normalized(doc), masvs.cats) ELSE report
    /\ UNCHANGED <<masvs, mastg, document, outcome>>

-----------------------------------------------------------------------------
(* mastg.                                                                   *)

Procedures(cats) ==
    UNION {{[category |-> cats[c].name, objective |-> cats[c].controls[i].objective,
             control |-> cats[c].controls[i].control, mastg |-> cats[c].controls[i].mastg] :
            i \in DOMAIN cats[c].controls} : c \in DOMAIN cats}

classifyPlane(p) == IF p.mastg = "MASTG" THEN "device" ELSE IF p.mastg = "Server" THEN "server" ELSE "other"

validStatus(s) == s \in {"pass", "fail", "observed", "pending", "informational", "not-applicable"}

LoadEvidence(ev) == \A i \in DOMAIN ev : ev[i].match # "" /\ validStatus(ev[i].status)

procedureMatches(p, match) == match \in {p.objective, p.control, p.category, p.mastg}

Matching(p, ev) == {i \in DOMAIN ev : procedureMatches(p, ev[i].match)}

\* Later results override earlier ones.
matchAssertion(p, ev) == ev[CHOOSE i \in Matching(p, ev) : \A j \in Matching(p, ev) : j <= i].status

\* The overlay: category and objective of what the build evidences.
MergeMASVSReport(file) ==
    {<<file.categories[at[1]].name, file.categories[at[1]].controls[at[2]].objective>> : at \in
        {x \in (DOMAIN file.categories) \X (1..MaxLines) :
            /\ x[2] \in DOMAIN file.categories[x[1]].controls
            /\ file.categories[x[1]].controls[x[2]].status \in {"evidenced", "partial"}}}

evaluate(p, ev, overlay) ==
    IF Matching(p, ev) # {} THEN matchAssertion(p, ev)
    ELSE IF <<p.category, p.objective>> \in overlay THEN "observed"
    ELSE IF classifyPlane(p) = "device" THEN "pending" ELSE "informational"

Run(cats, ev, overlay) == {[p |-> p, status |-> evaluate(p, ev, overlay)] : p \in Procedures(cats)}

Blocked(results, require) ==
    \/ \E r \in results : r.status = "fail"
    \/ require /\ \E r \in results : r.status = "pending"

\* Exit 1 is an error and 3 a blocked release.
mastgRun(ev, require) ==
    LET results == Run(mastg.cats, ev, MergeMASVSReport(report))
    IN /\ outcome' = IF ~Parsed(mastg) \/ ~LoadEvidence(ev) THEN NotRun
                     ELSE [exit |-> IF Blocked(results, require) THEN 3 ELSE 0,
                           evidence |-> ev, require |-> require, report |-> report, results |-> results]
       /\ UNCHANGED <<masvs, mastg, document, report>>

Next ==
    \/ \E line \in Lines : Write(line)
    \/ \E doc \in Manifests : masvsReport(doc)
    \/ \E ev \in Evidences, require \in BOOLEAN : mastgRun(ev, require)

Spec == Init /\ [][Next]_vars

-----------------------------------------------------------------------------
(* Properties.                                                              *)

\* When both parsers accept a document they read the same controls from tables that
\* have the columns of the catalog in their order, and the same objectives whatever
\* the order behind the first column, so the overlay of one tool names the
\* procedures of the other (MergeMASVSReport: "Matching is exact on
\* (category, objective) since both tools parse the same mapping doc").  A header
\* that begins with another column, or lacks one, is a control to one of them.
CatalogsAgree ==
    LET Objectives(cats) == [c \in DOMAIN cats |-> <<cats[c].name, [i \in DOMAIN cats[c].controls |-> cats[c].controls[i].objective]>>]
    IN  Parsed(masvs) /\ Parsed(mastg) =>
            /\ (\A h \in document.headers : h.cells = Columns) => masvs.cats = mastg.cats
            /\ (\A h \in document.headers : parseHeader(h.cells) # NoColumns /\ parseHeader(h.cells)[1] = 1)
                    => Objectives(masvs.cats) = Objectives(mastg.cats)

\* What a release that is not blocked rests on: no procedure whose last matching
\* assertion is a failure, and with -require-pass every device procedure is asserted,
\* or the manifest the report was made from evidences its control; a skipped or
\* absent transform never counts (Run, evaluate and MergeMASVSReport).
GateSound ==
    outcome.exit = 0 =>
        \A r \in outcome.results :
            LET asserted == {i \in DOMAIN outcome.evidence : procedureMatches(r.p, outcome.evidence[i].match)}
                last == CHOOSE i \in asserted : \A j \in asserted : j <= i
                proved == /\ outcome.report.written
                          /\ \E rule \in rules(outcome.report.manifest) :
                                /\ rule.category = r.p.category /\ rule.sub = r.p.objective
                                /\ rule.status \in {"evidenced", "partial"}
            IN IF asserted # {} THEN /\ outcome.evidence[last].status # "fail"
                                     /\ outcome.require => outcome.evidence[last].status # "pending"
               ELSE outcome.require /\ classifyPlane(r.p) = "device" => proved

\* Evidence of the build is not lost between the manifest and the report: a rule
\* whose category the catalog has shows up at its control or among the orphans
\* (Orphan: "Surfacing it keeps the report honest when the catalog and the plugins
\* drift apart").
EvidenceSurfaces ==
    report.written => \A r \in rules(report.manifest), c \in DOMAIN report.categories :
        report.categories[c].name = r.category =>
            \/ r \in report.orphans
            \/ \E i \in DOMAIN report.categories[c].controls :
                  report.categories[c].controls[i] = [objective |-> r.sub, status |-> r.status]
=============================================================================
