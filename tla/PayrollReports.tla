---------------------------- MODULE PayrollReports ----------------------------
(***************************************************************************)
(* What the payroll artifacts carry: the three reports and the WPS file,   *)
(* as functions of the lines they are built from and of the status the     *)
(* cycle was read with.  Layout and number formats are left out; which     *)
(* amounts stand in a row, and which are added into a total, are not.      *)
(***************************************************************************)
EXTENDS Integers, FiniteSets, Functions

(* The amounts of a PayrollLine. *)
Amount == {"basic", "regular", "overtime", "allowances", "other", "absence",
           "advance", "otherDeductions", "gross", "calculated", "net"}

(* A table of lines has one line per worker: its amounts, and whether its  *)
(* net pay was overridden.                                                 *)
Workers(table) == DOMAIN table

(* A column of an artifact shows one amount, or several added up. *)
Only(a) == {a}
Allowances == {"allowances", "other"}
Deductions == {"absence", "advance", "otherDeductions"}
Variable   == {"overtime", "allowances", "other"}

Cell(line, column) == SumFunctionOnSet(line.amount, column)

Rows(table, columns) ==
    [w \in Workers(table) |-> [k \in columns |-> Cell(table[w], k)]]

(* report_data adds each amount of all lines; a report adds those totals.  *)
ReportTotal(table, a) ==
    SumFunction([w \in Workers(table) |-> table[w].amount[a]])

TotalOfWithoutAdvance(table, column) ==
    SumFunction([a \in column \ {"advance"} |-> ReportTotal(table, a)])

TotalOf(table, column) == SumFunction([a \in column |-> ReportTotal(table, a)])

Totals(table, columns) == [k \in columns |-> TotalOf(table, k)]

Overrides(table) == Cardinality({w \in Workers(table) : table[w].overridden})

WorkerColumns ==
    {Only("basic"), Only("regular"), Only("overtime"), Allowances, Deductions,
     Only("calculated"), Only("net")}

(* _build_wps_export *)
WpsFile(status, table) ==
    [type      |-> "wps",
     heading   |-> "none",
     rows      |-> Rows(table, {Only("basic"), Variable, Deductions, Only("net")}),
     totals    |-> <<>>,
     overrides |-> 0]

FinalNoteOfAny(status) == "final"

(* "FINAL PAYROLL REPORT" or "REVIEW REPORT - NOT YET FINANCE APPROVED" *)
FinalNote(status) == IF status \in {"approved", "locked"} THEN "final" ELSE "review"

HtmlReport(status, table) ==
    [type      |-> "report_html",
     heading   |-> FinalNote(status),
     rows      |-> Rows(table, WorkerColumns),
     totals    |-> Totals(table, {Only("gross"), Deductions, Only("net")}),
     overrides |-> Overrides(table)]

PdfReport(status, table) ==
    [type      |-> "report_pdf",
     heading   |-> status,
     rows      |-> Rows(table, WorkerColumns),
     totals    |-> Totals(table, WorkerColumns \cup {Only("gross")}),
     overrides |-> Overrides(table)]

(* The totals are those of the summary sheet; the total row of the worker  *)
(* sheet is a formula over its rows.                                       *)
ExcelReport(status, table) ==
    [type      |-> "report_excel",
     heading   |-> status,
     rows      |-> Rows(table, {Only(a) : a \in Amount}),
     totals    |-> Totals(table, {Only("gross"), Deductions, Only("calculated"), Only("net")}),
     overrides |-> Overrides(table)]

(* build_report_artifact *)
Artifact(type, status, table) ==
    CASE type = "wps"          -> WpsFile(status, table)
      [] type = "report_html"  -> HtmlReport(status, table)
      [] type = "report_pdf"   -> PdfReport(status, table)
      [] type = "report_excel" -> ExcelReport(status, table)

(* Does the artifact say that the payroll is approved? *)
SaysFinal(artifact) == artifact.heading \in {"final", "approved", "locked"}

-----------------------------------------------------------------------------
(* The amount of a row under a heading it need not have a column for. *)
RowFigure(row, figure) ==
    IF figure \in DOMAIN row THEN row[figure]
    ELSE LET parts == IF figure = Only("gross")
                      THEN {Only("regular"), Only("overtime"), Allowances}
                      ELSE {Only(a) : a \in figure}
         IN  SumFunctionOnSet(row, parts)

(* Every total of an artifact is the sum of what its rows show. *)
AddsUp(artifact) ==
    \A figure \in DOMAIN artifact.totals :
        artifact.totals[figure] =
            SumFunction([w \in DOMAIN artifact.rows |-> RowFigure(artifact.rows[w], figure)])
=============================================================================
