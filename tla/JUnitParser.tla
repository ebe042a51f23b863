----------------------------- MODULE JUnitParser -----------------------------
(***************************************************************************)
(* The streaming parse of one JUnit file (ingest/junit.py): the elements   *)
(* of a document of nested suites arrive one by one, cases wait on the     *)
(* suite they are in because output declared after them may be theirs, and *)
(* the file can be cut anywhere, as a killed worker leaves it.             *)
(*                                                                         *)
(* A child of a case has a tag and a text: the message of a failure or of  *)
(* a rerun, or captured output; None when it is absent or blank. Standard  *)
(* error is treated as standard output is, and left out, and so are names. *)
(***************************************************************************)
EXTENDS Integers, SequencesExt

CONSTANTS
    Children,       \* children that a case may have: [tag, text]
    SuiteOutputs,   \* output that a suite may have, None for a blank one
    None,
    MaxDepth,       \* bound: suites within suites
    MaxElements     \* bound: elements of the document, with those in cases

VARIABLES
    levels,     \* the list of cases, then the open suites, outermost first
    inCase,     \* a testcase is open
    children,   \* its children so far
    status,     \* "reading", and how the parse ended
    warning,    \* why the results may be incomplete
    document    \* history: the elements that were complete

vars == <<levels, inCase, children, status, warning, document>>

\* Why nothing could be read of a file.
Rejections == {"empty_file", "doctype_rejected", "not_xml", "unreadable_file"}

\* No warning is none.
ASSUME JUnitAssumption == None \notin {"no_testcases", "malformed_xml"} \cup Rejections

FailureTags == [failure |-> "fail", error |-> "error", skipped |-> "skip"]

Absent == [tag |-> None, text |-> None]

Level == [out |-> None, cases |-> <<>>]

\* The last failure wins.
MutRead(case, child) ==
    CASE child.tag \in DOMAIN FailureTags ->
             [case EXCEPT !.outcome = FailureTags[child.tag], !.detail = child]
      [] child.tag = "rerun" -> [case EXCEPT !.rerun = TRUE]
      [] child.tag = "output" -> [case EXCEPT !.out = child.text]
      [] OTHER -> case

\* What one child adds to its case (_build_case): the first failure decides
\* the outcome, a rerun gives its message to a case that has none.
Read(case, child) ==
    CASE child.tag \in DOMAIN FailureTags /\ case.outcome = "pass" ->
             [case EXCEPT !.outcome = FailureTags[child.tag], !.detail = child]
      [] child.tag = "rerun" ->
             [case EXCEPT !.rerun = TRUE,
                          !.detail = IF @.text = None THEN child ELSE @]
      [] child.tag = "output" -> [case EXCEPT !.out = child.text]
      [] OTHER -> case

\* `at` is history: the place of the case in the document.
BuildCase(at) ==
    LET Built[n \in 0 .. Len(children)] ==
            IF n = 0
            THEN [outcome |-> "pass", rerun |-> FALSE, detail |-> Absent, out |-> None, at |-> at]
            ELSE Read(Built[n - 1], children[n])
    IN Built[Len(children)]

WithSuiteOutput(case, suite) ==
    [case EXCEPT !.out = IF @ = None THEN suite.out ELSE @]

\* A suite ends: its cases, with its output, go to the scope around it.
Emitted(stack) ==
    LET n == Len(stack)
        resolved == [i \in DOMAIN stack[n].cases |-> WithSuiteOutput(stack[n].cases[i], stack[n])]
    IN [Front(stack) EXCEPT ![n - 1].cases = @ \o resolved]

\* Suites that are still open are dropped.
MutDrained(stack) == <<stack[1]>>

\* All suites end, the innermost first.
Drained(stack) ==
    LET After[n \in 0 .. Len(stack) - 1] ==
            IF n = 0 THEN stack ELSE Emitted(After[n - 1])
    IN After[Len(stack) - 1]

\* Output in a case is taken for output of the suite as well.
MutAfterOutput(text) ==
    IF Len(levels) > 1 THEN [levels EXCEPT ![Len(levels)].out = text] ELSE levels

\* Output belongs to the innermost suite unless it is in a case or in none.
AfterOutput(text) ==
    IF Len(levels) > 1 /\ ~inCase THEN [levels EXCEPT ![Len(levels)].out = text] ELSE levels

Init ==
    /\ levels = <<Level>>
    /\ inCase = FALSE
    /\ children = <<>>
    /\ status = "reading"
    /\ warning = None
    /\ document = <<>>

\* The elements so far, those in cases included.
Size == FoldLeft(LAMBDA n, element : n + 1 + Len(element.children),
                 Len(children), document)

Reading == status = "reading" /\ Size < MaxElements

Element(kind, text, parts) ==
    document' = Append(document, [kind |-> kind, text |-> text, children |-> parts])

StartSuite ==
    /\ Reading /\ ~inCase /\ Len(levels) <= MaxDepth
    /\ levels' = Append(levels, Level)
    /\ Element("open", None, <<>>)
    /\ UNCHANGED <<inCase, children, status, warning>>

EndSuite ==
    /\ Reading /\ ~inCase /\ Len(levels) > 1
    /\ levels' = Emitted(levels)
    /\ Element("close", None, <<>>)
    /\ UNCHANGED <<inCase, children, status, warning>>

Output ==
    /\ Reading /\ ~inCase
    /\ \E text \in SuiteOutputs : levels' = AfterOutput(text) /\ Element("output", text, <<>>)
    /\ UNCHANGED <<inCase, children, status, warning>>

StartCase ==
    /\ Reading /\ ~inCase
    /\ inCase' = TRUE
    /\ UNCHANGED <<levels, children, status, warning, document>>

Child ==
    /\ Reading /\ inCase
    /\ \E child \in Children :
        /\ children' = Append(children, child)
        /\ levels' = IF child.tag = "output" THEN AfterOutput(child.text) ELSE levels
    /\ UNCHANGED <<inCase, status, warning, document>>

EndCase ==
    /\ status = "reading" /\ inCase
    /\ levels' = [levels EXCEPT ![Len(levels)].cases = Append(@, BuildCase(Len(document) + 1))]
    /\ Element("case", None, children)
    /\ inCase' = FALSE
    /\ children' = <<>>
    /\ UNCHANGED <<status, warning>>

\* The file is well formed to its end.
EndDocument ==
    /\ status = "reading" /\ ~inCase /\ Len(levels) = 1
    /\ status' = "parsed"
    /\ warning' = IF levels[1].cases = <<>> THEN "no_testcases" ELSE None
    /\ UNCHANGED <<levels, inCase, children, document>>

\* The file stops short, or is not XML from here on.
ParseError ==
    /\ status = "reading"
    /\ status' = "truncated"
    /\ levels' = Drained(levels)
    /\ warning' = "malformed_xml"
    /\ UNCHANGED <<inCase, children, document>>

\* An empty file, one with a DOCTYPE or without XML, or an unreadable one.
Reject ==
    /\ status = "reading" /\ document = <<>> /\ ~inCase
    /\ status' = "rejected"
    /\ \E reason \in Rejections : warning' = reason
    /\ UNCHANGED <<levels, inCase, children, document>>

Next ==
    \/ StartSuite \/ EndSuite \/ Output \/ StartCase \/ Child \/ EndCase
    \/ EndDocument \/ ParseError \/ Reject

Spec == Init /\ [][Next]_vars

-----------------------------------------------------------------------------
Cases == levels[1].cases

Ended == status # "reading"

\* What the document says, read off its elements: how many suites are open
\* after the first k, which suites are around element i, and the output that
\* was captured directly in the suite that element j opens.
Before(k, kind) == {i \in 1 .. k : document[i].kind = kind}

Depth(k) == Cardinality(Before(k, "open")) - Cardinality(Before(k, "close"))

Around(i) == {j \in Before(i - 1, "open") : \A k \in j .. i - 1 : Depth(k) >= Depth(j)}

OutputOf(j) ==
    LET own == {i \in Before(Len(document), "output") : j \in Around(i) /\ Depth(i) = Depth(j)}
    IN IF own = {} THEN None ELSE document[Max(own)].text

\* The last output among the children of a case.
OwnOutput(i) ==
    LET parts == document[i].children
        own == {k \in DOMAIN parts : parts[k].tag = "output"}
    IN IF own = {} THEN None ELSE parts[Max(own)].text

\* The outcome of a case: that of its first failure.
OutcomeAt(i) ==
    LET parts == document[i].children
        failing == {k \in DOMAIN parts : parts[k].tag \in DOMAIN FailureTags}
    IN IF failing = {} THEN "pass" ELSE FailureTags[parts[Min(failing)].tag]

(***************************************************************************)
(* Wherever the file is cut, the cases that were complete are delivered,   *)
(* in the order of the document, once each and with the outcome their      *)
(* children give them; and when anything may be missing there is a warning *)
(* (_parse_stream: "keep what was recovered, record why").                 *)
(***************************************************************************)
CompleteCasesSurvive ==
    Ended =>
        /\ {Cases[n].at : n \in DOMAIN Cases} = Before(Len(document), "case")
        /\ \A m, n \in DOMAIN Cases : m < n => Cases[m].at < Cases[n].at
        /\ \A n \in DOMAIN Cases : Cases[n].outcome = OutcomeAt(Cases[n].at)
        /\ warning = None => status = "parsed" /\ Cases # <<>>

(***************************************************************************)
(* A case that captured no output of its own has that of the nearest suite *)
(* around it that captured any, declared before or after it, and never the *)
(* output of another case (_with_suite_output, _attach_suite_output).      *)
(***************************************************************************)
OutputIsNearest ==
    Ended => \A n \in DOMAIN Cases :
        LET i == Cases[n].at
            speaking == {j \in Around(i) : OutputOf(j) # None}
        IN Cases[n].out = IF OwnOutput(i) # None THEN OwnOutput(i)
                          ELSE IF speaking = {} THEN None ELSE OutputOf(Max(speaking))
=============================================================================
