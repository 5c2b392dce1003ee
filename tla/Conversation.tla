---------------------------- MODULE Conversation ----------------------------
(***************************************************************************)
(* What the passes of the engine understand of a response of the language  *)
(* model (internal/llm/parser.go) and what is gathered for it              *)
(* (internal/llm/followup.go).                                             *)
(*                                                                         *)
(* A reply is a sequence of lines.  A line begins with the name of a       *)
(* section, which need not be one the parser knows, and has what stands    *)
(* under it as its text; or it names a tool and the values it is asked     *)
(* for, as parseCSV and the filter of file paths leave them.               *)
(***************************************************************************)
EXTENDS Naturals, Sequences, FiniteSets

fieldOrder == <<"SUMMARY", "ROOT_CAUSE", "SEVERITY", "EXIT_TYPE",
                "ACTION_REQUIRED", "BUG_FIXABLE", "CONFIDENCE",
                "RECOMMENDATIONS", "FOLLOW_UP">>

IsTool(line) == "tool" \in DOMAIN line

Places(r, names) == {i \in DOMAIN r : ~IsTool(r[i]) /\ r[i].section \in names}

First(S) == CHOOSE i \in S : \A k \in S : i <= k

(* parseFields looks for the first line of each section and takes it up to *)
(* that of the next section of fieldOrder that there is.  It slices        *)
(* backwards, and panics, unless they come in that order.                  *)
Sliceable(r) ==
    \A m, n \in DOMAIN fieldOrder :
        LET before == Places(r, {fieldOrder[m]})
            after == Places(r, {fieldOrder[n]})
        IN  m < n /\ before # {} /\ after # {} => First(before) < First(after)

Field(r, name) ==
    IF Places(r, {name}) = {} THEN "" ELSE r[First(Places(r, {name}))].text

(* Tools are looked for behind the first FOLLOW_UP: of the whole text,     *)
(* also where it is set in bold and begins no section.                     *)
ParseFollowUps(r) ==
    LET headings == Places(r, {"FOLLOW_UP", "**FOLLOW_UP"}) IN
    IF headings = {} THEN <<>>
    ELSE SelectSeq(SubSeq(r, First(headings), Len(r)), IsTool)

ParseAnalysis(r) ==
    [summary    |-> Field(r, "SUMMARY"),
     confidence |-> Field(r, "CONFIDENCE"),
     followUps  |-> ParseFollowUps(r)]

(* In percent.                                                             *)
mapConfidence(level) ==
    CASE level = "high" -> 85 [] level = "medium" -> 65 [] level = "low" -> 40
      [] OTHER -> 50

(* There is always one hypothesis; without a summary it has no title.      *)
MapToHypotheses(analysis) ==
    [by |-> "llm", title |-> analysis.summary,
     confidence |-> mapConfidence(analysis.confidence)]

-----------------------------------------------------------------------------
(* What the follow-ups may yield, as pairs of a tool and a value.          *)
Pieces(fs) == UNION {{fs[i].tool} \X fs[i].values : i \in DOMAIN fs}

(* Traces and files are kept by name.  The other tools have one place      *)
(* each, where the result of a later follow-up replaces that of an earlier *)
(* one.                                                                    *)
Keyed == {"TRACE_LOGS", "GITHUB_FILES"}

(* Execute: every collection may fail or find nothing, which is logged.    *)
Gathered(fs) ==
    {deep \in SUBSET Pieces(fs) :
        \A p, q \in deep : p[1] = q[1] /\ p[1] \notin Keyed => p = q}

(* The labels that the follow-ups write into the label map of the alert,   *)
(* which every copy of the alert shares.                                   *)
Written(fs) ==
    LET asked(tool) == \E i \in DOMAIN fs : fs[i].tool = tool /\ fs[i].values # {} IN
    {label \in {"trace_id", "custom_query"} :
        asked(IF label = "trace_id" THEN "TRACE_LOGS" ELSE "LOG_QUERY")}

=============================================================================
