------------------------------- MODULE CheckPlan -------------------------------
(***************************************************************************)
(* The plan of one verification (sandbox/checks.py): which of the checks   *)
(* of .pr-reliability.json, as it is at the reviewed head, are run.        *)
(*                                                                         *)
(* A path is a sequence of segments; a pattern too, with "**" for any      *)
(* number of segments and "*" for the wildcards within one segment.        *)
(***************************************************************************)
EXTENDS Integers, Sequences, FiniteSets, Folds

CONSTANTS
  Approved,          \* names of the operator's allowlist
  ConfigFile,        \* the path of the configuration
  MaxTotalTimeout    \* _MAX_TOTAL_CHECK_TIMEOUT_SECONDS

ASSUME PlanAssumption == MaxTotalTimeout \in Nat

-----------------------------------------------------------------------------
(* Path filters *)

\* fnmatchcase, of one segment.
Fits(segment, part) == part \in {"*", segment}

\* Faulty variant: ** stands for at least one segment.
SomeSegments(previous) ==
  LET current[j \in DOMAIN previous] == j > 0 /\ (previous[j - 1] \/ current[j - 1])
  IN current

\* The row of **: reached with no segment more, or with one more than before.
AnySegments(previous) ==
  LET current[j \in DOMAIN previous] == previous[j] \/ (j > 0 /\ current[j - 1])
  IN current

\* _path_matches: row i tells which prefixes of the path the first i parts match.
PathMatches(path, pattern) ==
  LET rows[i \in 0 .. Len(pattern)] ==
        IF i = 0 THEN [j \in 0 .. Len(path) |-> j = 0]
        ELSE IF pattern[i] = "**" THEN AnySegments(rows[i - 1])
        ELSE [j \in 0 .. Len(path) |-> j > 0 /\ rows[i - 1][j - 1] /\ Fits(path[j], pattern[i])]
  IN rows[Len(pattern)][Len(path)]

\* What a filter means: the path is cut into pieces, one for each part.
Covers(path, pattern) ==
  \E cut \in [0 .. Len(pattern) -> 0 .. Len(path)] :
    /\ cut[0] = 0 /\ cut[Len(pattern)] = Len(path)
    /\ \A i \in 1 .. Len(pattern) :
         IF pattern[i] = "**" THEN cut[i - 1] <= cut[i]
         ELSE cut[i] = cut[i - 1] + 1 /\ Fits(path[cut[i]], pattern[i])

-----------------------------------------------------------------------------
(* load_verification_plan *)

Refused(code) == [error |-> code, checks |-> <<>>]

\* _parse_repository_check: the fields have their types, the name is approved, and the
\* image, the command and the limits are those of the operator.
Accepted(check) == check.name \in Approved /\ check.conforms

\* A changed configuration runs every check; else a changed path must match.
Reason(check, changed) ==
  IF ConfigFile \in changed THEN "configuration_changed"
  ELSE IF \E path \in changed, pattern \in check.paths : PathMatches(path, pattern)
  THEN "path_match"
  ELSE "no_matching_paths"

Planned(check, changed) ==
  [name |-> check.name, timeout |-> check.timeout,
   selected |-> Reason(check, changed) # "no_matching_paths"]

TotalTimeout(checks) ==
  MapThenFoldSet(LAMBDA m, n : m + n, 0, LAMBDA i : IF checks[i].selected THEN checks[i].timeout ELSE 0,
    LAMBDA S : CHOOSE i \in S : TRUE, DOMAIN checks)

\* file: missing (absent or a link), broken (too large or no JSON of the schema), or read.
LoadPlan(head) ==
  LET given == head.checks
      names == {given[i].name : i \in DOMAIN given}
      checks == [i \in DOMAIN given |-> Planned(given[i], head.changed)]
  IN IF head.file = "missing" THEN Refused("missing")
     ELSE IF \/ head.file = "broken" \/ given = <<>>
             \/ \E i \in DOMAIN given : ~Accepted(given[i])
             \/ Cardinality(names) < Len(given)
             \/ TotalTimeout(checks) > MaxTotalTimeout
     THEN Refused("invalid")
     ELSE [error |-> "none", checks |-> checks]
=============================================================================
