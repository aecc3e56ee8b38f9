------------------------------ MODULE MarkerRun ------------------------------
(***************************************************************************)
(* Runs of the agent over the mangle table: the preflight makes its checks *)
(* and reads the table twice for rules that use the reserved TOS bits, the *)
(* rule scan reads it for the marker, and only then does                   *)
(* MarkerRuleManager.Ensure (MarkerRule) read and write it.  The marker of *)
(* an earlier run uses the reserved bits too, and must not count.          *)
(***************************************************************************)
EXTENDS MarkerRule

CONSTANT Reserved   \* rules whose text sets TOS, DSCP or a mark with 0x04 or 0x08

ASSUME ReservedAssumption == "marker" \in Reserved /\ Reserved \subseteq Rules

VARIABLES
    stage,      \* of the run: idle, a check of the preflight, report, scan, ensure
    supported   \* no required check of this preflight has failed so far

preflightVars == <<stage, supported>>
runVars == <<vars, preflightVars>>

Checks == {"host", "kernel", "ipv4", "tos", "external"}

\* Every variable has its type, and only a run that got past the preflight is
\* inside Ensure.
RunTypeOK ==
    /\ TypeOK
    /\ stage \in {"idle", "report", "scan", "ensure"} \cup Checks /\ supported \in BOOLEAN
    /\ stage \in {"scan", "ensure"} => supported
    /\ pc # "idle" /\ op = "ensure" => stage = "ensure"

RunInit == Init /\ stage = "idle" /\ supported = TRUE

-----------------------------------------------------------------------------
\* Mutant: the agent's own rule counts like any other.
isNoMarkerRule(r) == FALSE

isOncacheMarkerRule(r) == r = "marker"

\* The rules of all chains are looked through; only in the agent's own chain is
\* the marker recognised, a copy of it elsewhere counts like any other rule.
hasReservedTOSConflict ==
    \/ elsewhere \in Reserved
    \/ \E i \in DOMAIN rules : rules[i] \in Reserved /\ ~isOncacheMarkerRule(rules[i])

StartRun ==
    /\ stage = "idle" /\ pc = "idle" /\ stage' = "host" /\ supported' = TRUE
    /\ UNCHANGED vars

\* A check ends with or without a reason against the node, and the next one is
\* made in any case.
Checked(check, ok, next) ==
    /\ stage = check /\ stage' = next
    /\ supported' = (supported /\ ok)
    /\ UNCHANGED <<tableVars, opVars>>

\* Checks of files, sockets and commands that the agent does not influence.
Probed(check, next) ==
    \/ Checked(check, TRUE, next) /\ UNCHANGED edits
    \/ Checked(check, FALSE, next) /\ edits < MaxEdits /\ edits' = edits + 1

\* checkBPFFS, checkBTF, checkCRI.
CheckHost == Probed("host", "kernel")

\* checkHelpers, checkTC.
CheckKernel == Probed("kernel", "ipv4")

\* checkIPv4Forward, checkRoutes.
CheckIPv4 == Probed("ipv4", "tos")

CheckTOS == Checked("tos", ~hasReservedTOSConflict, "external") /\ UNCHANGED edits

CheckExternalConflicts == Checked("external", ~hasReservedTOSConflict, "report") /\ UNCHANGED edits

\* Checker.Check and Observer.Discover: without support the run ends here.
Report ==
    /\ stage = "report" /\ stage' = IF supported THEN "scan" ELSE "idle"
    /\ UNCHANGED <<vars, supported>>

\* RuleScanner.Scan, then EnsureMarker.
ScanRules ==
    /\ stage = "scan" /\ UNCHANGED supported
    /\ IF ReadConflict THEN stage' = "idle" /\ UNCHANGED vars
       ELSE stage' = "ensure" /\ BeginEnsure

\* A command cannot be run, another part of the run fails, or it is cancelled,
\* before Ensure.
RunFails ==
    /\ stage \notin {"idle", "ensure"} /\ stage' = "idle"
    /\ edits < MaxEdits /\ edits' = edits + 1
    /\ UNCHANGED <<tableVars, opVars, supported>>

\* A step of Ensure or Remove; the run goes on elsewhere when Ensure returns.
Ends == stage' = (IF pc' = "idle" THEN "idle" ELSE stage) /\ UNCHANGED supported

\* Remove, outside of runs.
RemoveMarker == stage = "idle" /\ BeginRemove /\ UNCHANGED preflightVars

RunStep ==
    \/ CheckHost \/ CheckKernel \/ CheckIPv4 \/ CheckTOS \/ CheckExternalConflicts
    \/ Report \/ ScanRules

RunNext ==
    \/ StartRun \/ RunStep \/ RunFails \/ RemoveMarker
    \/ (ManagerStep \/ CommandFails) /\ Ends
    \/ (Edit \/ CopyElsewhere) /\ UNCHANGED preflightVars

RunSpec == RunInit /\ [][RunNext]_runVars

\* The agent runs again and again, each run to its end, and a copied rule is
\* taken away.
FairRunSpec ==
    /\ RunSpec
    /\ WF_runVars(StartRun) /\ WF_runVars(RunStep)
    /\ WF_runVars(ManagerStep /\ Ends)
    /\ WF_runVars(elsewhere # "none" /\ CopyElsewhere /\ UNCHANGED preflightVars)

-----------------------------------------------------------------------------
\* No rule of somebody else, no changed marker and no copy of it uses the
\* reserved bits.
TableFree ==
    /\ elsewhere \notin Reserved
    /\ \A i \in DOMAIN rules : rules[i] \in Reserved => rules[i] = "marker"

\* Once nobody else uses the reserved bits, runs get past the preflight, Ensure
\* succeeds and the marker is there, again and again: whatever others did to the
\* rule is repaired, and the marker of one run is no obstacle to the next
\* (isOncacheMarkerRule).
MarkerRestored ==
    <>[]TableFree =>
        /\ []<>(stage = "ensure")
        /\ []<>(result = "ok" /\ op = "ensure" /\ \E i \in DOMAIN rules : rules[i] = "marker")
==============================================================================
