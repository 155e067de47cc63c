-------------------------- MODULE JourneyExecutor --------------------------
(***************************************************************************)
(* core/run_executor.py, JourneyExecutor.execute: the anti-sleep guard,    *)
(* the precheck, the journey, and for each way the journey can end the     *)
(* list of steps that write the result, pack the evidence and close the    *)
(* run.  A step that writes evidence may raise (OSError): what happens     *)
(* then differs from path to path.  Also core/evidence_hooks.py            *)
(* (on_session_end, refresh_artifact) and core/anti_sleep.py.              *)
(***************************************************************************)
EXTENDS Journeys

VARIABLES
    ex,      \* where execute is
    path,    \* how the journey ended, as the except clauses see it
    step,    \* the step of that path that comes next, counted from 1
    report,  \* status last written into run-result.json
    pack,    \* run_result of the evidence pack, "none" before it exists
    status,  \* terminal status of the path
    reason,  \* cleanup_reason of a cancelled run
    sealed,  \* the evidence of a cancelled run is sealed, as its path knows
    record,  \* what the run store took from the path, and whether it lost a write
    guard,   \* the anti-sleep guard runs
    cleaned, \* calls of adapter.cleanup
    outcomeOf, \* the outcome returned: status and exit code
    files    \* the declared files of the run, and what its manifests say of them

exVars == <<ex, path, step, report, pack, status, reason, sealed, record, guard,
            cleaned, outcomeOf, files>>
allVars == <<vars, exVars>>

Nothing == [status |-> "none", exit |-> -1]

(* What the path wrote into the record of the run.  A write is lost when   *)
(* the run has no name, its record is gone, or the store raises: the error *)
(* is swallowed.                                                           *)
NoRecord == [status |-> "none", sealed |-> FALSE, lost |-> FALSE]
Stored(new) == {new, [record EXCEPT !.lost = TRUE]}

(* The files a manifest declares (_write_journey_evidence): those that are *)
(* there, those missing when the manifest on the disk was made and when the*)
(* one in the archive was, and whether a write failed or was left out.     *)
Declared == {"result", "summary", "trace", "manifest", "junit"}
NoFiles == [there |-> {}, missing |-> Declared, archived |-> Declared, lost |-> FALSE]
Written(new) == [files EXCEPT !.there = @ \union new]
Missed(new) == {[Written(got) EXCEPT !.lost = TRUE] : got \in SUBSET new}
Listed == [Written({"trace", "manifest"}) EXCEPT !.missing = Declared \ (files.there \union {"trace"})]
Packed(new) ==
    {[Written(new) EXCEPT !.archived = files.missing]}
        \union Missed(new) \union {[f EXCEPT !.archived = files.missing] : f \in Missed(new)}

(* The steps of each path, in the order of the code.                       *)
StepsOf(p) ==
    CASE p = "passed" ->
            <<"shot", "case", "trace", "write", "session", "persist", "trace", "refresh",
              "seal">>
      [] p = "cancelled" ->
            <<"recover", "shot", "case", "write", "trace", "session", "persist", "trace",
              "refresh", "seal", "finish">>
      [] p = "failed" ->
            <<"crash", "case", "trace", "write", "failure", "session", "persist", "trace",
              "refresh">>
      [] p = "crashed" -> <<"crash", "case", "write", "session">>

(* Steps that let an OSError of the log collector or the packager through. *)
MayRaise == {"case", "crash", "session"}

StatusOf(p) == CASE p = "passed" -> {"PASSED"}
                 [] p = "cancelled" -> {"none"}
                 [] p = "failed" -> IF outcome.why = "STS2Error"
                                    THEN {"FAILED_PLATFORM", "BLOCKED_ENVIRONMENT"}
                                    ELSE {"FAILED_PLATFORM"}
                 [] p = "crashed" -> {"FAILED_PRODUCT"}

(* on_session_end: the result of the pack from the summary it is given.    *)
run_result(p, st) ==
    CASE st = "CANCELLED" /\ p = "cancelled" -> "cancelled"
      [] st = "BLOCKED_ENVIRONMENT" -> "blocked"
      [] p \in {"failed", "crashed"} /\ st # "BLOCKED_ENVIRONMENT" -> "failed"
      [] OTHER -> "passed"

-----------------------------------------------------------------------------
ExInit ==
    /\ Init /\ ex = "idle" /\ path = "none" /\ step = 0 /\ report = "none"
    /\ pack = "none" /\ status = "none" /\ reason = "none" /\ sealed = FALSE
    /\ record = NoRecord /\ guard = FALSE /\ cleaned = 0 /\ outcomeOf = Nothing
    /\ files = NoFiles

Leave(st, exit) == /\ ex' = "returned" /\ outcomeOf' = [status |-> st, exit |-> exit]

(* The guard may fail to start, and is off where there is no caffeinate.   *)
StartGuard == guard' \in BOOLEAN
StopGuard == guard' = FALSE

Execute ==
    /\ ex = "idle" /\ StartGuard /\ ex' \in {"precheck", "mode"}
    /\ UNCHANGED <<vars, path, step, report, pack, status, reason, sealed, record,
                   cleaned, outcomeOf, files>>

(* Mutant: an error of the precheck escapes with the guard running.        *)
PrecheckEscapes ==
    /\ ex = "precheck" /\ ex' = "raised"
    /\ UNCHANGED <<vars, path, step, report, pack, status, reason, sealed, record, guard,
                   cleaned, outcomeOf, files>>

(* Mutant: a blocked precheck is reported and the journey starts anyway.   *)
PrecheckGoesOn ==
    /\ ex = "precheck" /\ ex' = "mode" /\ report' = "BLOCKED_ENVIRONMENT"
    /\ UNCHANGED <<vars, path, step, pack, status, reason, sealed, record, guard,
                   cleaned, outcomeOf, files>>

(* The precheck (the recovery of the menu in front of it, the checks) lets *)
(* the journey start, raises, or blocks; a block is reported and packed,   *)
(* and the pack may raise where nothing stops the guard.                   *)
Precheck ==
    /\ ex = "precheck"
    /\ \/ ex' = "mode" /\ UNCHANGED <<report, pack, status, guard, outcomeOf, files>>
       \/ ex' = "raised" /\ StopGuard /\ UNCHANGED <<report, pack, status, outcomeOf, files>>
       \/ /\ status' = "BLOCKED_ENVIRONMENT"
          /\ \/ /\ files' \in Packed({"result", "summary", "junit"}) /\ pack' = "blocked"
                /\ StopGuard /\ Leave("BLOCKED_ENVIRONMENT", 2)
             \/ /\ files' \in Missed({"result", "summary"})
                /\ ex' = "raised" /\ UNCHANGED <<pack, guard, outcomeOf>>
          /\ report' = IF "result" \in files'.there THEN status' ELSE report
    /\ UNCHANGED <<vars, path, step, reason, sealed, record, cleaned>>

(* _resolve_combat_mode_with_debug_check downgrades traversal when the     *)
(* debug console is not verified; ensure_clean_main_menu runs before a new *)
(* run and its answer is ignored, an exception of it is a crash, or a      *)
(* failure if it is the game's or a card_test without a card.              *)
Launch ==
    /\ ex = "mode"
    /\ \/ /\ Begin /\ ex' = "journey" /\ UNCHANGED <<path, step, status>>
       \/ /\ goal = "idle" /\ ex' = "wrap"
          /\ \/ path' = "crashed" /\ status' = "FAILED_PRODUCT"
             \/ path' = "failed" /\ status' \in {"FAILED_PLATFORM", "BLOCKED_ENVIRONMENT"}
          /\ step' = 1
          /\ UNCHANGED vars
    /\ UNCHANGED <<report, pack, reason, sealed, record, guard, cleaned, outcomeOf, files>>

(* The journey runs (it runs in no other phase): the executor waits.       *)
On(JourneyAction) == JourneyAction /\ UNCHANGED exVars

Travel ==
    \/ On(CheckCancel) \/ On(Send) \/ On(After) \/ On(Raises) \/ On(ReadBefore)
    \/ On(Confirmed) \/ On(ResetRead) \/ On(ResetForced) \/ On(Checkpoint)
    \/ On(StartThink) \/ On(SelectRead) \/ On(CharacterRead) \/ On(EmbarkThink)
    \/ On(Peek) \/ On(ContinueThink) \/ On(ChapterThink) \/ On(DebugThink)
    \/ On(FindThink) \/ On(NavRead) \/ On(NavAnswered) \/ On(Observe) \/ On(Poll)
    \/ On(PollOver) \/ On(NavTimeout)

(* The except clause takes over; the locals of the journey are gone.       *)
Wrap ==
    /\ ex = "journey" /\ ~Running
    /\ ex' = "wrap" /\ path' = outcome.how /\ step' = 1
    /\ status' \in StatusOf(path')
    /\ goal' = "idle" /\ mode' = "traversal" /\ late' = 0 /\ saved' = FALSE
    /\ cancel' = FALSE /\ outcome' = [how |-> path', why |-> "none"]
    /\ UNCHANGED <<todo, at, page, left, call, nav, report, pack, reason, sealed,
                   record, guard, cleaned, outcomeOf, files>>

-----------------------------------------------------------------------------
AllDone == step > Len(StepsOf(path))
Wrapping(s) == ex = "wrap" /\ ~AllDone /\ StepsOf(path)[step] = s
Done == step' = step + 1

(* The controlled restart of a cancelled run; no lifecycle counts as a     *)
(* failed cleanup.                                                         *)
Recover ==
    /\ Wrapping("recover") /\ Done
    /\ \/ status' = "CANCELLED" /\ reason' = "none"
       \/ status' = "BLOCKED_ENVIRONMENT" /\ reason' = "GAME_CONTROL_UNAVAILABLE"
       \/ status' = "FAILED_PLATFORM" /\ reason' = "CANCEL_CLEANUP_FAILED"
    /\ UNCHANGED <<vars, ex, path, report, pack, sealed, record, guard, cleaned, outcomeOf, files>>

(* Steps whose errors are swallowed and whose results nobody reads: the    *)
(* last picture, waited for until the page is still; the failure report;   *)
(* the path of the archive, put into the result when there is one.         *)
LastPicture == Wrapping("shot")
FailureReport == Wrapping("failure")
ArtifactPath == Wrapping("persist")
Quiet ==
    /\ LastPicture \/ FailureReport \/ ArtifactPath \/ Wrapping("case") \/ Wrapping("crash")
    /\ Done
    /\ UNCHANGED <<vars, ex, path, report, pack, status, reason, sealed, record, guard,
                   cleaned, outcomeOf, files>>

(* write_result swallows an OSError: the file then keeps what it had.      *)
WriteResult ==
    /\ Wrapping("write") /\ Done
    /\ \/ report' = status /\ files' = Written({"result"})
       \/ UNCHANGED report /\ files' \in Missed({})
    /\ UNCHANGED <<vars, ex, path, pack, status, reason, sealed, record, guard, cleaned,
                   outcomeOf>>

(* _write_journey_evidence: the trace, then the manifest of what is there  *)
(* by then; an OSError is swallowed.                                       *)
WriteTrace ==
    /\ Wrapping("trace") /\ Done /\ files' \in {Listed} \union Missed({"trace"})
    /\ UNCHANGED <<vars, ex, path, report, pack, status, reason, sealed, record, guard, cleaned,
                   outcomeOf>>

SessionEnd ==
    /\ Wrapping("session") /\ Done /\ pack' = run_result(path, status)
    /\ files' \in Packed({"summary", "junit"})
    /\ UNCHANGED <<vars, ex, path, report, status, reason, sealed, record, guard, cleaned,
                   outcomeOf>>

(* refresh_artifact: the archive again, with the last manifest.            *)
Refresh ==
    /\ Wrapping("refresh") /\ Done /\ files' \in Packed({"junit"})
    /\ UNCHANGED <<vars, ex, path, report, pack, status, reason, sealed, record, guard, cleaned,
                   outcomeOf>>

(* A passed run writes the seal into its record at once; a cancelled one   *)
(* keeps it for finish_cancel.                                             *)
Seal ==
    /\ Wrapping("seal") /\ Done
    /\ IF path = "passed"
       THEN record' \in Stored([record EXCEPT !.sealed = TRUE]) /\ UNCHANGED sealed
       ELSE sealed' = TRUE /\ UNCHANGED record
    /\ UNCHANGED <<vars, ex, path, report, pack, status, reason, guard, cleaned, outcomeOf,
                   files>>

(* RunStore.finish_cancel: the reason decides the status of the record.    *)
CancelStatus == CASE reason = "none" -> "CANCELLED"
                  [] reason = "GAME_CONTROL_UNAVAILABLE" -> "BLOCKED_ENVIRONMENT"
                  [] OTHER -> "FAILED_PLATFORM"
FinishCancel ==
    /\ Wrapping("finish") /\ Done
    /\ record' \in Stored([record EXCEPT !.status = CancelStatus, !.sealed = sealed])
    /\ UNCHANGED <<vars, ex, path, report, pack, status, reason, sealed, guard, cleaned,
                   outcomeOf, files>>

(* Mutant: a cancelled run forgets that its evidence was not written.      *)
EvidenceForgotten ==
    /\ path = "cancelled" /\ \E s \in MayRaise : Wrapping(s)
    /\ step' = Len(StepsOf(path))
    /\ UNCHANGED <<vars, ex, path, report, pack, status, reason, sealed, record, guard,
                   cleaned, outcomeOf, files>>

(* The evidence cannot be written.  A passed run becomes a crash; a        *)
(* cancelled one skips to the end of its list; the others raise.           *)
EvidenceRaises ==
    /\ \E s \in MayRaise : Wrapping(s)
    /\ CASE path = "passed" ->
               /\ path' = "crashed" /\ step' = 1
               /\ status' = "FAILED_PRODUCT" /\ UNCHANGED <<ex, reason>>
         [] path = "cancelled" ->
               /\ step' = Len(StepsOf(path))
               /\ reason' = IF reason = "none" THEN "CANCEL_EVIDENCE_FAILED" ELSE reason
               /\ UNCHANGED <<ex, path, status>>
         [] OTHER -> ex' = "escaping" /\ UNCHANGED <<path, step, status, reason>>
    /\ files' \in Missed(IF Wrapping("session") THEN {"summary"} ELSE {})
    /\ UNCHANGED <<vars, report, pack, sealed, record, guard, cleaned, outcomeOf>>

(* The finally clause, whether a status is returned or an error escapes.   *)
Finally ==
    /\ ex = "escaping" \/ (ex = "wrap" /\ AllDone)
    /\ cleaned' = cleaned + 1 /\ StopGuard
    /\ IF ex = "escaping" THEN ex' = "raised" /\ UNCHANGED outcomeOf
       ELSE Leave(status, IF path = "passed" \/ (path = "cancelled" /\ reason = "none")
                          THEN 0 ELSE 1)
    /\ UNCHANGED <<vars, path, step, report, pack, status, reason, sealed, record, files>>

ExStep ==
    \/ Execute \/ Precheck \/ Launch \/ Wrap \/ Recover \/ Quiet \/ WriteResult \/ WriteTrace
    \/ SessionEnd \/ Refresh \/ Seal \/ FinishCancel \/ EvidenceRaises \/ Finally

ExNext == ExStep \/ Travel \/ On(RequestCancel)
ExSpec == ExInit /\ [][ExNext]_allVars /\ WF_allVars(ExStep) /\ WF_allVars(Travel)

-----------------------------------------------------------------------------
(* Exit code 0 is worth something: the pack exists and says the same as    *)
(* the status; when no write failed, the manifest on the disk and the one  *)
(* in the archive miss none of the files they declare (the order of        *)
(* write_result, the two manifests and refresh_artifact); and unless the   *)
(* store lost the write, whose error the code swallows without changing    *)
(* the exit code, the record is sealed, that of a cancelled run cancelled. *)
(* Whatever the exit code, the record claims nothing that is not so: one   *)
(* that is sealed has a pack, one that is cancelled the pack of a cancelled*)
(* run, and its seal.                                                      *)
GreenIsWhole ==
    /\ outcomeOf.exit = 0 =>
        /\ ~files.lost => files.missing = {} /\ files.archived = {}
        /\ \/ outcomeOf.status = "PASSED" /\ pack = "passed"
           \/ outcomeOf.status = "CANCELLED" /\ pack = "cancelled"
        /\ record.lost \/ (record.sealed
              /\ (outcomeOf.status = "CANCELLED" => record.status = "CANCELLED"))
    /\ record.sealed => pack # "none"
    /\ record.status = "CANCELLED" => record.sealed /\ pack = "cancelled"

(* On every way out the adapter is cleaned up once if a journey was tried, *)
(* and the anti-sleep guard is off.  The one exception the code has is the *)
(* block reported by the precheck whose pack cannot be written.            *)
Released ==
    ex \in {"returned", "raised"} =>
        /\ path # "none" => cleaned = 1
        /\ guard => ex = "raised" /\ path = "none" /\ status = "BLOCKED_ENVIRONMENT"

(* Once a failure is reported no later step turns the report green, though *)
(* a green report may still turn red.                                      *)
RedStaysRed == [][report \notin {"none", "PASSED"} => report' # "PASSED"]_report
=============================================================================
