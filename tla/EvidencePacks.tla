--------------------------- MODULE EvidencePacks ---------------------------
(***************************************************************************)
(* evidence/packager.py (EvidencePackager) driven by core/evidence_hooks.py*)
(* (RealEvidenceHooks): the packs of several runs in one directory, the    *)
(* writes of a session end one after the other, the archive, and the       *)
(* retention.  The disk may be nearly full (a JSON or a report is skipped),*)
(* may refuse a write (OSError), and the process may die between any two   *)
(* writes.  Packs are numbers, in the order of their names.                *)
(***************************************************************************)
EXTENDS Naturals, Sequences, FiniteSetsExt

CONSTANTS Packs, Retention

VARIABLES
    listed,   \* the finished packs that have a summary
    stray,    \* the finished pack directories without one
    current,  \* the pack of the running session, 0 when none runs
    pack,     \* its directory, the summary on disk and the one in the archive
    space,    \* "plenty", "low" (writes are skipped), "broken" (they raise)
    steps,    \* what the running call still has to do
    hooks,    \* captured files, failure seen, last result, stage of the session
    pruned    \* what the retention of this session left: "not yet", "all", "some"

packVars == <<listed, stray, current, pack, space, steps, hooks, pruned>>

NoSummary == [result |-> "none", files |-> FALSE, failure |-> FALSE, path |-> FALSE]
NoPack == [there |-> FALSE, json |-> NoSummary, files |-> FALSE, zip |-> NoSummary,
           sealed |-> FALSE, skipped |-> FALSE]
NewHooks == [files |-> FALSE, failure |-> FALSE, result |-> "unknown", stage |-> "cases"]

Create == <<"mkdir", "json", "md", "repair", "retain">>
Copy == <<"copy", "files", "filesMd">>
Export == <<"junit", "path", "pathMd", "zip">>

PackInit ==
    /\ listed = {} /\ stray = {} /\ current = 0 /\ pack = NoPack /\ space = "plenty"
    /\ steps = << >> /\ hooks = NewHooks /\ pruned = "not yet"

Idle == current # 0 /\ steps = << >>
Open ==
    /\ current = 0 /\ current' \in Packs \ (listed \union stray)
    /\ UNCHANGED <<listed, stray, pack, space, steps, hooks, pruned>>

(* on_case_end and on_crash: a captured file is remembered, a failure is   *)
(* kept for the summary.                                                   *)
CaseEnd ==
    /\ Idle /\ hooks.stage = "cases"
    /\ \E file, failed \in BOOLEAN :
          hooks' = [hooks EXCEPT !.files = @ \/ file, !.failure = @ \/ failed]
    /\ UNCHANGED <<listed, stray, current, pack, space, steps, pruned>>

(* on_session_end; after a session end that raised, the executor reports a *)
(* crash and ends the session again as failed.                             *)
SessionEnd ==
    /\ Idle /\ hooks.stage \in {"cases", "raised"}
    /\ \E r \in {"passed", "failed", "blocked", "cancelled"} :
          /\ hooks.stage = "raised" => r = "failed"
          /\ r = "passed" => ~hooks.failure
          /\ hooks' = [hooks EXCEPT !.result = r,
                !.failure = @ \/ hooks.stage = "raised",
                !.stage = IF @ = "raised" THEN "again" ELSE "ending"]
    /\ steps' = Create \o Copy \o Export \o <<"clear">>
    /\ UNCHANGED <<listed, stray, current, pack, space, pruned>>

(* refresh_artifact: the archive is made again after the last reports.     *)
Refresh ==
    /\ Idle /\ hooks.stage \in {"ending", "again"} /\ pack.there
    /\ steps' = Export /\ hooks' = [hooks EXCEPT !.stage = "refreshed"]
    /\ UNCHANGED <<listed, stray, current, pack, space, pruned>>

(* The session is over, or its process dies between two writes.            *)
Leave ==
    /\ current # 0 /\ current' = 0 /\ pack' = NoPack /\ hooks' = NewHooks
    /\ steps' = << >> /\ pruned' = "not yet" /\ space' = "plenty"
    /\ listed' = IF pack.json # NoSummary THEN listed \union {current} ELSE listed
    /\ stray' = IF pack.there /\ pack.json = NoSummary THEN stray \union {current} ELSE stray

-----------------------------------------------------------------------------
At(names) == steps # << >> /\ Head(steps) \in names
Onward == steps' = Tail(steps) /\ UNCHANGED <<current, space, stray>>

Mkdir ==
    /\ At({"mkdir"}) /\ space # "broken" /\ Onward /\ pack' = [pack EXCEPT !.there = TRUE]
    /\ UNCHANGED <<listed, hooks, pruned>>

SummaryOf(step) ==
    CASE step = "json" -> [NoSummary EXCEPT !.result = hooks.result, !.failure = hooks.failure]
      [] step = "files" -> [pack.json EXCEPT !.files = hooks.files]
      [] step = "path" -> [pack.json EXCEPT !.path = TRUE]

(* _write_json: skipped when space is low; the two updates need a summary  *)
(* to update.  create_pack forgets the failure it has written.             *)
WriteJson ==
    /\ At({"json", "files", "path"}) /\ space # "broken" /\ Onward
    /\ pack' = IF Head(steps) # "json" /\ pack.json = NoSummary THEN pack
               ELSE IF space = "low" THEN [pack EXCEPT !.skipped = TRUE]
               ELSE [pack EXCEPT !.json = SummaryOf(Head(steps)), !.sealed = FALSE]
    /\ UNCHANGED <<listed, hooks, pruned>>

(* summary.md, the repair advice and junit.xml: no property reads them,    *)
(* but the report's OSError is one of WriteFails.                          *)
WriteReport ==
    /\ At({"md", "filesMd", "pathMd", "repair", "junit"}) /\ Onward
    /\ Head(steps) \in {"repair", "junit"} \/ space # "broken"
    /\ UNCHANGED <<listed, pack, hooks, pruned>>

(* _enforce_retention: the first packs by name go, never the new one; a    *)
(* directory that cannot be removed is left.                               *)
AllListed == IF pack.json = NoSummary THEN listed ELSE listed \union {current}
Excess == Cardinality(AllListed) - Retention
(* Mutant: the new pack is a candidate like the others.                    *)
DoomedByName ==
    IF Cardinality(AllListed) <= Retention THEN {}
    ELSE {p \in AllListed : Cardinality({q \in AllListed : q < p}) < Excess}

Doomed ==
    IF Cardinality(AllListed) <= Retention THEN {}
    ELSE {p \in AllListed \ {current} : Cardinality({q \in AllListed \ {current} : q < p}) < Excess}

Retain ==
    /\ At({"retain"}) /\ Onward
    /\ \E gone \in SUBSET Doomed :
          /\ listed' = listed \ gone
          /\ pack' = IF current \in gone THEN NoPack ELSE pack
          /\ pruned' = IF gone = Doomed THEN "all" ELSE "some"
    /\ UNCHANGED hooks

CopyFiles ==
    /\ At({"copy"}) /\ space # "broken" /\ Onward
    /\ pack' = [pack EXCEPT !.files = hooks.files]
    /\ UNCHANGED <<listed, hooks, pruned>>

(* make_archive: an OSError leaves the previous archive.                   *)
Archive ==
    /\ At({"zip"}) /\ Onward
    /\ pack' = IF space = "broken" THEN pack ELSE [pack EXCEPT !.zip = pack.json, !.sealed = TRUE]
    /\ UNCHANGED <<listed, hooks, pruned>>

Clear ==
    /\ At({"clear"}) /\ Onward /\ hooks' = [hooks EXCEPT !.files = FALSE, !.failure = FALSE]
    /\ UNCHANGED <<listed, pack, pruned>>

(* A write raises: out of create_pack it escapes the session end, out of   *)
(* the copy and the export it is swallowed.                                *)
InCreate == Head(steps) \in {"mkdir", "json", "md"}
WriteFails ==
    /\ At({"mkdir", "json", "md", "copy", "files", "filesMd", "path", "pathMd"})
    /\ space = "broken"
    /\ steps' = IF ~InCreate /\ hooks.stage # "refreshed" THEN <<"clear">> ELSE << >>
    /\ hooks' = IF ~InCreate THEN hooks
                ELSE [hooks EXCEPT !.stage = IF @ = "ending" THEN "raised" ELSE "escaped"]
    /\ UNCHANGED <<listed, stray, current, pack, space, pruned>>

DiskTurns ==
    /\ steps # << >> /\ space' \in {"plenty", "low", "broken"} \ {space}
    /\ UNCHANGED <<listed, stray, current, pack, steps, hooks, pruned>>

PackNext ==
    \/ Open \/ CaseEnd \/ SessionEnd \/ Refresh \/ Leave \/ Mkdir \/ WriteJson
    \/ WriteReport \/ Retain \/ CopyFiles \/ Archive \/ Clear \/ WriteFails \/ DiskTurns

-----------------------------------------------------------------------------
(* Retention never removes the pack that is being made, whatever the order *)
(* of the names, and leaves no more packs than allowed unless a directory  *)
(* could not be removed (_enforce_retention).                              *)
RetentionHolds ==
    /\ pruned # "not yet" => pack.there
    /\ pruned = "all" => Cardinality(AllListed) <= Max({Retention, 1})

(* A sealed archive holds the summary that is on the disk, so the path the *)
(* summary gives is that of an archive that says the same; it gives the    *)
(* result the session declared last, unless low space kept a write back.   *)
SealedIsCurrent ==
    pack.sealed =>
        /\ pack.zip = pack.json
        /\ pack.zip # NoSummary /\ ~pack.skipped => pack.zip.result = hooks.result

(* A summary lists a file only when the file is in the pack.               *)
NamesRealFiles == pack.json.files => pack.files

(* What an evidence pack promises, after any sequence of skipped, failed   *)
(* and repeated writes.                                                    *)
PacksAreWhole == RetentionHolds /\ SealedIsCurrent /\ NamesRealFiles
=============================================================================
