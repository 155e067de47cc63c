---------------------------- MODULE LogEvidence ----------------------------
(***************************************************************************)
(* evidence/logs.py (LogCollector): the game's log is read while the game  *)
(* writes it, locks it and rotates it; a lock is waited for, then a backup *)
(* and a custom log are tried; the copies in the evidence directory are    *)
(* pruned by age and by total size before every collection.  A text that   *)
(* was read or copied keeps all the lines of the log it comes from, and in *)
(* `held` the positions of those that it really holds.                     *)
(***************************************************************************)
EXTENDS Integers, Sequences, FiniteSetsExt

CONSTANTS
    Lines,      \* lines the game writes to one log
    MaxEntries, \* max_entries
    TailLines,  \* lines that max_bytes of collect_snapshot make
    Retries,    \* lock_retries
    MaxBytes,   \* retention_max_bytes, in the weights of the copies
    MaxAge,     \* retention_days, in ticks of clock
    Collections \* ticks of clock within which a collection starts

VARIABLES
    log,      \* the latest log file: its generation and the levels of its lines
    locked,   \* a read of it fails
    spare,    \* a backup of the log exists, a custom log exists
    dir,      \* the copies in the output directory: when made, weight
    call,     \* the running collection: operation, step, attempts, text read
    result,   \* of the last operation: what was parsed, what was copied, crash_info
    clock     \* ticks with every collection and with every copy

lgVars == <<log, locked, spare, dir, call, result, clock>>

Wanted == {"ERROR", "WARN"}            \* the default log_levels
Whole(text) == [gen |-> text.gen, lines |-> text.lines, held |-> 1 .. Len(text.lines)]
NoText == Whole([gen |-> 0, lines |-> << >>])
Backup == Whole([gen |-> 98, lines |-> <<"ERROR">>])
Custom == Whole([gen |-> 99, lines |-> <<"INFO", "ERROR">>])
NoCall == [op |-> "none", step |-> "idle", tries |-> 0, text |-> NoText]
NoResult == [op |-> "none", parsed |-> [gen |-> 0, lines |-> {}], copy |-> NoText, crash |-> 0]
Older == {[made |-> 1, weight |-> 2], [made |-> 2, weight |-> 1], [made |-> 3, weight |-> 1]}

LgInit ==
    /\ \E gen \in {0, 1} : log = [gen |-> gen, lines |-> << >>]
    /\ locked = FALSE
    /\ spare = [backup |-> FALSE, custom |-> FALSE]
    /\ dir = Older /\ call = NoCall /\ result = NoResult /\ clock = 3

-----------------------------------------------------------------------------
(* _parse_log_text: the positions of the first matching lines.             *)
Matching(lines) == {i \in 1 .. Len(lines) : lines[i] \in Wanted}
FirstOf(positions) ==
    {i \in positions : Cardinality({j \in positions : j < i}) < MaxEntries}
Parsed(text) == [gen |-> text.gen, lines |-> FirstOf(Matching(text.lines) \cap text.held)]
Errors(text) == {i \in Parsed(text).lines : text.lines[i] = "ERROR"}

(* Mutant: the first error stands for the crash.                           *)
FirstError(text) == IF Errors(text) = {} THEN 0 ELSE Min(Errors(text))

(* _extract_crash_info: the last error of the entries.                     *)
CrashInfo(text) == IF Errors(text) = {} THEN 0 ELSE Max(Errors(text))

(* _cleanup_old_logs: the old ones, then from the oldest on until the size *)
(* fits; a file that cannot be removed stays and keeps its weight.  The    *)
(* loop comes to a file with the older ones that could be removed gone, so *)
(* it removes the file when what is then left, the file and those after it *)
(* and the stuck ones, is too much.                                        *)
Bytes(files) == Cardinality(files) + Cardinality({f \in files : f.weight = 2})
Cleanup(stuck) ==
    LET young == dir \ {f \in dir \ stuck : clock - f.made > MaxAge}
        left(f) == {g \in young : g.made >= f.made \/ g \in stuck}
    IN  young \ {f \in young \ stuck : Bytes(left(f)) > MaxBytes}

Goto(step) == call' = [call EXCEPT !.step = step, !.text = NoText]
Outside == UNCHANGED <<log, locked, spare>>

Collect ==
    /\ call.step = "idle" /\ clock < 3 + Collections /\ Outside
    /\ \E stuck \in SUBSET dir : dir' = Cleanup(stuck)
    /\ clock' = clock + 1 /\ result' = NoResult
    /\ \E op \in {"collect", "failure", "snapshot"} :
          call' = [NoCall EXCEPT !.op = op,
                     !.step = IF log.gen = 0 THEN "custom" ELSE IF op = "collect" THEN "parse" ELSE "read"]

(* collect parses the file directly, without waiting for a lock, and reads *)
(* it again for the copy.                                                  *)
ParseLog ==
    /\ call.step = "parse" /\ Goto("read") /\ Outside /\ UNCHANGED <<dir, clock>>
    /\ result' = IF locked THEN result ELSE [result EXCEPT !.parsed = Parsed(Whole(log))]

(* _read_with_retry; _read_tail_with_retry starts within a line, that no   *)
(* entry is then made of, or at the first byte of one.                     *)
Tails ==
    LET cut == IF Len(log.lines) > TailLines THEN Len(log.lines) - TailLines ELSE 0
    IN  {[Whole(log) EXCEPT !.held = from .. Len(log.lines)] :
            from \in {cut + 1} \union {n \in {cut + 2} : cut > 0}}
Readable == IF call.op = "snapshot" THEN Tails ELSE {Whole(log)}
ReadLog ==
    /\ call.step = "read" /\ Outside /\ UNCHANGED <<dir, clock, result>>
    /\ \/ ~locked /\ \E text \in Readable : call' = [call EXCEPT !.step = "write", !.text = text]
       \/ locked /\ call.tries < Retries /\ call' = [call EXCEPT !.tries = @ + 1]
       \/ /\ locked /\ ~(call.tries < Retries)
          /\ IF spare.backup /\ call.op # "snapshot"
             THEN call' = [call EXCEPT !.step = "write", !.text = Backup] ELSE Goto("custom")

(* collect and collect_snapshot keep the text, collect_on_failure the      *)
(* entries that were parsed of it.                                         *)
CopyOf(op, text) == IF op = "failure" THEN [text EXCEPT !.held = Parsed(text).lines] ELSE text
ResultOf(op, text, parsed) ==
    [op |-> op, parsed |-> IF op = "collect" /\ text # Custom THEN parsed ELSE Parsed(text),
     copy |-> CopyOf(op, text), crash |-> IF op = "failure" THEN CrashInfo(text) ELSE 0]
File(text, time) == [made |-> time, weight |-> IF Cardinality(text.held) > 1 THEN 2 ELSE 1]
Kept(text) == dir' = dir \union {File(text, clock)} /\ clock' = clock + 1
KeptTwice(text) == dir' = dir \union {File(text, clock)} \union {File(text, clock + 1)} /\ clock' = clock + 2

(* The copy, a temporary file that is renamed.  When that fails, collect   *)
(* copies the file as it is now, the failure log raises, a snapshot is     *)
(* given up.                                                               *)
WriteCopy ==
    /\ call.step = "write" /\ Outside
    /\ Goto("custom") /\ Kept(CopyOf(call.op, call.text))
    /\ result' = ResultOf(call.op, call.text, result.parsed)
SaveFails ==
    /\ call.step = "write" /\ Outside
    /\ \/ /\ call.op = "collect" /\ ~locked /\ Goto("custom") /\ Kept(Whole(log))
          /\ result' = ResultOf("collect", Whole(log), result.parsed)
       \/ /\ UNCHANGED <<dir, clock>> /\ result' = NoResult
          /\ IF call.op = "failure" THEN call' = NoCall ELSE Goto("custom")

(* A custom log is copied too, and stands in for the default one that gave *)
(* no copy; what was parsed of that one is then dropped.  One that is not  *)
(* there or cannot be read is passed over; a copy of it that cannot be     *)
(* written ends collect_on_failure without a result.                       *)
CustomLog ==
    /\ call.step = "custom" /\ call' = NoCall /\ Outside
    /\ \/ /\ UNCHANGED <<dir, clock>>
          /\ result' = IF result.copy = NoText THEN NoResult ELSE result
       \/ /\ spare.custom /\ call.op # "snapshot" /\ result.copy # NoText
          /\ Kept(CopyOf(call.op, Custom)) /\ UNCHANGED result
       \/ /\ spare.custom /\ call.op # "snapshot" /\ result.copy = NoText
          /\ result' = ResultOf(call.op, Custom, result.parsed)
          /\ IF call.op = "failure" THEN KeptTwice(CopyOf(call.op, Custom)) ELSE Kept(Custom)
       \/ /\ spare.custom /\ call.op = "failure" /\ result' = NoResult
          /\ Kept(CopyOf(call.op, Custom)) \/ UNCHANGED <<dir, clock>>

-----------------------------------------------------------------------------
(* The game goes on until the last collection modelled is over.            *)
World == (clock < 3 + Collections \/ call.step # "idle") /\ UNCHANGED <<dir, call, result, clock>>
GameWrites ==
    /\ ~locked /\ log.gen # 0 /\ Len(log.lines) < Lines /\ World /\ UNCHANGED <<locked, spare>>
    /\ \E level \in {"ERROR", "INFO"} : log' = [log EXCEPT !.lines = Append(@, level)]
GameRotates ==
    /\ log.gen < 2 /\ log' = [gen |-> log.gen + 1, lines |-> << >>] /\ World /\ UNCHANGED <<locked, spare>>
GameLocks == locked' = ~locked /\ World /\ UNCHANGED <<log, spare>>
SpareAppears ==
    /\ call.step = "idle"
    /\ \/ spare' = [spare EXCEPT !.backup = TRUE] \/ spare' = [spare EXCEPT !.custom = TRUE]
    /\ World /\ UNCHANGED <<log, locked>>

LgNext ==
    \/ Collect \/ ParseLog \/ ReadLog \/ WriteCopy \/ SaveFails \/ CustomLog
    \/ GameWrites \/ GameRotates \/ GameLocks \/ SpareAppears

-----------------------------------------------------------------------------
(* What a finished collection reports is what its copy shows.  Of a        *)
(* failure the copy holds the entries and nothing else, and the crash is   *)
(* the last error of the copy; it is the last error of the log that was    *)
(* read only if max_entries took all of its entries (later ones are never  *)
(* parsed).  Of a snapshot the entries are those of the copied tail.       *)
(* collect reads twice, so its entries are those of the first lines of the *)
(* copy, and that only when both reads were of the same log: NOT when the  *)
(* log was rotated in between, the first read failed (no entries), or the  *)
(* backup was copied (collect, collect_snapshot, collect_on_failure).      *)
FirstLinesOf(copy, entries) ==
    \E k \in 0 .. Len(copy.lines) : entries.lines = FirstOf({i \in Matching(copy.lines) : i <= k})
LastErrorOf(copy, i) ==
    /\ i \in copy.held /\ copy.lines[i] = "ERROR"
    /\ \A j \in copy.held : copy.lines[j] = "ERROR" => j <= i
ReportsItsCopy ==
    LET copy == result.copy IN
    call.step = "idle" /\ copy # NoText =>
        /\ result.op = "collect" =>
              /\ copy.held = 1 .. Len(copy.lines)
              /\ result.parsed.gen = copy.gen => FirstLinesOf(copy, result.parsed)
        /\ result.op = "snapshot" => result.parsed = Parsed(copy)
        /\ result.op = "failure" =>
              /\ result.parsed = [gen |-> copy.gen, lines |-> copy.held]
              /\ IF result.crash = 0 THEN \A i \in copy.held : copy.lines[i] # "ERROR"
                 ELSE LastErrorOf(copy, result.crash)
              /\ Cardinality(Matching(copy.lines)) <= MaxEntries =>
                    \A i \in 1 .. Len(copy.lines) : copy.lines[i] = "ERROR" => i <= result.crash

(* The cleanup removes no copy while an older one that could be removed    *)
(* stays, and fits the size unless a copy could not be removed.            *)
PrunesTheOldest ==
    call.step = "idle" => \A stuck \in SUBSET dir :
        LET kept == Cleanup(stuck)
        IN  /\ \A f \in dir \ kept, g \in kept \ stuck : f.made < g.made
            /\ stuck = {} => Bytes(kept) <= MaxBytes

LogsAreKept == ReportsItsCopy /\ PrunesTheOldest
=============================================================================
