------------------------------- MODULE Logger -------------------------------
(***************************************************************************)
(* logger_t (cuti/cuti/logger.cpp) with a file_backend_t                   *)
(* (cuti/cuti/file_backend.cpp): messages are appended to a log file, and  *)
(* when that has grown too large the files are renamed, from the oldest to *)
(* the newest one, each to a number that is one higher.                    *)
(*                                                                         *)
(* Each step can fail, and what has been done by then is not undone: the   *)
(* message is lost and counted, and the next one starts all over.  The     *)
(* process can also be killed at each step, and be started again.          *)
(* A report holds the logger's mutex, so reports do not overlap.           *)
(***************************************************************************)
EXTENDS Integers, Sequences

CONSTANTS
  SizeLimit,        \* size_limit_, in entries
  RotationDepth,    \* rotation_depth_: the number of old log files
  MaxFailures,      \* max_failures: the largest unsigned int
  MaxMessages,      \* bound: the messages that are reported by a process
  MaxRestarts,      \* bound: how often the process is killed
  Absent            \* a file that does not exist

VARIABLES
  files,            \* the entries of the log file, 0, and of the old ones
  rotate_reported,  \* rotate_reported_
  n_failures,       \* n_failures_
  reported,         \* the messages this process has reported
  restarts,         \* the processes before this one
  written           \* every entry that was ever written, in order

logVars == <<files, rotate_reported, n_failures, reported, restarts, written>>

Levels == 0 .. RotationDepth

(***************************************************************************)
(* An entry is the n'th message of a process, the notice that n messages   *)
(* were lost, the notice that the files are rotated, or the part that was  *)
(* written of one of these.                                                *)
(***************************************************************************)
Entry(what, n) == [what |-> what, n |-> n, process |-> restarts]
Entries ==
  [what : {"message", "lost", "rotating", "part"}, n : 0 .. MaxMessages, process : 0 .. MaxRestarts]

LoggerTypeOK ==
  /\ files \in [Levels -> Seq(Entries) \cup {Absent}]
  /\ rotate_reported \in BOOLEAN
  /\ n_failures \in 0 .. MaxFailures
  /\ reported \in 0 .. MaxMessages
  /\ restarts \in 0 .. MaxRestarts
  /\ written \in Seq(Entries)

\* The file backend's constructor creates the log file.
LoggerInit ==
  /\ files = [i \in Levels |-> IF i = 0 THEN <<>> ELSE Absent]
  /\ rotate_reported = FALSE
  /\ n_failures = 0
  /\ reported = 0 /\ restarts = 0
  /\ written = <<>>

-----------------------------------------------------------------------------
(***************************************************************************)
(* What a report does to the log, a record of files, rotate_reported and   *)
(* written.  Of an operation that can fail these are the outcomes: records *)
(* of the log and of whether the operation has succeeded.                  *)
(***************************************************************************)
Log == [files |-> files, rotate_reported |-> rotate_reported, written |-> written]

Outcome(log, ok) == [log |-> log, ok |-> ok]

\* create_logfile(): the file is opened for appending, or created.
Opened(log) == IF log.files[0] = Absent THEN [log EXCEPT !.files[0] = <<>>] ELSE log

Appended(log, e) ==
  [log EXCEPT !.files[0] = Append(@, e), !.written = Append(@, e)]

\* write_log_entry(), which may fail when a part has been written.
WriteEntry(log, e) ==
  {Outcome(Appended(log, e), TRUE), Outcome(log, FALSE), Outcome(Appended(log, Entry("part", 0)), FALSE)}

\* Mutant of RotateStep: the log file is renamed first.
RotateStepFromNewest(fs, step) ==
  LET i == step - 2 IN
    IF step = 1
      THEN [fs EXCEPT ![RotationDepth] = Absent]
    ELSE IF fs[i] = Absent THEN fs
    ELSE [fs EXCEPT ![i + 1] = fs[i], ![i] = Absent]

(***************************************************************************)
(* do_rotate(): the first step deletes the oldest file; the others rename  *)
(* the files below it, if they exist.                                      *)
(***************************************************************************)
RotateStep(fs, step) ==
  LET i == RotationDepth - step + 1 IN
    IF step = 1
      THEN [fs EXCEPT ![RotationDepth] = Absent]
    ELSE IF fs[i] = Absent THEN fs
    ELSE [fs EXCEPT ![i + 1] = fs[i], ![i] = Absent]

AfterRotateSteps(fs, steps) ==
  LET after[s \in 0 .. steps] == IF s = 0 THEN fs ELSE RotateStep(after[s - 1], s)
  IN after[steps]

\* Rotation fails after some of its steps, and otherwise the file can be opened anew or not.
Rotate(log) ==
  LET After(steps) == [log EXCEPT !.files = AfterRotateSteps(@, steps)]
      rotated      == [After(RotationDepth + 1) EXCEPT !.rotate_reported = FALSE]
  IN {Outcome(After(steps), FALSE) : steps \in 0 .. RotationDepth}
       \cup {Outcome(rotated, FALSE), Outcome(Opened(rotated), TRUE)}

\* What follows an operation that succeeded: a set of outcomes of Op for each.
Then(outcomes, Op(_)) == UNION {IF o.ok THEN Op(o.log) ELSE {o} : o \in outcomes}

(***************************************************************************)
(* open_log_handle(): the notice is written once, while rotation fails.    *)
(***************************************************************************)
OpenLogHandle(log) ==
  LET opened      == Opened(log)
      Noticed(l)  == Rotate([l EXCEPT !.rotate_reported = TRUE])
  IN {Outcome(log, FALSE)} \cup
       IF Len(opened.files[0]) < SizeLimit THEN {Outcome(opened, TRUE)}
       ELSE IF opened.rotate_reported THEN Rotate(opened)
       ELSE Then(WriteEntry(opened, Entry("rotating", 0)), Noticed)

\* file_backend_t::report()
BackendReport(log, e) ==
  LET Write(l) == WriteEntry(l, e) IN Then(OpenLogHandle(log), Write)

-----------------------------------------------------------------------------
\* The notice of the messages that were lost, if any.
LostNotice(log) ==
  IF n_failures = 0 THEN {Outcome(log, TRUE)} ELSE BackendReport(log, Entry("lost", n_failures))

LogIs(log) ==
  /\ files' = log.files
  /\ rotate_reported' = log.rotate_reported
  /\ written' = log.written

(***************************************************************************)
(* logger_t::report(): when the notice has been written the failures start *)
(* from zero, also if the message is lost then.                            *)
(***************************************************************************)
Report ==
  /\ reported < MaxMessages
  /\ reported' = reported + 1
  /\ \E notice \in LostNotice(Log) :
       IF ~notice.ok
         THEN /\ LogIs(notice.log)
              /\ n_failures' = IF n_failures = MaxFailures THEN MaxFailures ELSE n_failures + 1
         ELSE \E message \in BackendReport(notice.log, Entry("message", reported')) :
                /\ LogIs(message.log)
                /\ n_failures' = IF message.ok THEN 0 ELSE 1
  /\ UNCHANGED restarts

(***************************************************************************)
(* The process is killed between two steps of a report, where a step could *)
(* have failed as well, and another is started, if the log can be opened.  *)
(***************************************************************************)
Restart ==
  /\ restarts < MaxRestarts /\ reported < MaxMessages
  /\ LET Message(log) == BackendReport(log, Entry("message", reported + 1)) IN
       \E o \in LostNotice(Log) \cup Then(LostNotice(Log), Message) :
         LogIs([Opened(o.log) EXCEPT !.rotate_reported = FALSE])
  /\ restarts' = restarts + 1
  /\ n_failures' = 0
  /\ reported' = 0

LoggerNext == Report \/ Restart

-----------------------------------------------------------------------------
\* All files, from the oldest entry to the newest.
NthOldest(fs, k) == fs[RotationDepth + 1 - k]

KeptIn(fs) ==
  LET kept[k \in 0 .. RotationDepth + 1] ==
        IF k = 0 THEN <<>>
        ELSE IF NthOldest(fs, k) = Absent THEN kept[k - 1]
        ELSE kept[k - 1] \o NthOldest(fs, k)
  IN kept[RotationDepth + 1]

Kept == KeptIn(files)

(***************************************************************************)
(* Whatever fails, and whenever the process is killed: the files hold, in  *)
(* order, what they held before and what has been written since, except    *)
(* that a rotation may have deleted the oldest one.  So no file is renamed *)
(* to one that exists, and nothing is appended but to the newest.  (A file *)
(* has room for two entries, or a single report could rotate twice.)       *)
(* Without old files it is the log file that is deleted, and with it what  *)
(* the report has added to it by then.                                     *)
(***************************************************************************)
OldestLength == IF files[RotationDepth] = Absent THEN 0 ELSE Len(files[RotationDepth])

MayBeDeleted(added) ==
  {0} \cup IF RotationDepth > 0 THEN {OldestLength} ELSE OldestLength .. OldestLength + added

Continued ==
  \E n \in MayBeDeleted(Len(written') - Len(written)) :
    Kept' = SubSeq(written', Len(written) - Len(Kept) + n + 1, Len(written'))

LogIsKept == [][Continued]_logVars

(***************************************************************************)
(* "avoid repeating that entry while rotation keeps throwing"              *)
(* (file_backend.cpp): a file has at most one such notice of a process,    *)
(* and it has no message after it unless another process has come.         *)
(***************************************************************************)
NoticeIsNotRepeated ==
  \A l \in Levels : files[l] # Absent =>
    \A i \in DOMAIN files[l], j \in DOMAIN files[l] :
      i < j /\ files[l][i].what = "rotating" => files[l][j].process > files[l][i].process

\* The notice is remembered, as long as the file that it is in is not rotated.
NoticeIsRemembered ==
  files[0] # Absent =>
    \A i \in DOMAIN files[0] :
      files[0][i].what = "rotating" /\ files[0][i].process = restarts =>
        rotate_reported /\ Len(files[0]) >= SizeLimit

(***************************************************************************)
(* How many of a process's messages the first n entries of s tell of: each *)
(* message of itself, and a notice of those that it counts.                *)
(***************************************************************************)
Tells(e) == IF e.what = "message" THEN 1 ELSE IF e.what = "lost" THEN e.n ELSE 0

Told(s, process, n) ==
  LET told[k \in 0 .. n] ==
        IF k = 0 THEN 0
        ELSE IF s[k].process = process THEN told[k - 1] + Tells(s[k])
        ELSE told[k - 1]
  IN told[n]

\* One of these notices counts "many".
ManyLost(s, process, n) ==
  \E k \in 1 .. n : s[k].process = process /\ s[k].what = "lost" /\ s[k].n = MaxFailures

(***************************************************************************)
(* Before each message in the log, all earlier ones of its process are in  *)
(* the log or are counted by a notice, once; "many" counts for at least    *)
(* MaxFailures.                                                            *)
(***************************************************************************)
EachTellsLosses(s) ==
  \A p \in DOMAIN s : s[p].what = "message" =>
    LET told == Told(s, s[p].process, p - 1) IN
      IF ManyLost(s, s[p].process, p - 1) THEN told <= s[p].n - 1 ELSE told = s[p].n - 1

LossesAreTold == EachTellsLosses(written)

\* What is not in the log is counted, and will be told.
LossesAreCounted ==
  LET told == Told(written, restarts, Len(written)) IN
    IF ManyLost(written, restarts, Len(written)) \/ n_failures = MaxFailures
      THEN told + n_failures <= reported
      ELSE told + n_failures = reported

ProcessesFollow ==
  /\ \A p \in DOMAIN written : written[p].process <= restarts
  /\ \A l \in Levels : files[l] # Absent =>
       \A i \in DOMAIN files[l] : files[l][i].process <= restarts

\* The files hold the last of what was written.
KeptIsLast ==
  /\ Len(Kept) <= Len(written)
  /\ Kept = SubSeq(written, Len(written) - Len(Kept) + 1, Len(written))

LoggerInv ==
  /\ LoggerTypeOK
  /\ ProcessesFollow
  /\ NoticeIsNotRepeated /\ NoticeIsRemembered
  /\ LossesAreTold /\ LossesAreCounted
  /\ KeptIsLast

=============================================================================
