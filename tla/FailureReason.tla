----------------------------- MODULE FailureReason -----------------------------
(***************************************************************************)
(* What Run says of a failed ansible-runner process: the messages of the    *)
(* failed and unreachable hosts among the event files the process left.     *)
(* One working directory keeps the artifacts of several runs, each in a     *)
(* directory of its own.  A message is the counter of its event.            *)
(***************************************************************************)
EXTENDS Integers, Sequences, FiniteSets

CONSTANTS
    ArtifactsHistoryLimit, \* --artifacts-history-limit
    QuietStarts,           \* how many tasks go well before the events of interest
    MaxEmits,              \* bound: events of interest of a run
    MaxRuns                \* bound: runs

ASSUME ReasonAssumption ==
    /\ ArtifactsHistoryLimit \in Nat \ {0} /\ QuietStarts \subseteq Nat
    /\ MaxEmits \in Nat /\ MaxRuns \in Nat

VARIABLES
    artifacts, \* per ident of a kept run, what its job_events directory holds
    runs,      \* how many runs there were; the last one is the ident of the newest
    happened,  \* the events of the newest run, by their counters
    phase,     \* of the newest run
    result     \* what Run has returned for it

vars == <<artifacts, runs, happened, phase, result>>

Quiet == [event |-> "runner_on_ok", data |-> "plain"]
Unreadable == [event |-> "unreadable", data |-> "plain"]

(* jobEvent with the event_data that matters: whether errors are ignored,   *)
(* and whether it has the types of runnerEventData.                         *)
jobEvent ==
    [event : {"runner_on_failed", "runner_on_unreachable"},
     data  : {"plain", "ignore_errors", "mistyped"}] \cup {Quiet, Unreadable}

Ok == [err |-> FALSE, reasoned |-> FALSE, msgs |-> <<>>]
PlainErr == [Ok EXCEPT !.err = TRUE]

Init ==
    /\ artifacts = <<>> /\ runs = 0 /\ happened = <<>>
    /\ phase = "ended" /\ result = Ok

-------------------------------------------------------------------------------
(* The names of the event files are <counter>-<uuid>.json; '-' comes before *)
(* the digits.                                                              *)
digits[n \in Nat] == IF n < 10 THEN <<n>> ELSE Append(digits[n \div 10], n % 10)

(* The order of file names: the first digit that differs decides, and a     *)
(* name comes after those it extends.                                       *)
NameBefore(i, j) ==
    \E k \in 1..Len(digits[j]) :
        /\ \A l \in 1..(k - 1) : l <= Len(digits[i]) /\ digits[i][l] = digits[j][l]
        /\ k > Len(digits[i]) \/ digits[i][k] < digits[j][k]

Position(file, files) == Cardinality({other \in files : NameBefore(other, file)})

(* Mutant: in the order the directory happens to have, newest first.        *)
ReadDirUnsorted(files) ==
    [k \in 1..Cardinality(files) |->
        CHOOSE file \in files : Cardinality({other \in files : other > file}) = k - 1]

(* os.ReadDir sorts by name, and what is made of the files keeps its order. *)
ReadDir(files) ==
    [k \in 1..Cardinality(files) |->
        CHOOSE file \in files : Position(file, files) = k - 1]

(* Files that cannot be read are left out.                                  *)
parseEvents(events) == {i \in DOMAIN events : events[i] # Unreadable}

(* Whether the event has a message.                                         *)
runnerEventMessage(e) ==
    /\ e.event \in {"runner_on_failed", "runner_on_unreachable"}
    /\ e.data # "ignore_errors"

extractFailureReason(events) ==
    LET evts == parseEvents(events)
    IN  IF \E i \in evts : events[i].data = "mistyped"
          THEN PlainErr
          ELSE [err |-> TRUE, reasoned |-> TRUE,
                msgs |-> ReadDir({i \in evts : runnerEventMessage(events[i])})]

-------------------------------------------------------------------------------
(* Mutant: the first artifacts there are.                                   *)
jobEventsDirOldest(ident) ==
    artifacts[CHOOSE n \in DOMAIN artifacts : \A k \in DOMAIN artifacts : n <= k]

(* The job_events of the artifacts with this ident.                         *)
jobEventsDir(ident) == artifacts[ident]

(* A new ident; ansible-runner removes the oldest artifacts, and has written*)
(* the events of the tasks that went well.                                  *)
Start ==
    /\ phase = "ended" /\ runs < MaxRuns
    /\ runs' = runs + 1
    /\ happened' \in {[i \in 1..quiet |-> Quiet] : quiet \in QuietStarts}
    /\ LET kept == {n \in DOMAIN artifacts : n + ArtifactsHistoryLimit > runs'}
       IN  artifacts' = [n \in kept \cup {runs'} |->
                            IF n = runs' THEN happened' ELSE artifacts[n]]
    /\ phase' = "running"
    /\ UNCHANGED result

(* The process could not be started.                                        *)
StartErr ==
    /\ phase = "ended" /\ runs < MaxRuns
    /\ runs' = runs + 1 /\ happened' = <<>>
    /\ result' = PlainErr
    /\ UNCHANGED <<artifacts, phase>>

Emits == Cardinality({i \in DOMAIN happened : happened[i] # Quiet})

(* The process writes the file of its next event, under the next counter.   *)
Emit(e) ==
    /\ phase = "running" /\ Emits < MaxEmits
    /\ happened' = Append(happened, e)
    /\ artifacts' = [artifacts EXCEPT ![runs] = happened']
    /\ UNCHANGED <<runs, phase, result>>

EndOk ==
    /\ phase = "running"
    /\ phase' = "ended" /\ result' = Ok
    /\ UNCHANGED <<artifacts, runs, happened>>

(* The process fails, or is interrupted or killed; when it had no event, its*)
(* job_events may not exist.                                                *)
EndErr ==
    /\ phase = "running"
    /\ phase' = "ended"
    /\ \/ result' = extractFailureReason(jobEventsDir(runs))
       \/ happened = <<>> /\ result' = PlainErr
    /\ UNCHANGED <<artifacts, runs, happened>>

Next ==
    \/ Start \/ StartErr \/ EndOk \/ EndErr
    \/ \E e \in jobEvent \ {Quiet} : Emit(e)

Spec == Init /\ [][Next]_vars

-------------------------------------------------------------------------------

(* A reason is not lost or made up: Run's error tells each failed and       *)
(* unreachable task of this run whose errors count and whose event is       *)
(* readable, once, and nothing of earlier runs.                             *)
ReasonIsOfThisRun ==
    phase = "ended" /\ result.reasoned =>
        LET msgs == result.msgs
        IN  /\ {msgs[k] : k \in DOMAIN msgs} =
                 {i \in DOMAIN happened :
                     happened[i].event \notin {"runner_on_ok", "unreadable"}
                     /\ happened[i].data = "plain"}
            /\ \A k, l \in DOMAIN msgs : msgs[k] = msgs[l] => k = l

(* Messages whose counters have as many digits are in the order in which    *)
(* the tasks failed.                                                        *)
ReasonInOrder ==
    \A k, l \in DOMAIN result.msgs :
        k < l /\ Len(digits[result.msgs[k]]) = Len(digits[result.msgs[l]])
        => result.msgs[k] < result.msgs[l]

-------------------------------------------------------------------------------
(* The inductive invariant: while the process runs, the newest artifacts    *)
(* hold what happened.                                                      *)
ReasonInv ==
    /\ runs \in Nat /\ happened \in Seq(jobEvent)
    /\ phase = "running" => runs \in DOMAIN artifacts /\ artifacts[runs] = happened
    /\ ReasonIsOfThisRun
    /\ ReasonInOrder

===============================================================================
