----------------------------- MODULE TestRunner -----------------------------
(***************************************************************************)
(* basic/src/test_runner.cpp and the two POST handlers of web_server.cpp:  *)
(* Crow's worker threads serve requests at the same time; each one holds   *)
(* TestRunner::mutex_ while it builds and then runs the acceptance test    *)
(* ("check") or the example ("run") of a day, in a child process whose     *)
(* output it reads through a non-blocking pipe until the child exits or    *)
(* the time is up.                                                         *)
(*                                                                         *)
(* A child may fork descendants (cmake starts compilers, ctest starts      *)
(* tests), which write to the same pipe; SIGKILL reaches the child only.   *)
(* Output is a sequence of chunks; a chunk either mentions "skipped" or    *)
(* does not.                                                               *)
(***************************************************************************)
EXTENDS Integers, Sequences

CONSTANTS Request,       \* the POST requests that may arrive
          Checks,        \* those of /check; the others are of /run
          MaxOutput,     \* kMaximumOutputBytes, in chunks
          PipeSize,      \* the pipe's capacity, in chunks
          MaxWrites,     \* bound, per request: chunks a quiet child writes
          Chatty,        \* requests whose children never stop writing
          None           \* no request

ASSUME RunnerAssumption ==
    /\ Checks \subseteq Request /\ Chatty \subseteq Request
    /\ MaxOutput \in Nat \ {0} /\ PipeSize \in Nat \ {0}
    /\ MaxWrites \in [Request -> Nat]
    /\ None \notin Request

VARIABLES
    configured, \* the command lines given to the server: "cmake" (with the
                \* build directory) and "ctest"
    mutex,      \* who holds mutex_
    pc,         \* per request, where its thread is
    stage,      \* per request: "build" or "main" (test or example)
    child,      \* per request, its direct child process
    status,     \* per request, the exit code of the child; -1: a signal
    descendant, \* per request, whether a descendant of the child has the pipe
    late,       \* per request: now - started > timeout_
    pipe,       \* per request, the chunks in the pipe
    writes,     \* per request, how many chunks the command has written
    output,     \* per request, the chunks kept of the output
    killed,     \* per request, run_command's timed_out
    result,     \* per request, the answer
    lastBuild, exits, lost   \* history: see Init

local == <<stage, child, status, descendant, late, pipe, writes, output, killed>>
hist  == <<lastBuild, exits, lost>>
vars  == <<configured, mutex, pc, local, result, hist>>

Chunk == {"text", "skipped"}
Code == {-1, 0, 1}
State == {"passed", "failed", "skipped", "build_error", "timed_out"}

(* The text of an answer: all that the command wrote, that cut at the      *)
(* limit and marked, or a message of the server alone.                     *)
Text == {"none", "all", "truncated", "message"}
NoAnswer == [state |-> "none", code |-> 0, text |-> "none"]
NotFound == [state |-> "404", code |-> 0, text |-> "message"]

(* History: lastBuild is the request whose build command was the last to   *)
(* run, exits the exit code of each of a request's commands, lost whether  *)
(* the command at hand wrote a chunk that was not kept.                    *)
Init ==
    /\ configured \in SUBSET {"cmake", "ctest"}
    /\ mutex = None
    /\ pc = [r \in Request |-> "new"]
    /\ stage = [r \in Request |-> "build"]
    /\ child = [r \in Request |-> "none"]
    /\ status = [r \in Request |-> 0]
    /\ descendant = [r \in Request |-> FALSE]
    /\ late = [r \in Request |-> FALSE]
    /\ pipe = [r \in Request |-> <<>>]
    /\ writes = [r \in Request |-> 0]
    /\ output = [r \in Request |-> <<>>]
    /\ killed = [r \in Request |-> FALSE]
    /\ result = [r \in Request |-> NoAnswer]
    /\ lastBuild = None
    /\ exits = [r \in Request |-> <<>>]
    /\ lost = [r \in Request |-> FALSE]

Goto(r, label) == pc' = [pc EXCEPT ![r] = label]

-----------------------------------------------------------------------------
(* The request and the lock *)

(* The handlers of /check and /run refuse a day outside the catalog; the   *)
(* day of a request is any.                                                *)
Arrive(r) ==
    /\ pc[r] = "new"
    /\ \/ /\ Goto(r, "done")
          /\ result' = [result EXCEPT ![r] = NotFound]
       \/ /\ Goto(r, "lock")
          /\ UNCHANGED result
    /\ UNCHANGED <<configured, mutex, local, hist>>

(* Return from run or run_solution: the lock_guard releases the mutex. *)
Return(r, state, code, text) ==
    /\ result' = [result EXCEPT ![r] =
                    [state |-> state, code |-> code, text |-> text]]
    /\ Goto(r, "done")
    /\ mutex' = None

(* What a request needs; the example is run without ctest. *)
Needs(r) == IF r \in Checks THEN {"cmake", "ctest"} ELSE {"cmake"}

(* lock_guard, then plan_for. *)
Acquire(r) ==
    /\ pc[r] = "lock"
    /\ mutex = None
    /\ \/ /\ Needs(r) \subseteq configured
          /\ mutex' = r
          /\ Goto(r, "setup")
          /\ UNCHANGED result
       \/ /\ ~(Needs(r) \subseteq configured)
          /\ Return(r, "failed", -1, "message")
    /\ UNCHANGED <<configured, local, hist>>

-----------------------------------------------------------------------------
(* run_command *)

(* What run and run_solution make of a finished command. *)
MentionsSkipped(out) == \E i \in 1..Len(out) : out[i] = "skipped"

(* Mutant: the exit code of the test is not looked at. *)
MutVerdict(r, code, out) ==
    IF r \in Checks /\ MentionsSkipped(out) THEN "skipped" ELSE "passed"

Verdict(r, code, out) ==
    IF code # 0 THEN "failed"
    ELSE IF r \in Checks /\ MentionsSkipped(out) THEN "skipped"
    ELSE "passed"

(* Mutant: the lock is taken for one command at a time. *)
MutGoOn(r) == Goto(r, "lock") /\ mutex' = None

(* After the build, the second command, under the same lock. *)
GoOn(r) == Goto(r, "setup") /\ UNCHANGED mutex

(* The command returned an exit code without being timed out. *)
CommandReturns(r, code, out, text) ==
    \/ /\ stage[r] = "build" /\ code # 0
       /\ Return(r, "build_error", code, text)
       /\ UNCHANGED stage
    \/ /\ stage[r] = "build" /\ code = 0
       /\ stage' = [stage EXCEPT ![r] = "main"]
       /\ GoOn(r)
       /\ UNCHANGED result
    \/ /\ stage[r] = "main"
       /\ Return(r, Verdict(r, code, out), code, text)
       /\ UNCHANGED stage

(* pipe, fcntl, the file actions or posix_spawn fail; the answer has no    *)
(* output of the command.                                                  *)
SetupFails(r) ==
    /\ pc[r] = "setup"
    /\ CommandReturns(r, -1, <<>>, "message")
    /\ lost' = [lost EXCEPT ![r] = FALSE]
    /\ UNCHANGED <<configured, child, status, descendant, late, pipe, writes,
                   output, killed, lastBuild, exits>>

(* Descendants of an earlier command have the write end of another pipe.   *)
Spawn(r) ==
    /\ pc[r] = "setup"
    /\ Goto(r, "read")
    /\ child' = [child EXCEPT ![r] = "running"]
    /\ descendant' = [descendant EXCEPT ![r] = FALSE]
    /\ late' = [late EXCEPT ![r] = FALSE]
    /\ pipe' = [pipe EXCEPT ![r] = <<>>]
    /\ writes' = [writes EXCEPT ![r] = 0]
    /\ output' = [output EXCEPT ![r] = <<>>]
    /\ killed' = [killed EXCEPT ![r] = FALSE]
    /\ lost' = [lost EXCEPT ![r] = FALSE]
    /\ lastBuild' = IF stage[r] = "build" THEN r ELSE lastBuild
    /\ UNCHANGED <<configured, mutex, stage, status, result, exits>>

(* Mutant: everything is kept. *)
MutAppend(out, chunk) == Append(out, chunk)

(* append_output keeps the first MaxOutput chunks. *)
append_output(out, chunk) == IF Len(out) >= MaxOutput THEN out ELSE Append(out, chunk)

(* read_available, in the loop and once more after it: while there is      *)
(* something to read, it reads on.                                         *)
ReadChunk(r) ==
    /\ pc[r] \in {"read", "drain"}
    /\ pipe[r] # <<>>
    /\ pipe' = [pipe EXCEPT ![r] = Tail(@)]
    /\ output' = [output EXCEPT ![r] = append_output(@, Head(pipe[r]))]
    /\ lost' = [lost EXCEPT ![r] = @ \/ Len(output[r]) >= MaxOutput]
    /\ UNCHANGED <<configured, mutex, pc, stage, child, status, descendant,
                   late, writes, killed, result, lastBuild, exits>>

(* Mutant: the descriptor blocks until the last writer has closed it. *)
MutNothingToRead(r) ==
    pipe[r] = <<>> /\ child[r] # "running" /\ ~descendant[r]

(* The non-blocking read reports EAGAIN, or the end of the file. *)
NothingToRead(r) == pipe[r] = <<>>

ReadEnds(r) ==
    /\ pc[r] = "read"
    /\ NothingToRead(r)
    /\ Goto(r, "wait")
    /\ UNCHANGED <<configured, mutex, local, result, hist>>

(* waitpid(WNOHANG): the child has exited, or it has not. *)
Wait(r) ==
    /\ pc[r] = "wait"
    /\ \/ /\ child[r] = "exited"
          /\ child' = [child EXCEPT ![r] = "none"]
          /\ Goto(r, "drain")
          /\ exits' = [exits EXCEPT ![r] = Append(@, status[r])]
       \/ /\ child[r] = "running"
          /\ Goto(r, "clock")
          /\ UNCHANGED <<child, exits>>
    /\ UNCHANGED <<configured, mutex, stage, status, descendant, late, pipe,
                   writes, output, killed, result, lastBuild, lost>>

(* waitpid fails: EINTR starts the loop over; otherwise the child is       *)
(* killed and waited for, the command has failed and what it wrote is      *)
(* dropped.                                                                *)
WaitFails(r) ==
    /\ pc[r] = "wait"
    /\ \/ /\ Goto(r, "read")
          /\ UNCHANGED <<mutex, stage, child, result, lost>>
       \/ /\ child' = [child EXCEPT ![r] = "none"]
          /\ CommandReturns(r, -1, <<>>, "message")
          /\ lost' = [lost EXCEPT ![r] = @ \/ output[r] # <<>> \/ pipe[r] # <<>>]
    /\ UNCHANGED <<configured, status, descendant, late, pipe, writes, output,
                   killed, lastBuild, exits>>

(* Mutant: the killed child is not waited for. *)
MutReapKilled(r) == child' = [child EXCEPT ![r] = "exited"]

(* kill(SIGKILL) and a waitpid that blocks until the child is gone.  The   *)
(* child may have exited since the loop last looked.                       *)
ReapKilled(r) == child' = [child EXCEPT ![r] = "none"]

(* The time is up, or the loop sleeps 10 ms and starts over. *)
Clock(r) ==
    /\ pc[r] = "clock"
    /\ \/ /\ late[r]
          /\ ReapKilled(r)
          /\ killed' = [killed EXCEPT ![r] = TRUE]
          /\ Goto(r, "drain")
       \/ /\ ~late[r]
          /\ Goto(r, "read")
          /\ UNCHANGED <<child, killed>>
    /\ UNCHANGED <<configured, mutex, stage, status, descendant, late, pipe,
                   writes, output, result, hist>>

(* Mutant: the size is compared with the limit the wrong way. *)
MutTruncated(out) == Len(out) > MaxOutput

(* The output is marked as truncated. *)
Truncated(out) == Len(out) = MaxOutput

TextOf(out) == IF Truncated(out) THEN "truncated" ELSE "all"

(* The last read_available has ended: run_command returns. *)
Finish(r) ==
    /\ pc[r] = "drain"
    /\ NothingToRead(r)
    /\ \/ /\ killed[r]
          /\ Return(r, "timed_out", -1, TextOf(output[r]))
          /\ UNCHANGED stage
       \/ /\ ~killed[r]
          /\ CommandReturns(r, status[r], output[r], TextOf(output[r]))
    /\ UNCHANGED <<configured, child, status, descendant, late, pipe, writes,
                   output, killed, hist>>

-----------------------------------------------------------------------------
(* The child, its descendants and the clock *)

ChildExits(r, code) ==
    /\ child[r] = "running"
    /\ child' = [child EXCEPT ![r] = "exited"]
    /\ status' = [status EXCEPT ![r] = code]
    /\ UNCHANGED <<configured, mutex, pc, stage, descendant, late, pipe, writes,
                   output, killed, result, hist>>

ChildForks(r) ==
    /\ child[r] = "running"
    /\ descendant' = [descendant EXCEPT ![r] = TRUE]
    /\ UNCHANGED <<configured, mutex, pc, stage, child, status, late, pipe,
                   writes, output, killed, result, hist>>

DescendantExits(r) ==
    /\ descendant[r]
    /\ descendant' = [descendant EXCEPT ![r] = FALSE]
    /\ UNCHANGED <<configured, mutex, pc, stage, child, status, late, pipe,
                   writes, output, killed, result, hist>>

Write(r, chunk) ==
    /\ child[r] = "running" \/ descendant[r]
    /\ pc[r] \in {"read", "wait", "clock", "drain"}
    /\ Len(pipe[r]) < PipeSize
    /\ \/ /\ r \in Chatty
          /\ UNCHANGED writes
       \/ /\ r \notin Chatty
          /\ writes[r] < MaxWrites[r]
          /\ writes' = [writes EXCEPT ![r] = @ + 1]
    /\ pipe' = [pipe EXCEPT ![r] = Append(@, chunk)]
    /\ UNCHANGED <<configured, mutex, pc, stage, child, status, descendant,
                   late, output, killed, result, hist>>

TimePasses(r) ==
    /\ pc[r] \in {"read", "wait", "clock"}
    /\ ~late[r]
    /\ late' = [late EXCEPT ![r] = TRUE]
    /\ UNCHANGED <<configured, mutex, pc, stage, child, status, descendant,
                   pipe, writes, output, killed, result, hist>>

-----------------------------------------------------------------------------
Thread(r) ==
    \/ Acquire(r) \/ SetupFails(r) \/ Spawn(r) \/ ReadChunk(r) \/ ReadEnds(r)
    \/ Wait(r) \/ Clock(r) \/ Finish(r)

World(r) ==
    \/ \E code \in Code : ChildExits(r, code)
    \/ ChildForks(r) \/ DescendantExits(r)
    \/ \E chunk \in Chunk : Write(r, chunk)
    \/ TimePasses(r)

Next == \E r \in Request : Arrive(r) \/ Thread(r) \/ WaitFails(r) \/ World(r)

Spec == Init /\ [][Next]_vars

(* Worker threads run on, time passes, and waitpid is not interrupted for  *)
(* ever.  Nothing is assumed of the children: they need not exit.          *)
Fairness ==
    \A r \in Request :
        /\ WF_vars(Thread(r)) /\ SF_vars(Wait(r))
        /\ WF_vars(TimePasses(r))

FairSpec == Spec /\ Fairness

-----------------------------------------------------------------------------
(* Properties *)

(* Types; in particular no answer carries more than MaxOutput chunks, the  *)
(* "bounded result panel".                                                 *)
TypeOK ==
    /\ configured \in SUBSET {"cmake", "ctest"}
    /\ mutex \in Request \union {None}
    /\ pc \in [Request -> {"new", "lock", "setup", "read", "wait", "clock", "drain", "done"}]
    /\ stage \in [Request -> {"build", "main"}]
    /\ child \in [Request -> {"none", "running", "exited"}]
    /\ status \in [Request -> Code]
    /\ descendant \in [Request -> BOOLEAN]
    /\ late \in [Request -> BOOLEAN]
    /\ pipe \in [Request -> Seq(Chunk)]
    /\ writes \in [Request -> Nat]
    /\ output \in [Request -> Seq(Chunk)]
    /\ \A r \in Request : Len(output[r]) <= MaxOutput
    /\ killed \in [Request -> BOOLEAN]
    /\ result \in [Request -> [state : State \union {"none", "404"},
                               code : Code, text : Text]]
    /\ lastBuild \in Request \union {None}
    /\ exits \in [Request -> Seq(Code)]
    /\ lost \in [Request -> BOOLEAN]

(* A child belongs to the request that holds the mutex: there is at most   *)
(* one, and none is left running or unwaited for once the lock is free,    *)
(* whichever way run_command returned.                                     *)
ChildIsOwned ==
    \A r \in Request : child[r] # "none" => mutex = r

(* A request tests what it has built itself: from the start of its build   *)
(* to the end of its test no other request's build starts.                 *)
TestsOwnBuild ==
    \A r \in Request :
        (mutex = r /\ stage[r] = "main") => lastBuild = r

(* The answer is what happened: "passed" and "skipped" need a build and a  *)
(* second command that both exited with 0 by themselves, "build_error"     *)
(* that the second one never ran, "timed_out" that the time really was up. *)
VerdictIsSound ==
    \A r \in Request : pc[r] = "done" =>
        LET state == result[r].state IN
        /\ state \in {"passed", "skipped"} => exits[r] = <<0, 0>> /\ ~killed[r]
        /\ state = "build_error" => stage[r] = "build"
        /\ state = "timed_out" => late[r] /\ child[r] = "none"

(* An answer that lost part of what its command wrote does not pass for    *)
(* the whole: it ends in the mark, or a message stands in its place.       *)
LossIsMarked ==
    \A r \in Request :
        pc[r] = "done" /\ lost[r] => result[r].text \in {"truncated", "message"}

(* README.md: the server "returns a bounded result panel" for every click. *)
(* It does so when the commands stop writing at some time, even if they    *)
(* never exit or leave descendants behind that keep the pipe open: however *)
(* the requests wait for each other, none stays unanswered.                *)
Answered == []<>(\A r \in Request : pc[r] \in {"new", "done"})
=============================================================================
