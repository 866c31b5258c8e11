-------------------------- MODULE TestRunnerProofs --------------------------
(***************************************************************************)
(* Proofs about TestRunner for any number of requests and any limits.      *)
(***************************************************************************)
EXTENDS TestRunner, SequenceTheorems, TLAPS

Polling == {"read", "wait", "clock"}
Inside == {"setup", "drain"} \union Polling

(* The mutex is held exactly inside run and run_solution. *)
LockInv == \A r \in Request : pc[r] \in Inside <=> mutex = r

(* A child lives only while its thread polls it. *)
ChildInv == \A r \in Request : child[r] # "none" => pc[r] \in Polling

(* Whoever is past its build's start was the last to start one. *)
BuildInv ==
    \A r \in Request :
        /\ pc[r] \in Inside /\ stage[r] = "main" => lastBuild = r
        /\ pc[r] \in Polling \union {"drain"} => lastBuild = r

(* What the exit codes collected so far are, and what a kill implies. *)
ExitsInv ==
    \A r \in Request :
        /\ pc[r] \in {"new", "lock"} => stage[r] = "build"
        /\ stage[r] = "build" /\ pc[r] \in {"new", "lock", "setup"} \union Polling
              => exits[r] = <<>>
        /\ stage[r] = "build" /\ pc[r] = "drain" /\ ~killed[r]
              => exits[r] = <<status[r]>>
        /\ stage[r] = "main" /\ pc[r] \in {"setup"} \union Polling
              => exits[r] = <<0>>
        /\ stage[r] = "main" /\ pc[r] = "drain" /\ ~killed[r]
              => exits[r] = <<0, status[r]>>
        /\ killed[r] => pc[r] \in {"drain", "done"} /\ late[r]

IInv == TypeOK /\ LockInv /\ ChildInv /\ BuildInv /\ ExitsInv /\ VerdictIsSound

-----------------------------------------------------------------------------
(* Changing one entry keeps a function's type. *)
LEMMA Update ==
    ASSUME NEW D, NEW S, NEW f \in [D -> S], NEW g, NEW x \in D,
           g = f \/ \E v \in S : g = [f EXCEPT ![x] = v]
    PROVE  g \in [D -> S]
  OBVIOUS

(* The exit codes of one and of two commands. *)
LEMMA Singletons ==
    \A c \in Code : Append(<<>>, c) = <<c>> /\ Append(<<0>>, c) = <<0, c>>
<1> SUFFICES ASSUME NEW c \in Code
             PROVE  Append(<<>>, c) = <<c>> /\ Append(<<0>>, c) = <<0, c>>
  OBVIOUS
<1>1. c \in Int /\ 0 \in Int
  BY DEF Code
<1>2. Append(<<>>, c) = <<c>>
  OBVIOUS
<1>3. Append(<<0>>, c) = <<0, c>>
  <2>1. <<0>> \in Seq(Int) /\ Len(<<0>>) = 1 /\ <<0>>[1] = 0
    BY <1>1
  <2>2. /\ Append(<<0>>, c) \in Seq(Int) /\ Len(Append(<<0>>, c)) = 2
        /\ Append(<<0>>, c)[1] = 0 /\ Append(<<0>>, c)[2] = c
    BY <1>1, <2>1, AppendProperties
  <2>3. /\ <<0, c>> \in Seq(Int) /\ Len(<<0, c>>) = 2
        /\ <<0, c>>[1] = 0 /\ <<0, c>>[2] = c
    BY <1>1
  <2> DEFINE a == Append(<<0>>, c)
             b == <<0, c>>
  <2> HIDE DEF a, b
  <2>4. /\ a \in Seq(Int) /\ Len(a) = 2 /\ b \in Seq(Int) /\ Len(b) = 2
        /\ \A i \in 1..Len(a) : a[i] = b[i]
    BY <2>2, <2>3 DEF a, b
  <2>5. a = b
    BY <2>4, SeqEqual
  <2> QED
    BY <2>5 DEF a, b
<1> QED
  BY <1>2, <1>3

LEMMA InitInv == Init => IInv
<1> SUFFICES ASSUME Init PROVE IInv
  OBVIOUS
<1>1. TypeOK
  <2>1. <<>> \in Seq(Chunk) /\ <<>> \in Seq(Code) /\ Len(<<>>) = 0
    BY EmptySeq
  <2> QED
    BY <2>1, RunnerAssumption DEF Init, TypeOK, NoAnswer, Code, State, Text
<1>2. LockInv /\ ChildInv /\ BuildInv /\ ExitsInv /\ VerdictIsSound
  BY RunnerAssumption DEF Init, LockInv, ChildInv, BuildInv, ExitsInv,
     VerdictIsSound, Inside, Polling
<1> QED
  BY <1>1, <1>2 DEF IInv

(* A step that changes only what the world sees of a running command. *)
LEMMA WorldInv ==
    ASSUME IInv, NEW r \in Request, World(r)
    PROVE  IInv'
<1> USE DEF IInv
<1>1. UNCHANGED <<configured, mutex, pc, stage, output, killed, result,
                  lastBuild, exits, lost>>
  BY DEF World, ChildExits, ChildForks, DescendantExits, Write, TimePasses, hist
<1>2. /\ child' \in [Request -> {"none", "running", "exited"}]
      /\ \A t \in Request : child'[t] # "none" => child[t] # "none"
      /\ \A t \in Request : child[t] = "none" => child'[t] = "none"
  BY DEF World, ChildExits, ChildForks, DescendantExits, Write, TimePasses, TypeOK
<1>3. /\ status' \in [Request -> Code]
      /\ \A t \in Request : child[t] = "none" => status'[t] = status[t]
  <2>1. \/ UNCHANGED status
        \/ /\ child[r] # "none"
           /\ \E c \in Code : status' = [status EXCEPT ![r] = c]
    BY DEF World, ChildExits, ChildForks, DescendantExits, Write, TimePasses
  <2>2. status \in [Request -> Code]
    BY DEF TypeOK
  <2> QED
    BY <2>1, <2>2
<1>4. /\ late' \in [Request -> BOOLEAN]
      /\ \A t \in Request : late[t] => late'[t]
  <2>1. UNCHANGED late \/ late' = [late EXCEPT ![r] = TRUE]
    BY DEF World, ChildExits, ChildForks, DescendantExits, Write, TimePasses
  <2> QED
    BY <2>1 DEF TypeOK
<1>5. descendant' \in [Request -> BOOLEAN]
  <2>1. UNCHANGED descendant \/ \E b \in BOOLEAN : descendant' = [descendant EXCEPT ![r] = b]
    BY DEF World, ChildExits, ChildForks, DescendantExits, Write, TimePasses
  <2>2. descendant \in [Request -> BOOLEAN]
    BY DEF TypeOK
  <2> QED
    BY <2>1, <2>2, Update
<1>6. writes' \in [Request -> Nat]
  <2>1. UNCHANGED writes \/ writes' = [writes EXCEPT ![r] = writes[r] + 1]
    BY DEF World, ChildExits, ChildForks, DescendantExits, Write, TimePasses
  <2>2. writes \in [Request -> Nat] /\ writes[r] + 1 \in Nat
    BY DEF TypeOK
  <2> QED
    BY <2>1, <2>2, Update
<1>11. pipe' \in [Request -> Seq(Chunk)]
  <2>1. UNCHANGED pipe \/ \E c \in Chunk : pipe' = [pipe EXCEPT ![r] = Append(pipe[r], c)]
    BY DEF World, ChildExits, ChildForks, DescendantExits, Write, TimePasses
  <2>2. pipe \in [Request -> Seq(Chunk)] /\ pipe[r] \in Seq(Chunk)
    BY DEF TypeOK
  <2>3. \A c \in Chunk : Append(pipe[r], c) \in Seq(Chunk)
    BY <2>2, AppendProperties
  <2> QED
    BY <2>1, <2>2, <2>3, Update
<1>7. TypeOK'
  BY <1>1, <1>2, <1>3, <1>4, <1>5, <1>6, <1>11 DEF TypeOK
<1>8. LockInv' /\ BuildInv' /\ ChildInv'
  BY <1>1, <1>2 DEF LockInv, BuildInv, ChildInv
<1>9. ExitsInv'
  <2>1. \A t \in Request : pc[t] = "drain" => status'[t] = status[t]
    BY <1>3 DEF ChildInv, Polling
  <2> QED
    BY <1>1, <1>4, <2>1 DEF ExitsInv
<1>10. VerdictIsSound'
  BY <1>1, <1>2, <1>4 DEF VerdictIsSound
<1> QED
  BY <1>7, <1>8, <1>9, <1>10

LEMMA ArriveInv ==
    ASSUME IInv, NEW r \in Request, Arrive(r)
    PROVE  IInv'
<1> USE DEF IInv
<1>1. /\ pc[r] = "new"
      /\ UNCHANGED <<configured, mutex, stage, child, status, descendant, late,
                     pipe, writes, output, killed, lastBuild, exits, lost>>
  BY DEF Arrive, local, hist
<1>2. /\ pc' \in [Request -> {"new", "lock", "setup", "read", "wait", "clock", "drain", "done"}]
      /\ result' \in [Request -> [state : State \union {"none", "404"},
                                  code : Code, text : Text]]
  <2>1. /\ \E l \in {"lock", "done"} : pc' = [pc EXCEPT ![r] = l]
        /\ UNCHANGED result \/ result' = [result EXCEPT ![r] = NotFound]
    BY DEF Arrive, Goto
  <2>2. NotFound \in [state : State \union {"none", "404"}, code : Code, text : Text]
    BY DEF NotFound, Code, Text
  <2>3. result \in [Request -> [state : State \union {"none", "404"},
                                code : Code, text : Text]]
    BY DEF TypeOK
  <2>4. pc \in [Request -> {"new", "lock", "setup", "read", "wait", "clock", "drain", "done"}]
    BY DEF TypeOK
  <2> QED
    BY <2>1, <2>2, <2>3, <2>4, Update
<1>3. /\ pc'[r] \in {"lock", "done"}
      /\ pc'[r] = "done" => result'[r].state = "404"
      /\ \A t \in Request : t # r => pc'[t] = pc[t] /\ result'[t] = result[t]
  BY DEF Arrive, Goto, TypeOK, NotFound
<1>4. TypeOK'
  BY <1>1, <1>2 DEF TypeOK
<1>5. LockInv' /\ ChildInv' /\ BuildInv'
  BY <1>1, <1>3 DEF LockInv, ChildInv, BuildInv, Inside, Polling
<1>6. ExitsInv'
  BY <1>1, <1>3 DEF ExitsInv, Polling
<1>7. VerdictIsSound'
  BY <1>1, <1>3 DEF VerdictIsSound
<1> QED
  BY <1>4, <1>5, <1>6, <1>7

(* The requests other than r are not touched by a step of r that leaves    *)
(* these entries alone.                                                    *)
Untouched(t) ==
    /\ pc'[t] = pc[t] /\ stage'[t] = stage[t] /\ child'[t] = child[t]
    /\ status'[t] = status[t] /\ late'[t] = late[t] /\ killed'[t] = killed[t]
    /\ exits'[t] = exits[t] /\ result'[t] = result[t]

(* An answer is given and the mutex released. *)
LEMMA ReturnInv ==
    ASSUME IInv, NEW r \in Request, NEW state \in State, NEW code \in Code,
           NEW text \in Text,
           Return(r, state, code, text), pc[r] \in Inside \/ mutex = None,
           pc[r] # "done",
           child' = [child EXCEPT ![r] = "none"],
           UNCHANGED <<configured, stage, status, descendant, late, pipe,
                       writes, output, killed, lastBuild, exits>>,
           lost' \in [Request -> BOOLEAN],
           state \in {"passed", "skipped"} => exits[r] = <<0, 0>> /\ ~killed[r],
           state = "build_error" => stage[r] = "build",
           state = "timed_out" => late[r]
    PROVE  IInv'
<1> USE DEF IInv
<1>1. /\ pc' = [pc EXCEPT ![r] = "done"] /\ mutex' = None
      /\ result' = [result EXCEPT ![r] =
                      [state |-> state, code |-> code, text |-> text]]
  BY DEF Return, Goto
<1>2. /\ pc'[r] = "done" /\ child'[r] = "none" /\ result'[r].state = state
      /\ \A t \in Request \ {r} : Untouched(t)
  BY <1>1 DEF TypeOK, Untouched
<1>3. TypeOK'
  <2>1. result' \in [Request -> [state : State \union {"none", "404"},
                                 code : Code, text : Text]]
    BY <1>1 DEF TypeOK
  <2>2. /\ pc' \in [Request -> {"new", "lock", "setup", "read", "wait", "clock", "drain", "done"}]
        /\ child' \in [Request -> {"none", "running", "exited"}]
    BY <1>1 DEF TypeOK
  <2> QED
    BY <1>1, <2>1, <2>2 DEF TypeOK
<1>4. LockInv'
  <2> SUFFICES ASSUME NEW t \in Request PROVE pc'[t] \notin Inside /\ mutex' # t
    BY DEF LockInv
  <2>1. mutex' # t
    BY <1>1, RunnerAssumption
  <2>2. CASE t = r
    BY <1>2, <2>1, <2>2 DEF Inside, Polling
  <2>3. CASE t # r
    <3>1. mutex # t
      BY <2>3, RunnerAssumption DEF LockInv
    <3> QED
      BY <1>2, <2>1, <2>3, <3>1 DEF LockInv, Untouched
  <2> QED
    BY <2>2, <2>3
<1>5. ChildInv' /\ BuildInv'
  BY <1>2 DEF ChildInv, BuildInv, Untouched, Inside, Polling
<1>6. ExitsInv'
  BY <1>2 DEF ExitsInv, Untouched, Polling
<1>7. VerdictIsSound'
  BY <1>2 DEF VerdictIsSound, Untouched
<1> QED
  BY <1>3, <1>4, <1>5, <1>6, <1>7

(* What a step that ends a command of r with an exit code does besides.    *)
CommandEnded(r, code) ==
    /\ pc[r] \in Inside
    /\ child' = [child EXCEPT ![r] = "none"]
    /\ UNCHANGED <<configured, status, descendant, late, pipe, writes, output,
                   killed, lastBuild, exits>>
    /\ lost' \in [Request -> BOOLEAN]
    /\ ~killed[r]
    /\ stage[r] = "build" /\ code = 0 => exits[r] = <<0>> /\ lastBuild = r
    /\ stage[r] = "main" /\ code = 0 => exits[r] = <<0, 0>>

(* A command returned: either an answer is given, or the second command is *)
(* set up.                                                                 *)
LEMMA CommandReturnsInv ==
    ASSUME IInv, NEW r \in Request, NEW code \in Code, NEW out, NEW text \in Text,
           CommandReturns(r, code, out, text), CommandEnded(r, code)
    PROVE  IInv'
<1> USE DEF IInv, CommandEnded
<1>0. pc[r] # "done"
  BY DEF Inside, Polling
<1>1. CASE stage[r] = "build" /\ code # 0
  <2>1. Return(r, "build_error", code, text) /\ UNCHANGED stage
    BY <1>1 DEF CommandReturns
  <2> QED
    BY <1>0, <1>1, <2>1, ReturnInv DEF State
<1>2. CASE stage[r] = "main"
  <2>1. Return(r, Verdict(r, code, out), code, text) /\ UNCHANGED stage
    BY <1>2 DEF CommandReturns
  <2>2. /\ Verdict(r, code, out) \in {"failed", "skipped", "passed"}
        /\ Verdict(r, code, out) \in {"passed", "skipped"} => code = 0
    BY DEF Verdict
  <2> QED
    BY <1>0, <1>2, <2>1, <2>2, ReturnInv DEF State
<1>3. CASE stage[r] = "build" /\ code = 0
  <2>1. /\ stage' = [stage EXCEPT ![r] = "main"] /\ pc' = [pc EXCEPT ![r] = "setup"]
        /\ UNCHANGED <<mutex, result>>
    BY <1>3 DEF CommandReturns, GoOn, Goto
  <2>2. /\ pc'[r] = "setup" /\ stage'[r] = "main" /\ child'[r] = "none"
        /\ \A t \in Request \ {r} : Untouched(t)
    BY <2>1 DEF TypeOK, Untouched
  <2>3. TypeOK'
    BY <2>1 DEF TypeOK
  <2>4. LockInv' /\ ChildInv' /\ BuildInv'
    BY <1>3, <2>1, <2>2 DEF LockInv, ChildInv, BuildInv, Untouched, Inside, Polling
  <2>5. ExitsInv'
    BY <1>3, <2>2 DEF ExitsInv, Untouched, Polling
  <2>6. VerdictIsSound'
    BY <2>2 DEF VerdictIsSound, Untouched
  <2> QED
    BY <2>3, <2>4, <2>5, <2>6
<1> QED
  BY <1>1, <1>2, <1>3 DEF TypeOK

(* The lock is taken, or the server is not configured. *)
LEMMA AcquireInv ==
    ASSUME IInv, NEW r \in Request, Acquire(r)
    PROVE  IInv'
<1> USE DEF IInv
<1>1. /\ pc[r] = "lock" /\ mutex = None
      /\ UNCHANGED <<configured, stage, child, status, descendant, late, pipe,
                     writes, output, killed, lastBuild, exits, lost>>
  BY DEF Acquire, local, hist
<1>2. child[r] = "none"
  BY <1>1 DEF ChildInv, Polling
<1>3. CASE Return(r, "failed", -1, "message")
  <2>1. child' = [child EXCEPT ![r] = "none"] /\ lost' \in [Request -> BOOLEAN]
    BY <1>1, <1>2 DEF TypeOK
  <2> QED
    BY <1>1, <1>3, <2>1, ReturnInv DEF State, Code, Text
<1>4. CASE mutex' = r /\ Goto(r, "setup") /\ UNCHANGED result
  <2>1. /\ pc' = [pc EXCEPT ![r] = "setup"] /\ pc'[r] = "setup"
        /\ \A t \in Request \ {r} : Untouched(t)
    BY <1>1, <1>4 DEF Goto, TypeOK, Untouched
  <2>2. TypeOK'
    BY <1>1, <1>4, <2>1 DEF TypeOK
  <2>3. LockInv'
    <3>1. \A t \in Request : mutex # t
      BY <1>1, RunnerAssumption
    <3> QED
      BY <1>4, <2>1, <3>1 DEF LockInv, Untouched, Inside
  <2>4. stage[r] = "build" /\ exits[r] = <<>> /\ ~killed[r]
    BY <1>1 DEF ExitsInv
  <2>5. ChildInv' /\ BuildInv'
    BY <1>1, <1>2, <2>1, <2>4 DEF ChildInv, BuildInv, Untouched, Inside, Polling
  <2>6. ExitsInv'
    BY <1>1, <2>1, <2>4 DEF ExitsInv, Untouched, Polling
  <2>7. VerdictIsSound'
    BY <1>1, <2>1 DEF VerdictIsSound, Untouched
  <2> QED
    BY <2>2, <2>3, <2>5, <2>6, <2>7
<1> QED
  BY <1>3, <1>4 DEF Acquire

LEMMA SetupFailsInv ==
    ASSUME IInv, NEW r \in Request, SetupFails(r)
    PROVE  IInv'
<1> USE DEF IInv
<1>1. /\ pc[r] = "setup" /\ CommandReturns(r, -1, <<>>, "message")
      /\ lost' = [lost EXCEPT ![r] = FALSE]
      /\ UNCHANGED <<configured, child, status, descendant, late, pipe, writes,
                     output, killed, lastBuild, exits>>
  BY DEF SetupFails
<1>2. child[r] = "none" /\ ~killed[r] /\ pc[r] \in Inside
  BY <1>1 DEF ChildInv, ExitsInv, Polling, Inside
<1>3. child' = [child EXCEPT ![r] = "none"] /\ lost' \in [Request -> BOOLEAN]
  BY <1>1, <1>2 DEF TypeOK
<1>4. -1 \in Code /\ -1 # 0 /\ "message" \in Text
  BY DEF Code, Text
<1> QED
  BY <1>1, <1>2, <1>3, <1>4, CommandReturnsInv DEF CommandEnded

LEMMA SpawnInv ==
    ASSUME IInv, NEW r \in Request, Spawn(r)
    PROVE  IInv'
<1> USE DEF IInv
<1>1. /\ pc[r] = "setup" /\ pc' = [pc EXCEPT ![r] = "read"]
      /\ child' = [child EXCEPT ![r] = "running"]
      /\ late' = [late EXCEPT ![r] = FALSE]
      /\ pipe' = [pipe EXCEPT ![r] = <<>>]
      /\ writes' = [writes EXCEPT ![r] = 0]
      /\ output' = [output EXCEPT ![r] = <<>>]
      /\ killed' = [killed EXCEPT ![r] = FALSE]
      /\ lost' = [lost EXCEPT ![r] = FALSE]
      /\ lastBuild' = IF stage[r] = "build" THEN r ELSE lastBuild
      /\ UNCHANGED <<configured, mutex, stage, status, result, exits>>
      /\ descendant' = [descendant EXCEPT ![r] = FALSE]
  BY DEF Spawn, Goto
<1>2. /\ pc'[r] = "read" /\ ~killed'[r]
      /\ \A t \in Request \ {r} : Untouched(t)
  BY <1>1 DEF TypeOK, Untouched
<1>3. mutex = r /\ \A t \in Request \ {r} : pc[t] \notin Inside
  BY <1>1 DEF LockInv, Inside
<1>4. TypeOK'
  <2>1. <<>> \in Seq(Chunk) /\ Len(<<>>) = 0
    BY EmptySeq
  <2>2. pipe' \in [Request -> Seq(Chunk)] /\ output' \in [Request -> Seq(Chunk)]
    BY <1>1, <2>1 DEF TypeOK
  <2>3. \A t \in Request : Len(output'[t]) <= MaxOutput
    BY <1>1, <2>1, RunnerAssumption DEF TypeOK
  <2>4. descendant' \in [Request -> BOOLEAN] /\ late' \in [Request -> BOOLEAN] /\ killed' \in [Request -> BOOLEAN]
        /\ lost' \in [Request -> BOOLEAN] /\ writes' \in [Request -> Nat]
    BY <1>1 DEF TypeOK
  <2>5. /\ pc' \in [Request -> {"new", "lock", "setup", "read", "wait", "clock", "drain", "done"}]
        /\ child' \in [Request -> {"none", "running", "exited"}]
        /\ lastBuild' \in Request \union {None}
    BY <1>1 DEF TypeOK
  <2> QED
    BY <1>1, <2>2, <2>3, <2>4, <2>5 DEF TypeOK
<1>5. LockInv'
  BY <1>1, <1>2, <1>3 DEF LockInv, Untouched, Inside, Polling
<1>6. ChildInv'
  BY <1>2 DEF ChildInv, Untouched, Polling
<1>7. BuildInv'
  <2>1. lastBuild' = r
    BY <1>1 DEF BuildInv, Inside, TypeOK
  <2>2. \A t \in Request \ {r} : pc'[t] \notin Inside
    BY <1>2, <1>3 DEF Untouched
  <2> QED
    BY <2>1, <2>2 DEF BuildInv, Inside
<1>8. ExitsInv'
  BY <1>1, <1>2 DEF ExitsInv, Untouched, Polling
<1>9. VerdictIsSound'
  BY <1>2 DEF VerdictIsSound, Untouched
<1> QED
  BY <1>4, <1>5, <1>6, <1>7, <1>8, <1>9

(* Reading changes the pipe and the output only. *)
LEMMA ReadChunkInv ==
    ASSUME IInv, NEW r \in Request, ReadChunk(r)
    PROVE  IInv'
<1> USE DEF IInv
<1>1. /\ pipe[r] # <<>>
      /\ pipe' = [pipe EXCEPT ![r] = Tail(pipe[r])]
      /\ output' = [output EXCEPT ![r] = append_output(output[r], Head(pipe[r]))]
      /\ lost' = [lost EXCEPT ![r] = lost[r] \/ Len(output[r]) >= MaxOutput]
      /\ UNCHANGED <<configured, mutex, pc, stage, child, status, descendant,
                     late, writes, killed, result, lastBuild, exits>>
  BY DEF ReadChunk
<1>2. pipe[r] \in Seq(Chunk) /\ output[r] \in Seq(Chunk) /\ Len(output[r]) <= MaxOutput
  BY DEF TypeOK
<1>3. Tail(pipe[r]) \in Seq(Chunk) /\ Head(pipe[r]) \in Chunk
  BY <1>1, <1>2, HeadTailProperties
<1> DEFINE kept == append_output(output[r], Head(pipe[r]))
<1>4. kept \in Seq(Chunk) /\ Len(kept) <= MaxOutput
  <2>1. /\ Append(output[r], Head(pipe[r])) \in Seq(Chunk)
        /\ Len(Append(output[r], Head(pipe[r]))) = Len(output[r]) + 1
    BY <1>2, <1>3, AppendProperties
  <2>2. Len(output[r]) \in Nat /\ MaxOutput \in Nat
    BY <1>2, LenProperties, RunnerAssumption
  <2>3. CASE Len(output[r]) >= MaxOutput
    BY <1>2, <2>3 DEF append_output
  <2>4. CASE ~(Len(output[r]) >= MaxOutput)
    <3>1. kept = Append(output[r], Head(pipe[r]))
      BY <2>4 DEF append_output
    <3>2. Len(output[r]) + 1 <= MaxOutput
      BY <2>2, <2>4
    <3> QED
      BY <2>1, <3>1, <3>2
  <2> QED
    BY <2>3, <2>4
<1>5. TypeOK'
  <2> HIDE DEF kept
  <2>1. pipe' \in [Request -> Seq(Chunk)]
    BY <1>1, <1>3 DEF TypeOK
  <2>2. output \in [Request -> Seq(Chunk)] /\ output' = [output EXCEPT ![r] = kept]
    BY <1>1 DEF TypeOK, kept
  <2>3. /\ output' \in [Request -> Seq(Chunk)]
        /\ \A t \in Request : output'[t] = IF t = r THEN kept ELSE output[t]
    BY <1>4, <2>2
  <2>4. \A t \in Request : Len(output'[t]) <= MaxOutput
    BY <1>4, <2>3 DEF TypeOK
  <2>5. lost' \in [Request -> BOOLEAN]
    BY <1>1, Update DEF TypeOK
  <2> QED
    BY <1>1, <2>1, <2>3, <2>4, <2>5 DEF TypeOK
<1>6. LockInv' /\ ChildInv' /\ BuildInv' /\ ExitsInv' /\ VerdictIsSound'
  BY <1>1 DEF LockInv, ChildInv, BuildInv, ExitsInv, VerdictIsSound
<1> QED
  BY <1>5, <1>6

(* The polling loop moves on: nothing but pc changes. *)
LEMMA GotoInv ==
    ASSUME IInv, NEW r \in Request, pc[r] \in Polling, NEW l \in Polling,
           pc' = [pc EXCEPT ![r] = l],
           UNCHANGED <<configured, mutex, stage, child, status, descendant, late,
                       pipe, writes, output, killed, result, lastBuild, exits, lost>>
    PROVE  IInv'
<1> USE DEF IInv
<1>1. pc'[r] \in Polling /\ \A t \in Request \ {r} : Untouched(t)
  BY DEF TypeOK, Untouched
<1>2. TypeOK'
  BY DEF TypeOK, Polling
<1>3. LockInv' /\ ChildInv' /\ BuildInv'
  BY <1>1 DEF LockInv, ChildInv, BuildInv, Untouched, Inside
<1>4. ExitsInv'
  BY <1>1 DEF ExitsInv, Untouched, Polling
<1>5. VerdictIsSound'
  BY <1>1 DEF VerdictIsSound, Untouched, Polling
<1> QED
  BY <1>2, <1>3, <1>4, <1>5

LEMMA ReadEndsInv ==
    ASSUME IInv, NEW r \in Request, ReadEnds(r)
    PROVE  IInv'
  BY GotoInv DEF ReadEnds, Goto, Polling, local, hist

(* The loop is left with the child gone: by itself, its exit code noted,   *)
(* or killed when the time was up.                                         *)
LEMMA LeaveLoopInv ==
    ASSUME IInv, NEW r \in Request, pc[r] \in Polling,
           pc' = [pc EXCEPT ![r] = "drain"],
           child' = [child EXCEPT ![r] = "none"],
           \/ /\ exits' = [exits EXCEPT ![r] = Append(exits[r], status[r])]
              /\ UNCHANGED killed
           \/ /\ late[r]
              /\ killed' = [killed EXCEPT ![r] = TRUE]
              /\ UNCHANGED exits,
           UNCHANGED <<configured, mutex, stage, status, descendant, late,
                       pipe, writes, output, result, lastBuild, lost>>
    PROVE  IInv'
<1> USE DEF IInv
<1>1. /\ pc'[r] = "drain" /\ child'[r] = "none"
      /\ \A t \in Request \ {r} : Untouched(t)
  BY DEF TypeOK, Untouched
<1>2. /\ exits[r] \in Seq(Code) /\ status[r] \in Code
      /\ exits \in [Request -> Seq(Code)] /\ killed \in [Request -> BOOLEAN]
  BY DEF TypeOK
<1>3. Append(exits[r], status[r]) \in Seq(Code)
  BY <1>2, AppendProperties
<1>4. exits' \in [Request -> Seq(Code)] /\ killed' \in [Request -> BOOLEAN]
  <2>1. /\ exits' = exits \/ exits' = [exits EXCEPT ![r] = Append(exits[r], status[r])]
        /\ killed' = killed \/ killed' = [killed EXCEPT ![r] = TRUE]
    OBVIOUS
  <2>2. PICK e \in Seq(Code) : exits' = exits \/ exits' = [exits EXCEPT ![r] = e]
    BY <1>3, <2>1, Zenon
  <2>4. exits' \in [Request -> Seq(Code)]
    BY <1>2, <2>2, Update, Zenon
  <2>3. killed' \in [Request -> BOOLEAN]
    BY <1>2, <2>1
  <2> QED
    BY <2>3, <2>4
<1>5. TypeOK'
  BY <1>4 DEF TypeOK
<1>6. LockInv' /\ ChildInv' /\ BuildInv'
  BY <1>1 DEF LockInv, ChildInv, BuildInv, Untouched, Inside, Polling
<1>7. ExitsInv'
  <2>1. stage[r] = "build" => exits[r] = <<>>
    BY DEF ExitsInv
  <2>2. stage[r] = "main" => exits[r] = <<0>>
    BY DEF ExitsInv
  <2>3. ~killed[r]
    BY DEF ExitsInv, Polling
  <2>4. ~killed'[r] => exits'[r] = Append(exits[r], status[r])
    BY <1>2
  <2>5. killed'[r] => late[r]
    BY <1>2, <2>3
  <2>6. /\ Append(<<>>, status[r]) = <<status[r]>>
        /\ Append(<<0>>, status[r]) = <<0, status[r]>>
    BY <1>2, Singletons
  <2>7. /\ stage'[r] = "build" /\ ~killed'[r] => exits'[r] = <<status'[r]>>
        /\ stage'[r] = "main" /\ ~killed'[r] => exits'[r] = <<0, status'[r]>>
        /\ killed'[r] => late'[r]
    BY <2>1, <2>2, <2>4, <2>5, <2>6
  <2> QED
    BY <1>1, <2>7 DEF ExitsInv, Untouched, Polling
<1>8. VerdictIsSound'
  BY <1>1 DEF VerdictIsSound, Untouched
<1> QED
  BY <1>5, <1>6, <1>7, <1>8

LEMMA WaitInv ==
    ASSUME IInv, NEW r \in Request, Wait(r)
    PROVE  IInv'
<1>1. /\ pc[r] = "wait"
      /\ UNCHANGED <<configured, mutex, stage, status, descendant, late, pipe,
                     writes, output, killed, result, lastBuild, lost>>
      /\ \/ /\ child' = [child EXCEPT ![r] = "none"]
            /\ pc' = [pc EXCEPT ![r] = "drain"]
            /\ exits' = [exits EXCEPT ![r] = Append(exits[r], status[r])]
         \/ /\ pc' = [pc EXCEPT ![r] = "clock"]
            /\ UNCHANGED <<child, exits>>
  BY DEF Wait, Goto
<1> QED
  BY <1>1, GotoInv, LeaveLoopInv DEF Polling

LEMMA ClockInv ==
    ASSUME IInv, NEW r \in Request, Clock(r)
    PROVE  IInv'
<1>1. /\ pc[r] = "clock"
      /\ UNCHANGED <<configured, mutex, stage, status, descendant, late, pipe,
                     writes, output, result, lastBuild, exits, lost>>
      /\ \/ /\ late[r]
            /\ child' = [child EXCEPT ![r] = "none"]
            /\ killed' = [killed EXCEPT ![r] = TRUE]
            /\ pc' = [pc EXCEPT ![r] = "drain"]
         \/ /\ pc' = [pc EXCEPT ![r] = "read"]
            /\ UNCHANGED <<child, killed>>
  BY DEF Clock, Goto, ReapKilled, hist
<1> QED
  BY <1>1, GotoInv, LeaveLoopInv DEF Polling

LEMMA WaitFailsInv ==
    ASSUME IInv, NEW r \in Request, WaitFails(r)
    PROVE  IInv'
<1>1. /\ pc[r] = "wait"
      /\ UNCHANGED <<configured, status, descendant, late, pipe, writes, output,
                     killed, lastBuild, exits>>
  BY DEF WaitFails
<1>2. CASE Goto(r, "read") /\ UNCHANGED <<mutex, stage, child, result, lost>>
  BY <1>1, <1>2, GotoInv DEF Goto, Polling
<1>3. CASE /\ child' = [child EXCEPT ![r] = "none"]
           /\ CommandReturns(r, -1, <<>>, "message")
           /\ lost' = [lost EXCEPT ![r] = lost[r] \/ output[r] # <<>> \/ pipe[r] # <<>>]
  <2>1. ~killed[r] /\ pc[r] \in Inside
    BY <1>1 DEF IInv, ExitsInv, Inside, Polling
  <2>2. lost' \in [Request -> BOOLEAN]
    BY <1>3 DEF IInv, TypeOK
  <2>3. -1 \in Code /\ -1 # 0 /\ "message" \in Text
    BY DEF Code, Text
  <2> QED
    BY <1>1, <1>3, <2>1, <2>2, <2>3, CommandReturnsInv DEF CommandEnded
<1> QED
  BY <1>2, <1>3 DEF WaitFails

LEMMA FinishInv ==
    ASSUME IInv, NEW r \in Request, Finish(r)
    PROVE  IInv'
<1>1. /\ pc[r] = "drain"
      /\ UNCHANGED <<configured, child, status, descendant, late, pipe, writes,
                     output, killed, lastBuild, exits, lost>>
  BY DEF Finish, hist
<1>2. child[r] = "none" /\ pc[r] \in Inside /\ pc[r] # "done"
  BY <1>1 DEF IInv, ChildInv, Polling, Inside
<1>3. child' = [child EXCEPT ![r] = "none"] /\ lost' \in [Request -> BOOLEAN]
  BY <1>1, <1>2 DEF IInv, TypeOK
<1>4. TextOf(output[r]) \in Text
  BY DEF TextOf, Text
<1>5. CASE killed[r] /\ Return(r, "timed_out", -1, TextOf(output[r])) /\ UNCHANGED stage
  <2>1. late[r]
    BY <1>5 DEF IInv, ExitsInv
  <2>2. -1 \in Code /\ "timed_out" \in State
    BY DEF Code, State
  <2> QED
    BY <1>1, <1>2, <1>3, <1>4, <1>5, <2>1, <2>2, ReturnInv
<1>6. CASE ~killed[r] /\ CommandReturns(r, status[r], output[r], TextOf(output[r]))
  <2>1. /\ stage[r] = "build" => exits[r] = <<status[r]>>
        /\ stage[r] = "main" => exits[r] = <<0, status[r]>>
    BY <1>1, <1>6 DEF IInv, ExitsInv
  <2>2. lastBuild = r /\ status[r] \in Code
    BY <1>1 DEF IInv, BuildInv, TypeOK
  <2> QED
    BY <1>1, <1>2, <1>3, <1>4, <1>6, <2>1, <2>2, CommandReturnsInv DEF CommandEnded
<1> QED
  BY <1>5, <1>6 DEF Finish

LEMMA NextInv ==
    ASSUME IInv, [Next]_vars
    PROVE  IInv'
<1>1. CASE UNCHANGED vars
  BY <1>1 DEF vars, local, hist, IInv, TypeOK, LockInv, ChildInv, BuildInv,
     ExitsInv, VerdictIsSound
<1>2. CASE Next
  <2>1. PICK r \in Request : Arrive(r) \/ Thread(r) \/ WaitFails(r) \/ World(r)
    BY <1>2 DEF Next
  <2> QED
    BY <2>1, ArriveInv, AcquireInv, SetupFailsInv, SpawnInv, ReadChunkInv,
       ReadEndsInv, WaitInv, ClockInv, FinishInv, WaitFailsInv, WorldInv DEF Thread
<1> QED
  BY <1>1, <1>2

-----------------------------------------------------------------------------
(* The inductive invariant holds in every reachable state. *)
THEOREM Invariance == Spec => []IInv
  BY InitInv, NextInv, PTL DEF Spec

(* Types, with the bound on the output: append_output never keeps more     *)
(* than MaxOutput chunks whatever the commands write.                      *)
THEOREM TypeCorrect == Spec => []TypeOK
<1>1. IInv => TypeOK
  BY DEF IInv
<1> QED
  BY <1>1, Invariance, PTL

(* Every child process belongs to the request that holds mutex_; none is   *)
(* running or unwaited for when the lock is free.                          *)
THEOREM ChildrenAreOwned == Spec => []ChildIsOwned
<1>1. IInv => ChildIsOwned
  BY DEF IInv, ChildInv, LockInv, ChildIsOwned, Inside
<1> QED
  BY <1>1, Invariance, PTL

(* A request runs the tests of its own build, for any number of requests.  *)
THEOREM BuildsAreOwned == Spec => []TestsOwnBuild
<1>1. IInv => TestsOwnBuild
  BY DEF IInv, BuildInv, LockInv, TestsOwnBuild
<1> QED
  BY <1>1, Invariance, PTL

(* The state in an answer is justified by the exit codes and the clock.    *)
THEOREM VerdictsAreSound == Spec => []VerdictIsSound
<1>1. IInv => VerdictIsSound
  BY DEF IInv
<1> QED
  BY <1>1, Invariance, PTL

-----------------------------------------------------------------------------
(* Output that was dropped leaves a trace: while its command runs the      *)
(* output kept is full, and a request without a command has lost nothing.  *)
LossInv ==
    \A r \in Request :
        /\ pc[r] \in {"new", "lock"} => ~lost[r]
        /\ pc[r] \in Polling \union {"drain"} /\ lost[r]
              => Len(output[r]) = MaxOutput

(* What a step of r leaves alone of the other requests. *)
LossFrame(r) ==
    \A t \in Request \ {r} :
        /\ pc'[t] = pc[t] /\ lost'[t] = lost[t]
        /\ output'[t] = output[t] /\ result'[t] = result[t]

(* The loss of r after its step. *)
LossAt(r) ==
    /\ pc'[r] \in {"new", "lock"} => ~lost'[r]
    /\ pc'[r] \in Polling \union {"drain"} /\ lost'[r]
          => Len(output'[r]) = MaxOutput
    /\ pc'[r] = "done" /\ lost'[r] => result'[r].text \in {"truncated", "message"}

LEMMA LossOfOne ==
    ASSUME NEW r \in Request, LossInv, LossIsMarked, LossFrame(r), LossAt(r)
    PROVE  LossInv' /\ LossIsMarked'
  BY DEF LossInv, LossIsMarked, LossFrame, LossAt

(* An answer to a command that returns is marked when something was lost.  *)
LEMMA ReturnLoss ==
    ASSUME TypeOK, NEW r \in Request, NEW code, NEW out, NEW text,
           NEW l \in BOOLEAN, lost' = [lost EXCEPT ![r] = l], UNCHANGED output,
           l => text \in {"truncated", "message"},
           \/ CommandReturns(r, code, out, text)
           \/ \E state : Return(r, state, code, text)
    PROVE  LossFrame(r) /\ LossAt(r)
<1>1. \/ /\ pc' = [pc EXCEPT ![r] = "done"]
         /\ \E state : result' = [result EXCEPT ![r] =
                         [state |-> state, code |-> code, text |-> text]]
      \/ pc' = [pc EXCEPT ![r] = "setup"] /\ UNCHANGED result
  BY DEF CommandReturns, Return, GoOn, Goto
<1>2. CASE /\ pc' = [pc EXCEPT ![r] = "done"]
           /\ \E state : result' = [result EXCEPT ![r] =
                         [state |-> state, code |-> code, text |-> text]]
  <2>1. PICK state : result' = [result EXCEPT ![r] =
                         [state |-> state, code |-> code, text |-> text]]
    BY <1>2
  <2>2. result'[r].text = text /\ pc'[r] = "done" /\ lost'[r] = l
    BY <1>2, <2>1 DEF TypeOK
  <2> QED
    BY <1>2, <2>1, <2>2 DEF TypeOK, LossFrame, LossAt, Polling
<1>3. CASE pc' = [pc EXCEPT ![r] = "setup"] /\ UNCHANGED result
  BY <1>3 DEF TypeOK, LossFrame, LossAt, Polling
<1> QED
  BY <1>1, <1>2, <1>3

LEMMA StepLoss ==
    ASSUME TypeOK, LossInv, LossIsMarked, NEW r \in Request,
           Arrive(r) \/ Thread(r) \/ WaitFails(r) \/ World(r)
    PROVE  LossInv' /\ LossIsMarked'
<1> USE DEF TypeOK, LossFrame, LossAt, Polling
<1>1. CASE Arrive(r)
  BY <1>1, LossOfOne DEF Arrive, Goto, local, hist, LossInv
<1>2. CASE Acquire(r)
  BY <1>2, LossOfOne DEF Acquire, Return, Goto, local, hist, LossInv
<1>3. CASE SetupFails(r)
  <2>1. LossFrame(r) /\ LossAt(r)
    BY <1>3, ReturnLoss DEF SetupFails
  <2> QED
    BY <2>1, LossOfOne
<1>4. CASE Spawn(r)
  BY <1>4, LossOfOne DEF Spawn, Goto
<1>5. CASE ReadChunk(r)
  <2>1. Len(output[r]) >= MaxOutput => Len(output[r]) = MaxOutput
    BY RunnerAssumption
  <2>2. lost'[r] => Len(output[r]) = MaxOutput /\ output'[r] = output[r]
    BY <1>5, <2>1, RunnerAssumption DEF ReadChunk, append_output, LossInv
  <2>3. LossFrame(r) /\ LossAt(r)
    BY <1>5, <2>2 DEF ReadChunk
  <2> QED
    BY <2>3, LossOfOne
<1>6. CASE ReadEnds(r)
  BY <1>6, LossOfOne DEF ReadEnds, Goto, local, hist, LossInv
<1>7. CASE Wait(r)
  BY <1>7, LossOfOne DEF Wait, Goto, LossInv
<1>8. CASE Clock(r)
  BY <1>8, LossOfOne DEF Clock, Goto, hist, LossInv
<1>9. CASE Finish(r)
  <2>1. lost[r] => TextOf(output[r]) = "truncated"
    BY <1>9 DEF Finish, LossInv, Truncated, TextOf
  <2>2. lost' = [lost EXCEPT ![r] = lost[r]] /\ lost[r] \in BOOLEAN
    BY <1>9 DEF Finish, hist
  <2>3. LossFrame(r) /\ LossAt(r)
    BY <1>9, <2>1, <2>2, ReturnLoss DEF Finish
  <2> QED
    BY <2>3, LossOfOne
<1>10. CASE WaitFails(r)
  <2>1. CASE Goto(r, "read") /\ UNCHANGED lost /\ UNCHANGED result
    BY <1>10, <2>1, LossOfOne DEF WaitFails, Goto, LossInv
  <2>2. CASE /\ CommandReturns(r, -1, <<>>, "message")
             /\ lost' = [lost EXCEPT ![r] = lost[r] \/ output[r] # <<>> \/ pipe[r] # <<>>]
    <3>1. LossFrame(r) /\ LossAt(r)
      BY <1>10, <2>2, ReturnLoss DEF WaitFails
    <3> QED
      BY <3>1, LossOfOne
  <2> QED
    BY <1>10, <2>1, <2>2 DEF WaitFails
<1>11. CASE World(r)
  <2>1. UNCHANGED <<pc, lost, output, result>>
    BY <1>11 DEF World, ChildExits, ChildForks, DescendantExits, Write, TimePasses, hist
  <2> QED
    BY <2>1 DEF LossInv, LossIsMarked
<1> QED
  BY <1>1, <1>2, <1>3, <1>4, <1>5, <1>6, <1>7, <1>8, <1>9, <1>10, <1>11 DEF Thread

(* No answer hides that part of the output was dropped, by append_output   *)
(* at the limit or by run_command when the child could not be collected.   *)
THEOREM LossesAreMarked == Spec => []LossIsMarked
<1>1. Init => LossInv /\ LossIsMarked
  BY DEF Init, LossInv, LossIsMarked, Polling
<1>2. TypeOK /\ LossInv /\ LossIsMarked /\ [Next]_vars => (LossInv /\ LossIsMarked)'
  BY StepLoss DEF Next, vars, local, hist, LossInv, LossIsMarked
<1> QED
  BY <1>1, <1>2, TypeCorrect, PTL DEF Spec
=============================================================================
