--------------------------- MODULE TeamRunsProofs ---------------------------
(* Theorems about TeamRuns, for teams of any size, any number of parallel    *)
(* workers, starts and attempts, and every set of events.                    *)
EXTENDS TeamRuns, FiniteSetTheorems, TLAPS

\* What the numbers are (maxParallelWorkers is at least one).
Numbers == Size \in Nat /\ Parallel \in Nat \ {0} /\ MaxStarts \in Nat

\* Places of a lane that has no member.
Free == {"off", "next", "done"}
LaneType == [at : LanePlaces, item : Positions \cup {0},
             saw : {"none", "waiting", "completed", "failed", "cancelled"},
             id : RunIds \cup {NoRun}, conv : 0..MaxStarts, error : Errors]
StepType == [st : StepStates, run : RunIds \cup {NoRun}, conv : 0..MaxStarts,
             convOf : [RunIds -> 0..MaxStarts]]
TaskType == [at : TaskPlaces, start : 0..MaxStarts, attempts : 0..MaxStarts, error : Errors]
TeamType == [status : TeamStates, cancelReq : BOOLEAN, job : BOOLEAN, attempts : 0..MaxStarts]
ResumeType == [at : {"idle", "find", "wake", "enqueue"}, item : Positions \cup {0},
               id : RunIds \cup {NoRun}]

Types ==
    /\ team \in TeamType
    /\ step \in [Positions -> StepType]
    /\ arun \in [Positions -> [RunIds -> ArunStates]]
    /\ task \in TaskType
    /\ cursor \in [Starts -> 0..Size]
    /\ lane \in [Starts -> [Lanes -> LaneType]]
    /\ resume \in ResumeType

-----------------------------------------------------------------------------
(* What a completed team rests on.                                         *)

Completed(i, id) == id \in RunIds /\ arun[i][id] = "completed"
Done(i) == \E id \in RunIds : arun[i][id] = "completed"

\* What a lane knows at each of its places: it has a member, the run it executes
\* is running, and what it has seen completed is.
Good(l, q) ==
    /\ q.item = 0 <=> q.at \in Free
    /\ IF l = 0 THEN q.item \in {0, Supervisor} /\ q.at # "next" ELSE q.item # Supervisor
    /\ q.error # "none" => q.at = "done"
    /\ q.at \in {"byId", "byIdWrite", "begin", "execute", "record", "after", "write"} => q.id \in RunIds
    /\ q.at = "record" => arun[q.item][q.id] = "running"
    /\ q.at = "after" => q.saw = "completed"
    /\ q.at \in {"byIdWrite", "firstWrite", "write"} => q.saw \in {"completed", "waiting"}
    /\ q.at = "firstWrite" => q.id = 0
    /\ q.at = "after" \/ (q.at \in {"byIdWrite", "firstWrite", "write"} /\ q.saw = "completed") =>
          Completed(q.item, q.id)
Members == \A n \in Starts, l \in Lanes : Good(l, lane[n][l])

\* No two lanes execute the same run.
Owners ==
    \A n, m \in Starts, l, k \in Lanes :
        /\ At(n, l, "record") /\ At(m, k, "record")
        /\ ItemOf(n, l) = ItemOf(m, k) /\ lane[n][l].id = lane[m][k].id
        => n = m /\ l = k

\* A completed step has a completed run, and so has what a resumption wakes.
Outputs ==
    /\ \A i \in Positions : step[i].st = "completed" => Done(i)
    /\ resume.at # "idle" => resume.item \in Positions
    /\ resume.at \in {"find", "wake"} => Completed(resume.item, resume.id)

\* Starts are numbered one after the other; the task works on the last.
Working == {"fan", "merge", "supervise", "last", "complete"}
Numbered ==
    /\ \A n \in Starts : n > team.attempts =>
          cursor[n] = 0 /\ \A l \in Lanes : lane[n][l].at = "off"
    /\ task.at = "start" => task.attempts = team.attempts /\ team.attempts < MaxStarts
    /\ task.at \in Working => task.start \in 1..team.attempts

\* Every position a lane has taken is done, or a lane has it, or a lane has failed.
Failed(n) == \E l \in Lanes \ {0} : lane[n][l].error # "none"
Taken(n, i) == \E l \in Lanes \ {0} : ItemOf(n, l) = i
Covered ==
    /\ task.at = "fan" =>
          /\ \A i \in 1..cursor[task.start] : Done(i) \/ Taken(task.start, i) \/ Failed(task.start)
          /\ \A l \in Lanes \ {0} :
                At(task.start, l, "done") /\ lane[task.start][l].error = "none" => cursor[task.start] = Size
    /\ task.at \in Working \ {"fan"} => \A i \in 1..Size : Done(i)
    /\ task.at = "supervise" =>
          \/ Done(Supervisor)
          \/ ItemOf(task.start, 0) = Supervisor
          \/ lane[task.start][0].error # "none"
    /\ task.at \in {"last", "complete"} => Done(Supervisor)

IInv == Types /\ Members /\ Owners /\ Outputs /\ Numbered /\ Covered /\ TeamRestsOnMembers

-----------------------------------------------------------------------------
(* What a completed step rests on, where no lane outlives its start.       *)

Reusable(i, id) == arun[i][id] \in {"completed", "waiting"}
Bound == {"talk", "byId", "byIdWrite"}
Anew == {"firstWrite", "begin", "execute", "record", "after", "write"}

\* A member is in one lane.
Apart ==
    \A n, m \in Starts, l, k \in Lanes :
        ItemOf(n, l) # 0 /\ ItemOf(n, l) = ItemOf(m, k) => n = m /\ l = k
Below == \A n \in Starts, l \in Lanes \ {0} : ItemOf(n, l) <= cursor[n]

\* A lane looks at the run its step names, or has found that it names none that
\* could be reused; then nobody completes that one but the lane itself.
Reads(q) ==
    /\ q.at \in Bound => q.id = step[q.item].run
    /\ q.at = "first" => step[q.item].run = NoRun \/ ~Reusable(q.item, step[q.item].run)
    /\ q.at \in Anew => \/ step[q.item].run \in {NoRun, q.id}
                        \/ ~Reusable(q.item, step[q.item].run)
Read == \A n \in Starts, l \in Lanes : Reads(lane[n][l])
Woken == resume.at = "wake" => step[resume.item].run = resume.id

Live(n, l) == lane[n][l].at \notin {"off", "done"}
\* With one worker the lane of the members ends before the supervisor's begins.
OneWorker ==
    \A n \in Starts, l \in Lanes :
        Live(n, l) => task.start = n /\ task.at = IF l = 0 THEN "supervise" ELSE "fan"

\* Lanes of one start only are alive.
Serially == Parallel <= 1 \/ MaxStarts = 1
Alone == Parallel <= 1 => OneWorker

SInv == Apart /\ Below /\ Read /\ Woken /\ StepRestsOnItsRun

-----------------------------------------------------------------------------
(* A lane's step.                                                          *)

\* The supervisor's position follows the members', and no run has the number of none.
LEMMA NumberFacts ==
    ASSUME Numbers
    PROVE  /\ Supervisor \in Positions /\ Supervisor # 0 /\ Positions = 1..(Size + 1)
           /\ \A i \in 1..Size : i \in Positions /\ i # Supervisor
           /\ 0 \in Lanes /\ 0 \in RunIds /\ NoRun \notin RunIds /\ Starts \subseteq RunIds
           /\ 0 \notin Positions
BY DEF Numbers, Supervisor, Positions, Lanes, RunIds, NoRun, Starts

\* Runs that completed stay so, and a running one ends by the lane that has it.
Evolves(n, l) ==
    /\ arun' \in [Positions -> [RunIds -> ArunStates]]
    /\ \A i \in Positions, id \in RunIds :
          /\ arun[i][id] = "completed" => arun'[i][id] = "completed"
          /\ arun[i][id] = "running" =>
                \/ arun'[i][id] = "running"
                \/ At(n, l, "record") /\ i = ItemOf(n, l) /\ id = lane[n][l].id

Moves(n, l, r) == r \in LaneType /\ lane' = [lane EXCEPT ![n][l] = r]

\* What a lane that goes from q to r leaves for its member.
Leaves(n, l, r) ==
    \/ /\ UNCHANGED cursor /\ r.item \in {0, ItemOf(n, l)}
       /\ \A i \in Positions : i = ItemOf(n, l) => r.item = i \/ Done(i)' \/ r.error # "none"
       /\ l # 0 /\ r.at = "done" /\ r.error = "none" => cursor[n] = Size
    \/ /\ cursor[n] < Size /\ cursor' = [cursor EXCEPT ![n] = @ + 1]
       /\ l # 0 /\ ItemOf(n, l) = 0 /\ r.item = cursor[n] + 1 /\ r.at = "check"

\* What every step of a lane does.
MemberStepOf(n, l, r) ==
    /\ Live(n, l) /\ Moves(n, l, r) /\ Evolves(n, l) /\ Leaves(n, l, r)
    /\ r.at = "record" => arun[r.item][r.id] # "running"
    /\ step' \in [Positions -> StepType]
    /\ \A i \in Positions : step'[i].st = "completed" => step[i].st = "completed" \/ Done(i)'
    /\ UNCHANGED <<team, task, resume>>

\* A lane writes the step and the runs of its member only, and names only the run
\* it has made or found.
Touch(n, l) ==
    /\ \A j \in Positions : j # ItemOf(n, l) => step'[j] = step[j] /\ arun'[j] = arun[j]
    /\ \A i \in Positions : i = ItemOf(n, l) =>
          /\ step'[i].run # step[i].run => lane[n][l].at \in Anew /\ step'[i].run = lane[n][l].id
          /\ Read /\ step'[i].st = "completed" =>
                \/ step[i].st = "completed" /\ step'[i].run = step[i].run
                \/ step'[i].run \in RunIds /\ arun'[i][step'[i].run] = "completed"
          /\ \A id \in RunIds :
                arun'[i][id] # arun[i][id] => lane[n][l].at \in Anew /\ id = lane[n][l].id

\* The lane has ended its run and goes on to name it.
Held(i, id, q) == q.item = i /\ q.id = id /\ q.at \in {"after", "write"}

\* The lane has no run under way, or its step names the run from now on.
LetsGo(n, l) ==
    /\ UNCHANGED arun
    /\ \/ lane[n][l].at \notin {"record", "after", "write"}
       \/ At(n, l, "write") /\ \A i \in Positions : i = ItemOf(n, l) => step'[i].run = lane[n][l].id

\* The lane begins run id of member i, ends it, or has ended it and goes on to name it.
HasAt(n, l, r, i, id) ==
    /\ i = ItemOf(n, l) /\ id = lane[n][l].id /\ r.item = i /\ r.id = id
    /\ \/ /\ At(n, l, "execute") /\ arun[i][id] = "none" /\ r.at = "record"
          /\ arun' = [arun EXCEPT ![i][id] = "running"]
       \/ /\ At(n, l, "record")
          /\ \E o \in {"completed", "waiting", "failed"} :
               /\ arun' = [arun EXCEPT ![i][id] = o]
               /\ o = "failed" \/ Held(i, id, r)
       \/ /\ At(n, l, "after") /\ UNCHANGED arun
          /\ Held(i, id, r) \/ CancellationRequested
Has(n, l, r) == \E i \in Positions, id \in RunIds : HasAt(n, l, r, i, id)

\* All of it, for the lane that goes on as r.
Does(n, l, r) ==
    /\ MemberStepOf(n, l, r) /\ Good(l, r)' /\ Touch(n, l) /\ (Read => Reads(r)')
    /\ LetsGo(n, l) \/ Has(n, l, r)

\* A position stays done when a lane takes a step.
LEMMA DoneStays ==
    ASSUME Types, NEW n, NEW l, Evolves(n, l), NEW i \in Positions, Done(i)
    PROVE  Done(i)'
BY DEF Done, Evolves

\* A completed run stays completed when a lane takes a step.
LEMMA CompletedStays ==
    ASSUME Types, NEW n, NEW l, Evolves(n, l), NEW i \in Positions, NEW id, Completed(i, id)
    PROVE  Completed(i, id)'
BY DEF Completed, Evolves

\* What the other lanes know stays so.
LEMMA GoodStays ==
    ASSUME Types, Members, Owners, NEW n \in Starts, NEW l \in Lanes, Evolves(n, l),
           NEW m \in Starts, NEW k \in Lanes, m # n \/ k # l, NEW q, q = lane[m][k]
    PROVE  Good(k, q)'
<1>1. q \in LaneType /\ Good(k, q)
  BY DEF Types, Members
<1>2. ASSUME q.at = "record" PROVE arun'[q.item][q.id] = "running"
  <2>1. q.item \in Positions /\ q.id \in RunIds /\ arun[q.item][q.id] = "running"
    BY <1>1, <1>2 DEF Good, LaneType, Free
  <2>2. ~(At(n, l, "record") /\ q.item = ItemOf(n, l) /\ q.id = lane[n][l].id)
    BY <1>2 DEF Owners, At, ItemOf
  <2> QED BY <2>1, <2>2 DEF Evolves
<1>3. ASSUME Completed(q.item, q.id), q.at \notin Free PROVE Completed(q.item, q.id)'
  <2>1. q.item \in Positions
    BY <1>1, <1>3 DEF Good, LaneType
  <2> QED BY <1>3, <2>1, CompletedStays
<1> QED BY <1>1, <1>2, <1>3 DEF Good, Free

\* A step of one lane keeps what every lane knows, and that a run has one lane.
LEMMA MembersStep ==
    ASSUME Types, Members, Owners, NEW n \in Starts, NEW l \in Lanes, NEW r,
           MemberStepOf(n, l, r), Good(l, r)'
    PROVE  Members' /\ Owners' /\ lane' \in [Starts -> [Lanes -> LaneType]]
<1>1. Evolves(n, l) /\ r \in LaneType /\ lane' = [lane EXCEPT ![n][l] = r]
  BY DEF MemberStepOf, Moves
<1>2. lane \in [Starts -> [Lanes -> LaneType]]
  BY DEF Types
<1>3. lane'[n][l] = r /\ \A m \in Starts, k \in Lanes : m # n \/ k # l => lane'[m][k] = lane[m][k]
  BY <1>1, <1>2
<1>4. lane' \in [Starts -> [Lanes -> LaneType]]
  BY <1>1, <1>2
<1>5. ASSUME NEW m \in Starts, NEW k \in Lanes PROVE Good(k, lane[m][k])'
  <2>1. CASE m = n /\ k = l
    BY <1>3, <2>1 DEF Good, Completed
  <2>2. CASE m # n \/ k # l
    <3> PICK q : q = lane[m][k]
      OBVIOUS
    <3>1. Good(k, q)'
      BY <1>1, <2>2, GoodStays
    <3> QED BY <1>3, <2>2, <3>1 DEF Good, Completed
  <2> QED BY <2>1, <2>2
<1>6. ASSUME NEW m \in Starts, NEW k \in Lanes, m # n \/ k # l, lane[m][k].at = "record", r.at = "record",
             lane[m][k].item = r.item, lane[m][k].id = r.id
      PROVE  FALSE
  <2>1. arun[r.item][r.id] = "running"
    BY <1>6 DEF Members, Good
  <2> QED BY <1>6, <2>1 DEF MemberStepOf
<1>7. Owners'
  BY <1>3, <1>6 DEF Owners, At, ItemOf
<1> QED BY <1>4, <1>5, <1>7 DEF Members

\* A step of a lane keeps the invariant.
LEMMA LaneKeeps ==
    ASSUME IInv, Numbers, NEW n \in Starts, NEW l \in Lanes, NEW r, MemberStepOf(n, l, r), Good(l, r)'
    PROVE  IInv'
<1>1. Members' /\ Owners' /\ lane' \in [Starts -> [Lanes -> LaneType]]
  BY MembersStep DEF IInv
<1>2. /\ Evolves(n, l) /\ r \in LaneType /\ lane' = [lane EXCEPT ![n][l] = r]
      /\ UNCHANGED <<team, task, resume>> /\ Leaves(n, l, r) /\ Live(n, l) /\ Types
  BY DEF MemberStepOf, Moves, IInv
<1>3. lane'[n][l] = r /\ \A m \in Starts, k \in Lanes : m # n \/ k # l => lane'[m][k] = lane[m][k]
  BY <1>2 DEF Types
<1>4. cursor' \in [Starts -> 0..Size] /\ \A m \in Starts : m # n => cursor'[m] = cursor[m]
  BY <1>2 DEF Leaves, Types, Numbers
<1>5. Types'
  BY <1>1, <1>2, <1>4 DEF Types, MemberStepOf, Evolves
<1>6. Outputs'
  <2>1. \A i \in Positions : step'[i].st = "completed" => Done(i)'
    BY <1>2, DoneStays DEF IInv, Outputs, MemberStepOf
  <2>2. resume.at \in {"find", "wake"} => Completed(resume.item, resume.id)'
    <3>1. CASE resume.at \in {"find", "wake"}
      <4> PICK i \in Positions, id \in RunIds \cup {NoRun} : i = resume.item /\ id = resume.id
        BY <1>2, <3>1 DEF IInv, Outputs, Types, ResumeType
      <4>1. Completed(i, id)
        BY <3>1 DEF IInv, Outputs
      <4>2. Completed(i, id)'
        BY <1>2, <4>1, CompletedStays
      <4> QED BY <1>2, <4>2 DEF Completed
    <3> QED BY <3>1
  <2> QED BY <1>2, <2>1, <2>2 DEF IInv, Outputs, Completed
<1>7. Numbered'
  <2>0. n \in Nat /\ team.attempts \in Nat
    BY <1>2 DEF Types, TeamType, Starts, Numbers
  <2>1. n <= team.attempts
    BY <1>2, <2>0 DEF IInv, Numbered, Live
  <2>2. ASSUME NEW m \in Starts, m > team.attempts
        PROVE  cursor'[m] = 0 /\ \A k \in Lanes : lane'[m][k].at = "off"
    <3>1. m # n
      BY <2>0, <2>1, <2>2
    <3> QED BY <1>3, <1>4, <2>2, <3>1 DEF IInv, Numbered
  <2> QED BY <1>2, <2>2 DEF IInv, Numbered
<1>8. Covered'
  <2>1. \A i \in Positions : Done(i) => Done(i)'
    BY <1>2, DoneStays
  <2>2. Supervisor \in Positions /\ \A i \in 1..Size : i \in Positions
    BY NumberFacts
  <2>3. task.at \in Working => task.start \in Starts
    BY <1>2 DEF IInv, Numbered, Types, TeamType, Starts, Numbers
  <2>4. \A m \in Starts, k \in Lanes \ {0} : lane[m][k].error # "none" => lane'[m][k] = lane[m][k]
    BY <1>2, <1>3 DEF IInv, Members, Good, Live
  <2>5. \A m \in Starts : Failed(m) => Failed(m)'
    BY <2>4 DEF Failed
  <2>6. ASSUME task.at = "fan" PROVE Covered'
    <3> PICK m \in Starts : m = task.start
      BY <2>3, <2>6 DEF Working
    <3>1. m \in Starts /\ cursor[m] \in 0..Size
      BY <1>2 DEF Types
    <3>2. ASSUME NEW i \in 1..cursor'[m] PROVE Done(i)' \/ Taken(m, i)' \/ Failed(m)'
      <4>1. i \in Positions /\ i # 0
        BY <1>4, <3>1, NumberFacts DEF Positions, Numbers
      <4>2. CASE i \in 1..cursor[m]
        <5>1. CASE Done(i)
          BY <2>1, <4>1, <5>1
        <5>2. CASE Failed(m)
          BY <2>5, <3>1, <5>2
        <5>3. ASSUME NEW k \in Lanes \ {0}, ItemOf(m, k) = i PROVE Done(i)' \/ Taken(m, i)' \/ Failed(m)'
          <6>1. CASE m # n \/ k # l
            BY <1>3, <3>1, <5>3, <6>1 DEF Taken, ItemOf
          <6>2. CASE m = n /\ k = l
            BY <1>2, <1>3, <3>1, <4>1, <5>3, <6>2 DEF Leaves, Taken, ItemOf, Failed
          <6> QED BY <6>1, <6>2
        <5> QED BY <2>6, <4>2, <5>1, <5>2, <5>3 DEF IInv, Covered, Taken
      <4>3. CASE i \notin 1..cursor[m]
        <5>1. m = n /\ cursor' = [cursor EXCEPT ![n] = @ + 1] /\ l # 0 /\ r.item = cursor[n] + 1
          BY <1>2, <1>4, <3>1, <4>3 DEF Leaves
        <5>2. i = cursor[n] + 1
          BY <1>2, <3>1, <4>3, <5>1 DEF Types, Numbers
        <5> QED BY <1>3, <5>1, <5>2 DEF Taken, ItemOf
      <4> QED BY <4>2, <4>3
    <3>3. ASSUME NEW k \in Lanes \ {0}, lane'[m][k].at = "done", lane'[m][k].error = "none"
          PROVE  cursor'[m] = Size
      <4>1. CASE m # n
        BY <1>3, <1>4, <2>6, <3>1, <3>3, <4>1 DEF IInv, Covered, At
      <4>2. CASE m = n /\ k # l
        BY <1>2, <1>3, <2>6, <3>1, <3>3, <4>2 DEF IInv, Covered, At, Leaves
      <4>3. CASE m = n /\ k = l
        BY <1>2, <1>3, <3>1, <3>3, <4>3 DEF Leaves
      <4> QED BY <4>1, <4>2, <4>3
    <3> QED BY <1>2, <2>6, <3>2, <3>3 DEF Covered, At, Working
  <2>7. ASSUME task.at # "fan" PROVE Covered'
    <3>1. task.at \in Working => \A i \in 1..Size : Done(i)'
      BY <2>1, <2>2, <2>7 DEF IInv, Covered
    <3>2. task.at \in {"last", "complete"} => Done(Supervisor)'
      BY <2>1, <2>2 DEF IInv, Covered
    <3>3. ASSUME task.at = "supervise"
          PROVE  Done(Supervisor)' \/ lane'[task.start][0].item = Supervisor \/ lane'[task.start][0].error # "none"
      <4>1. task.start \in Starts /\ 0 \in Lanes
        BY <2>3, <3>3, NumberFacts DEF Working
      <4>2. CASE task.start = n /\ l = 0
        <5>1. Done(Supervisor) \/ ItemOf(n, l) = Supervisor
          BY <1>2, <3>3, <4>2 DEF IInv, Covered, Members, Good, Live
        <5> QED BY <1>2, <1>3, <2>1, <2>2, <4>2, <5>1 DEF Leaves
      <4>3. CASE task.start # n \/ l # 0
        BY <1>3, <2>1, <2>2, <3>3, <4>1, <4>3 DEF IInv, Covered, ItemOf
      <4> QED BY <4>2, <4>3
    <3> QED BY <1>2, <2>7, <3>1, <3>2, <3>3 DEF Covered, ItemOf
  <2> QED BY <2>6, <2>7
<1>9. TeamRestsOnMembers'
  <2>1. \A i \in Positions : Done(i) => Done(i)'
    BY <1>2, DoneStays
  <2> QED BY <1>2, <2>1 DEF IInv, TeamRestsOnMembers, Done
<1> QED BY <1>1, <1>5, <1>6, <1>7, <1>8, <1>9 DEF IInv

-----------------------------------------------------------------------------
(* The steps of a lane.                                                    *)

\* A statement that leaves the runs alone, and completes a step on a run only.
StepsKept ==
    /\ step' \in [Positions -> StepType]
    /\ \A i \in Positions : step'[i].st = "completed" => step[i].st = "completed" \/ Done(i)
RunsKept == UNCHANGED <<team, arun, task, resume>> /\ StepsKept

\* A lane that writes nothing.
LEMMA TouchNone ==
    ASSUME UNCHANGED <<arun, step>>, Types, NEW n, NEW l
    PROVE  Touch(n, l)
BY DEF Touch

\* A lane that has no run under way lets none go.
LEMMA Lets ==
    ASSUME UNCHANGED arun, NEW n, NEW l, lane[n][l].at \notin {"record", "after", "write"}
    PROVE  LetsGo(n, l)
BY DEF LetsGo

\* A step that writes no run is a step of any lane, as far as the runs go.
LEMMA Still ==
    ASSUME Types, RunsKept, NEW n, NEW l
    PROVE  /\ Evolves(n, l)
           /\ \A i \in Positions : Done(i) <=> Done(i)'
           /\ \A i \in Positions : step'[i].st = "completed" => step[i].st = "completed" \/ Done(i)'
BY DEF Types, RunsKept, StepsKept, Evolves, Done

\* The lane goes on with its member.
LEMMA Goes ==
    ASSUME IInv, Numbers, NEW n \in Starts, NEW l \in Lanes, NEW r \in LaneType, Live(n, l),
           RunsKept, UNCHANGED cursor, Moves(n, l, r), Good(l, r),
           r.item = ItemOf(n, l), r.at \notin {"done", "record"}, Touch(n, l), Read => Reads(r)',
           LetsGo(n, l) \/ Has(n, l, r)
    PROVE  Does(n, l, r)
<1>1. Good(l, r)'
  BY DEF RunsKept, Good, Completed
<1>2. MemberStepOf(n, l, r)
  BY Still DEF IInv, MemberStepOf, Leaves, RunsKept, StepsKept
<1> QED BY <1>1, <1>2 DEF Does

\* A lane that has not begun has no member and no error.
LEMMA EmptyLane ==
    ASSUME Numbers
    PROVE  /\ NoLane \in LaneType /\ NoLane.at = "off" /\ NoLane.item = 0
           /\ NoLane.error = "none" /\ NoLane.saw = "none"
BY NumberFacts DEF NoLane, LaneType, LanePlaces, Errors, Numbers

\* The member throws.
LEMMA Throws ==
    ASSUME IInv, Numbers, NEW n \in Starts, NEW l \in Lanes, Live(n, l), Touch(n, l), LetsGo(n, l),
           RunsKept, UNCHANGED cursor, NEW e \in Errors \ {"none"}, Throw(n, l, e)
    PROVE  \E r : Does(n, l, r)
<1> DEFINE r == [NoLane EXCEPT !.at = "done", !.error = e]
<1>0. e \in Errors /\ e # "none"
  OBVIOUS
<1>1. r \in LaneType /\ r.at = "done" /\ r.item = 0 /\ r.error = e
  <2>1. NoLane \in LaneType /\ NoLane.item = 0
    BY EmptyLane
  <2>2. "done" \in LanePlaces
    BY DEF LanePlaces
  <2> QED BY <1>0, <2>1, <2>2 DEF LaneType
<1>2. lane' = [lane EXCEPT ![n][l] = r]
  BY DEF Throw
<1> HIDE DEF r
<1>3. Good(l, r)'
  BY <1>0, <1>1, NumberFacts DEF Good, Free
<1>4. MemberStepOf(n, l, r)
  BY <1>0, <1>1, <1>2, Still DEF IInv, MemberStepOf, Moves, Leaves, RunsKept, StepsKept
<1>5. Reads(r)'
  BY <1>1 DEF Reads, Bound, Anew
<1> QED BY <1>3, <1>4, <1>5 DEF Does

\* The member returns.
LEMMA Succeeds ==
    ASSUME IInv, Numbers, NEW n \in Starts, NEW l \in Lanes, Live(n, l), Touch(n, l), LetsGo(n, l),
           RunsKept, UNCHANGED cursor, Succeed(n, l),
           NEW i \in Positions, i = ItemOf(n, l), Done(i)
    PROVE  \E r : Does(n, l, r)
<1> DEFINE r == [NoLane EXCEPT !.at = IF l = 0 THEN "done" ELSE "next"]
<1>1. r \in LaneType /\ r.at = (IF l = 0 THEN "done" ELSE "next") /\ r.item = 0 /\ r.error = "none"
  BY NumberFacts DEF NoLane, LaneType, LanePlaces, Errors, Numbers
<1>2. lane' = [lane EXCEPT ![n][l] = r]
  BY DEF Succeed
<1> HIDE DEF r
<1>3. Good(l, r)'
  BY <1>1, NumberFacts DEF Good, Free
<1>4. MemberStepOf(n, l, r)
  BY <1>1, <1>2, Still DEF IInv, MemberStepOf, Moves, Leaves, RunsKept, StepsKept
<1>5. Reads(r)'
  BY <1>1 DEF Reads, Bound, Anew
<1> QED BY <1>3, <1>4, <1>5 DEF Does

\* A lane writes its step: it completes it on a completed run.
LEMMA Writes ==
    ASSUME Types, NEW i \in Positions, NEW y \in StepType, step' = [step EXCEPT ![i] = y],
           y.st = "completed" => step[i].st = "completed" \/ Done(i)
    PROVE  StepsKept
BY DEF Types, StepsKept

\* A lane that writes the step of its member, and no run, touches its member only.
LEMMA TouchOne ==
    ASSUME Types, UNCHANGED arun, NEW n, NEW l, NEW i \in Positions, i = ItemOf(n, l),
           NEW y \in StepType, step' = [step EXCEPT ![i] = y],
           y.run = step[i].run \/ (lane[n][l].at \in Anew /\ y.run = lane[n][l].id),
           Read /\ y.st = "completed" =>
              (step[i].st = "completed" /\ y.run = step[i].run) \/ Completed(i, y.run)
    PROVE  Touch(n, l)
BY DEF Types, Touch, Completed

\* The types of one lane, and what it knows.
LEMMA LaneFacts ==
    ASSUME IInv, Numbers, NEW n \in Starts, NEW l \in Lanes, NEW q, q = lane[n][l]
    PROVE  /\ q \in LaneType /\ Good(l, q)
           /\ q.at \notin Free => q.item \in Positions /\ q.item # 0 /\ Live(n, l)
           /\ \A r : Moves(n, l, r) <=> r \in LaneType /\ lane' = [lane EXCEPT ![n][l] = r]
BY NumberFacts DEF IInv, Types, Members, Good, LaneType, Live, Free, Moves

\* A lane that writes nothing leaves the rows.
LEMMA StillKept ==
    ASSUME Types, UNCHANGED <<team, arun, task, resume, step>>
    PROVE  RunsKept
BY DEF Types, RunsKept, StepsKept

\* The lane looks for a cancellation before its member (runMember).
LEMMA CheckKeeps ==
    ASSUME IInv, Numbers, NEW n \in Starts, NEW l \in Lanes, MemberCheck(n, l)
    PROVE  \E r : Does(n, l, r)
<1> PICK q : q = lane[n][l]
  OBVIOUS
<1>1. /\ q \in LaneType /\ Good(l, q) /\ q.at = "check" /\ Live(n, l) /\ RunsKept /\ UNCHANGED cursor
      /\ lane \in [Starts -> [Lanes -> LaneType]] /\ q.item = ItemOf(n, l)
      /\ Touch(n, l) /\ LetsGo(n, l)
  BY LaneFacts, StillKept, TouchNone, Lets DEF IInv, Types, MemberCheck, At, Live, ItemOf
<1>2. CASE CancellationRequested
  <2> PICK e \in Errors \ {"none"} : e = "cancelled"
    BY DEF Errors
  <2>1. Throw(n, l, e)
    BY <1>2 DEF MemberCheck
  <2> QED BY <1>1, <2>1, Throws
<1>3. CASE ~CancellationRequested
  <2> DEFINE r == [q EXCEPT !.at = "step"]
  <2>1. r \in LaneType /\ r.item = q.item /\ r.at = "step" /\ r.error = q.error
    BY <1>1 DEF LaneType, LanePlaces
  <2>2. lane' = [lane EXCEPT ![n][l] = r]
    BY <1>1, <1>3 DEF MemberCheck, Goto
  <2> HIDE DEF r
  <2>3. Good(l, r)
    BY <1>1, <2>1 DEF Good, Free
  <2>4. Reads(r)'
    BY <2>1 DEF Reads, Bound, Anew
  <2> QED BY <1>1, <2>1, <2>2, <2>3, <2>4, Goes DEF Moves
<1> QED BY <1>2, <1>3

\* A worker takes the next member (the shared cursor of the workers).
LEMMA NextKeeps ==
    ASSUME IInv, Numbers, NEW n \in Starts, NEW l \in Lanes, LaneNext(n, l)
    PROVE  \E r : Does(n, l, r)
<1> PICK q : q = lane[n][l]
  OBVIOUS
<1>1. /\ q \in LaneType /\ Good(l, q) /\ q.at = "next" /\ Live(n, l) /\ RunsKept /\ l # 0
      /\ lane \in [Starts -> [Lanes -> LaneType]] /\ q.item = ItemOf(n, l) /\ q.item = 0
      /\ cursor \in [Starts -> 0..Size] /\ Types
  BY LaneFacts, StillKept DEF IInv, Types, LaneNext, At, Live, ItemOf, Good, Free
<1>2. CASE cursor[n] = Size
  <2> DEFINE r == [NoLane EXCEPT !.at = "done"]
  <2>1. r \in LaneType /\ r.item = 0 /\ r.at = "done" /\ r.error = "none"
    BY EmptyLane DEF LaneType, LanePlaces
  <2>2. lane' = [lane EXCEPT ![n][l] = r] /\ UNCHANGED cursor
    BY <1>2 DEF LaneNext
  <2> HIDE DEF r
  <2>3. Good(l, r)'
    BY <1>1, <2>1, NumberFacts DEF Good, Free
  <2>4. MemberStepOf(n, l, r)
    BY <1>1, <1>2, <2>1, <2>2, Still, NumberFacts
       DEF MemberStepOf, Moves, Leaves, RunsKept, StepsKept
  <2>5. Reads(r)'
    BY <2>1 DEF Reads, Bound, Anew
  <2>6. Touch(n, l) /\ LetsGo(n, l)
    BY <1>1, TouchNone, Lets DEF LaneNext
  <2> QED BY <2>3, <2>4, <2>5, <2>6 DEF Does
<1>3. CASE cursor[n] # Size
  <2> PICK c \in 0..Size : c = cursor[n]
    BY <1>1
  <2>1. c < Size /\ c + 1 \in 1..Size
    BY <1>3 DEF Numbers
  <2> DEFINE r == [NoLane EXCEPT !.at = "check", !.item = c + 1]
  <2>2. r \in LaneType /\ r.item = c + 1 /\ r.at = "check" /\ r.error = "none"
    <3>1. c + 1 \in Positions
      BY <2>1, NumberFacts
    <3> QED BY <3>1, EmptyLane DEF LaneType, LanePlaces
  <2>3. lane' = [lane EXCEPT ![n][l] = r] /\ cursor' = [cursor EXCEPT ![n] = @ + 1]
    BY <1>3 DEF LaneNext
  <2>4. r.item # 0 /\ r.item # Supervisor
    BY <2>1, <2>2, NumberFacts
  <2> HIDE DEF r
  <2>5. Good(l, r)'
    BY <1>1, <2>2, <2>4 DEF Good, Free
  <2>6. Leaves(n, l, r)
    BY <1>1, <2>1, <2>2, <2>3 DEF Leaves
  <2>7. MemberStepOf(n, l, r)
    BY <1>1, <2>2, <2>3, <2>6, Still DEF MemberStepOf, Moves, RunsKept, StepsKept
  <2>8. Reads(r)'
    BY <2>2 DEF Reads, Bound, Anew
  <2>9. Touch(n, l) /\ LetsGo(n, l)
    BY <1>1, TouchNone, Lets DEF LaneNext
  <2> QED BY <2>5, <2>7, <2>8, <2>9 DEF Does
<1> QED BY <1>2, <1>3

\* The lane reads the step of its member.
LEMMA StepKeeps ==
    ASSUME IInv, Numbers, NEW n \in Starts, NEW l \in Lanes, MemberStep(n, l)
    PROVE  \E r : Does(n, l, r)
<1> PICK q : q = lane[n][l]
  OBVIOUS
<1>1. /\ q \in LaneType /\ Good(l, q) /\ q.at = "step" /\ Live(n, l) /\ UNCHANGED cursor
      /\ lane \in [Starts -> [Lanes -> LaneType]] /\ q.item = ItemOf(n, l) /\ q.item \in Positions
      /\ step \in [Positions -> StepType] /\ Types
      /\ LetsGo(n, l)
  BY LaneFacts, Lets DEF IInv, Types, MemberStep, At, Live, ItemOf, Free
<1> PICK i \in Positions : i = q.item
  BY <1>1
<1> PICK x : x = step[i]
  OBVIOUS
<1>2. x \in StepType /\ step' = [step EXCEPT ![i].st = IF @ = "none" THEN "queued" ELSE @]
  BY <1>1 DEF MemberStep
<1>3. RunsKept /\ Touch(n, l) /\ step'[i].run = x.run
  <2> DEFINE y == [x EXCEPT !.st = IF x.st = "none" THEN "queued" ELSE x.st]
  <2>1. y \in StepType /\ (y.st = "completed" => x.st = "completed") /\ y.run = x.run
    BY <1>2 DEF StepType, StepStates
  <2>2. step' = [step EXCEPT ![i] = y]
    BY <1>1, <1>2
  <2> HIDE DEF y
  <2>3. StepsKept
    BY <1>1, <2>1, <2>2, Writes
  <2>4. Touch(n, l)
    <3>1. arun' = arun /\ i = ItemOf(n, l)
      BY <1>1 DEF MemberStep
    <3>2. y.st = "completed" => (step[i].st = "completed" /\ y.run = step[i].run) \/ Completed(i, y.run)
      BY <2>1
    <3>3. y.run = step[i].run
      BY <2>1
    <3> QED BY <1>1, <2>1, <2>2, <3>1, <3>2, <3>3, TouchOne
  <2> QED BY <1>1, <2>1, <2>2, <2>3, <2>4 DEF RunsKept, MemberStep
<1>4. CASE x.st = "completed" /\ Succeed(n, l)
  <2>1. Done(i)
    BY <1>4 DEF IInv, Outputs
  <2> QED BY <1>1, <1>3, <1>4, <2>1, Succeeds
<1>5. CASE Throw(n, l, "waiting")
  <2>1. "waiting" \in Errors \ {"none"}
    BY DEF Errors
  <2> QED BY <1>1, <1>3, <1>5, <2>1, Throws
<1>6. CASE lane' = [lane EXCEPT ![n][l] = [@ EXCEPT
                      !.at = IF x.conv = 0 THEN "talk" ELSE IF x.run = NoRun THEN "first" ELSE "byId",
                      !.conv = x.conv, !.id = x.run]]
  <2> PICK a \in {"talk", "first", "byId"} :
        a = (IF x.conv = 0 THEN "talk" ELSE IF x.run = NoRun THEN "first" ELSE "byId")
    OBVIOUS
  <2> DEFINE r == [q EXCEPT !.at = a, !.conv = x.conv, !.id = x.run]
  <2>1. r \in LaneType /\ r.item = q.item /\ r.at = a /\ r.error = q.error /\ r.id = x.run
    BY <1>1, <1>2 DEF LaneType, LanePlaces, StepType
  <2>2. lane' = [lane EXCEPT ![n][l] = r]
    BY <1>1, <1>6
  <2>3. a = "byId" => x.run \in RunIds
    BY <1>2 DEF StepType
  <2> HIDE DEF r
  <2>4. Good(l, r)
    BY <1>1, <2>1, <2>3 DEF Good, Free
  <2>5. r.at \notin {"done", "record"}
    BY <2>1
  <2>6. Reads(r)'
    <3>1. r.at = "first" => x.run = NoRun
      BY <2>1
    <3> QED BY <1>1, <1>3, <2>1, <3>1 DEF Reads, Bound, Anew
  <2> QED BY <1>1, <1>3, <2>1, <2>2, <2>4, <2>5, <2>6, Goes DEF Moves
<1> QED BY <1>1, <1>4, <1>5, <1>6 DEF MemberStep

\* What a lane that has a member knows of it.
LEMMA MemberFacts ==
    ASSUME IInv, Numbers, NEW n \in Starts, NEW l \in Lanes, NEW q, q = lane[n][l], q.at \notin Free
    PROVE  /\ q \in LaneType /\ Good(l, q) /\ Live(n, l) /\ q.item \in Positions /\ q.item = ItemOf(n, l)
           /\ lane \in [Starts -> [Lanes -> LaneType]] /\ step \in [Positions -> StepType] /\ Types
BY LaneFacts DEF IInv, Types, ItemOf

\* The lane makes the conversation of its member.
LEMMA TalkKeeps ==
    ASSUME IInv, Numbers, NEW n \in Starts, NEW l \in Lanes, MemberTalk(n, l)
    PROVE  \E r : Does(n, l, r)
<1> PICK q : q = lane[n][l]
  OBVIOUS
<1>0. q.at = "talk" /\ q.at \notin Free
  BY DEF MemberTalk, At, Free
<1>1. /\ q \in LaneType /\ Good(l, q) /\ Live(n, l) /\ q.item \in Positions /\ q.item = ItemOf(n, l)
      /\ lane \in [Starts -> [Lanes -> LaneType]] /\ step \in [Positions -> StepType] /\ Types
      /\ LetsGo(n, l)
  BY <1>0, MemberFacts, Lets DEF MemberTalk
<1> PICK i \in Positions : i = q.item
  BY <1>1
<1>2. n \in 0..MaxStarts
  BY DEF Starts, Numbers
<1>3. RunsKept /\ Touch(n, l) /\ step'[i].run = step[i].run
  <2> DEFINE y == [step[i] EXCEPT !.conv = n]
  <2>1. y \in StepType /\ y.st = step[i].st /\ y.run = step[i].run
    BY <1>1, <1>2 DEF StepType
  <2>2. step' = [step EXCEPT ![i] = y]
    BY <1>1 DEF MemberTalk
  <2> HIDE DEF y
  <2>3. StepsKept
    BY <1>1, <2>1, <2>2, Writes
  <2>4. Touch(n, l)
    <3>1. arun' = arun /\ i = ItemOf(n, l)
      BY <1>1 DEF MemberTalk
    <3>2. y.st = "completed" => (step[i].st = "completed" /\ y.run = step[i].run) \/ Completed(i, y.run)
      BY <2>1
    <3>3. y.run = step[i].run
      BY <2>1
    <3> QED BY <1>1, <2>1, <2>2, <3>1, <3>2, <3>3, TouchOne
  <2> QED BY <1>1, <2>1, <2>2, <2>3, <2>4 DEF RunsKept, MemberTalk
<1> PICK a \in {"first", "byId"} : a = (IF q.id = NoRun THEN "first" ELSE "byId")
  OBVIOUS
<1> DEFINE r == [q EXCEPT !.conv = n, !.at = a]
<1>4. r \in LaneType /\ r.item = q.item /\ r.at = a /\ r.error = q.error /\ r.id = q.id
  BY <1>1, <1>2 DEF LaneType, LanePlaces
<1>5. lane' = [lane EXCEPT ![n][l] = r] /\ UNCHANGED cursor
  BY <1>1 DEF MemberTalk
<1>6. a = "byId" => q.id \in RunIds
  BY <1>1 DEF LaneType
<1> HIDE DEF r
<1>7. Good(l, r) /\ r.at \notin {"done", "record"}
  BY <1>0, <1>1, <1>4, <1>6 DEF Good, Free
<1>8. Read => Reads(r)'
  <2> SUFFICES ASSUME Read PROVE Reads(r)'
    OBVIOUS
  <2>1. q.id = step[i].run
    BY <1>0, <1>1 DEF Read, Reads, Bound
  <2> QED BY <1>1, <1>3, <1>4, <2>1 DEF Reads, Bound, Anew
<1> QED BY <1>1, <1>3, <1>4, <1>5, <1>7, <1>8, Goes DEF Moves

\* The lane reads the run its step names, or the first run of the conversation.
LEMMA ReadKeeps ==
    ASSUME IInv, Numbers, NEW n \in Starts, NEW l \in Lanes, MemberRead(n, l)
    PROVE  \E r : Does(n, l, r)
<1> PICK q : q = lane[n][l]
  OBVIOUS
<1>0. q.at \in {"byId", "first"} /\ q.at \notin Free
  BY DEF MemberRead, At, Free
<1>1. /\ q \in LaneType /\ Good(l, q) /\ Live(n, l) /\ q.item \in Positions /\ q.item = ItemOf(n, l)
      /\ lane \in [Starts -> [Lanes -> LaneType]] /\ step \in [Positions -> StepType] /\ Types
      /\ UNCHANGED <<cursor, arun, step>> /\ RunsKept /\ Touch(n, l)
      /\ LetsGo(n, l)
  BY <1>0, MemberFacts, StillKept, TouchNone, Lets DEF MemberRead
<1> PICK i \in Positions : i = q.item
  BY <1>1
<1>2. CASE q.at = "byId"
  <2> PICK k : k = arun[i][q.id]
    OBVIOUS
  <2> DEFINE r == [q EXCEPT !.at = IF k \in {"completed", "waiting"} THEN "byIdWrite" ELSE "first",
                            !.saw = IF k \in {"completed", "waiting"} THEN k ELSE "none"]
  <2>1. /\ r \in LaneType /\ r.item = q.item /\ r.error = q.error /\ r.id = q.id
        /\ \/ r.at = "byIdWrite" /\ r.saw = k /\ k \in {"completed", "waiting"}
           \/ r.at = "first" /\ k \notin {"completed", "waiting"}
    BY <1>1 DEF LaneType, LanePlaces
  <2>2. lane' = [lane EXCEPT ![n][l] = r]
    BY <1>1, <1>2 DEF MemberRead, At
  <2>3. q.id \in RunIds
    BY <1>1, <1>2 DEF Good
  <2> HIDE DEF r
  <2>4. Good(l, r) /\ r.at \notin {"done", "record"}
    BY <1>1, <1>2, <2>1, <2>3 DEF Good, Free, Completed
  <2>5. Read => Reads(r)'
    <3> SUFFICES ASSUME Read PROVE Reads(r)'
      OBVIOUS
    <3>1. q.id = step[i].run
      BY <1>1, <1>2 DEF Read, Reads, Bound
    <3> QED BY <1>1, <2>1, <3>1 DEF Reads, Bound, Anew, Reusable
  <2> QED BY <1>1, <2>1, <2>2, <2>4, <2>5, Goes DEF Moves
<1>3. CASE q.at = "first"
  <2> PICK k : k = arun[i][0]
    OBVIOUS
  <2> PICK d \in RunIds : d = (IF k \in {"completed", "waiting"} \/ k = "none" THEN 0 ELSE n)
    BY NumberFacts
  <2> DEFINE r == [q EXCEPT !.at = IF k \in {"completed", "waiting"} THEN "firstWrite" ELSE "begin",
                            !.saw = IF k \in {"completed", "waiting"} THEN k ELSE "none", !.id = d]
  <2>1. /\ r \in LaneType /\ r.item = q.item /\ r.error = q.error /\ r.id = d
        /\ \/ r.at = "firstWrite" /\ r.saw = k /\ k \in {"completed", "waiting"}
           \/ r.at = "begin"
    BY <1>1 DEF LaneType, LanePlaces
  <2>2. lane' = [lane EXCEPT ![n][l] = r]
    BY <1>1, <1>3 DEF MemberRead, At
  <2> HIDE DEF r
  <2>4. Good(l, r) /\ r.at \notin {"done", "record"}
    BY <1>1, <1>3, <2>1, NumberFacts DEF Good, Free, Completed
  <2>5. Read => Reads(r)'
    <3> SUFFICES ASSUME Read PROVE Reads(r)'
      OBVIOUS
    <3>1. step[i].run = NoRun \/ ~Reusable(i, step[i].run)
      BY <1>1, <1>3 DEF Read, Reads
    <3>2. step'[i].run = NoRun \/ ~Reusable(i, step[i].run)'
      BY <1>1, <3>1 DEF Reusable
    <3> QED BY <1>1, <2>1, <3>2 DEF Reads, Bound, Anew, Reusable
  <2> QED BY <1>1, <2>1, <2>2, <2>4, <2>5, Goes DEF Moves
<1> QED BY <1>0, <1>2, <1>3

\* The lane begins a run for its member.
LEMMA BeginKeeps ==
    ASSUME IInv, Numbers, NEW n \in Starts, NEW l \in Lanes, MemberBegin(n, l)
    PROVE  \E r : Does(n, l, r)
<1> PICK q : q = lane[n][l]
  OBVIOUS
<1>0. q.at = "begin" /\ q.at \notin Free
  BY DEF MemberBegin, At, Free
<1>1. /\ q \in LaneType /\ Good(l, q) /\ Live(n, l) /\ q.item \in Positions /\ q.item = ItemOf(n, l)
      /\ lane \in [Starts -> [Lanes -> LaneType]] /\ step \in [Positions -> StepType] /\ Types
      /\ LetsGo(n, l)
  BY <1>0, MemberFacts, Lets DEF MemberBegin
<1> PICK i \in Positions : i = q.item
  BY <1>1
<1>3. RunsKept /\ Touch(n, l) /\ step'[i].run = step[i].run
  <2> DEFINE y == [step[i] EXCEPT !.st = "running"]
  <2>1. y \in StepType /\ y.st # "completed" /\ y.run = step[i].run
    <3>1. step[i] \in StepType /\ "running" \in StepStates
      BY <1>1 DEF StepStates
    <3> QED BY <3>1 DEF StepType
  <2>2. step' = [step EXCEPT ![i] = y]
    BY <1>1 DEF MemberBegin
  <2> HIDE DEF y
  <2>3. StepsKept
    BY <1>1, <2>1, <2>2, Writes
  <2>4. Touch(n, l)
    <3>1. arun' = arun /\ i = ItemOf(n, l)
      BY <1>1 DEF MemberBegin
    <3>2. y.st = "completed" => (step[i].st = "completed" /\ y.run = step[i].run) \/ Completed(i, y.run)
      BY <2>1
    <3>3. y.run = step[i].run
      BY <2>1
    <3> QED BY <1>1, <2>1, <2>2, <3>1, <3>2, <3>3, TouchOne
  <2> QED BY <1>1, <2>1, <2>2, <2>3, <2>4 DEF RunsKept, MemberBegin
<1> DEFINE r == [q EXCEPT !.at = "execute"]
<1>4. r \in LaneType /\ r.item = q.item /\ r.at = "execute" /\ r.error = q.error /\ r.id = q.id
  BY <1>1 DEF LaneType, LanePlaces
<1>5. lane' = [lane EXCEPT ![n][l] = r] /\ UNCHANGED cursor
  BY <1>1 DEF MemberBegin, Goto
<1> HIDE DEF r
<1>7. Good(l, r) /\ r.at \notin {"done", "record"}
  BY <1>0, <1>1, <1>4 DEF Good, Free
<1>8. Read => Reads(r)'
  <2> SUFFICES ASSUME Read PROVE Reads(r)'
    OBVIOUS
  <2>1. step[i].run \in {NoRun, q.id} \/ ~Reusable(i, step[i].run)
    BY <1>0, <1>1 DEF Read, Reads, Anew
  <2>2. arun' = arun
    BY <1>3 DEF RunsKept
  <2>3. step'[i].run \in {NoRun, q.id} \/ ~Reusable(i, step[i].run)'
    BY <1>3, <2>1, <2>2 DEF Reusable
  <2> QED BY <1>1, <1>4, <2>3 DEF Reads, Bound, Anew, Reusable
<1> QED BY <1>1, <1>3, <1>4, <1>5, <1>7, <1>8, Goes DEF Moves

\* A step that a lane writes from what it saw of the run.
LEMMA SettleKeeps ==
    ASSUME IInv, Numbers, NEW n \in Starts, NEW l \in Lanes, NEW q, q = lane[n][l], NEW d \in RunIds \cup {NoRun},
           q.at \in {"byIdWrite", "firstWrite", "write"},
           d = step[ItemOf(n, l)].run \/ (q.at \in Anew /\ d = q.id),
           Read /\ q.saw = "completed" => Completed(ItemOf(n, l), d), q.at = "write" => d = q.id,
           step' = [step EXCEPT ![ItemOf(n, l)] = [@ EXCEPT !.st = q.saw, !.run = d]],
           IF q.saw = "completed" THEN Succeed(n, l) ELSE Throw(n, l, "waiting"),
           UNCHANGED <<team, arun, task, cursor, resume>>
    PROVE  \E r : Does(n, l, r)
<1>0. q.at \notin Free
  BY DEF Free
<1>1. /\ q \in LaneType /\ Good(l, q) /\ Live(n, l) /\ q.item \in Positions /\ q.item = ItemOf(n, l)
      /\ lane \in [Starts -> [Lanes -> LaneType]] /\ step \in [Positions -> StepType] /\ Types
  BY <1>0, MemberFacts
<1> PICK i \in Positions : i = q.item
  BY <1>1
<1>2. q.saw \in {"completed", "waiting"} /\ (q.saw = "completed" => Done(i))
  BY <1>1 DEF Good, Completed, Done
<1>3. RunsKept /\ Touch(n, l) /\ step'[i].run = d
  <2> DEFINE y == [step[i] EXCEPT !.st = q.saw, !.run = d]
  <2>1. y \in StepType /\ y.run = d /\ (y.st = "completed" => Done(i))
        /\ (Read /\ y.st = "completed" => Completed(i, d))
    BY <1>1, <1>2 DEF StepType, StepStates
  <2>2. step' = [step EXCEPT ![i] = y]
    BY <1>1
  <2> HIDE DEF y
  <2>3. StepsKept
    BY <1>1, <2>1, <2>2, Writes
  <2>4. Touch(n, l)
    <3>1. i = ItemOf(n, l) /\ y \in StepType /\ arun' = arun
      BY <1>1, <2>1
    <3>2. Read /\ y.st = "completed" => Completed(i, y.run)
      BY <2>1
    <3>3. y.run = step[i].run \/ (lane[n][l].at \in Anew /\ y.run = lane[n][l].id)
      BY <2>1, <3>1
    <3>4. Types /\ step' = [step EXCEPT ![i] = y]
      BY <1>1, <2>2
    <3>5. CASE Read
      BY <3>1, <3>2, <3>3, <3>4, <3>5, TouchOne
    <3>6. CASE ~Read
      BY <3>1, <3>3, <3>4, <3>6, TouchOne
    <3> QED BY <3>5, <3>6
  <2>5. step'[i].run = d
    BY <1>1, <2>1, <2>2
  <2>6. RunsKept
    BY <2>3 DEF RunsKept
  <2> QED BY <2>4, <2>5, <2>6
<1>6. LetsGo(n, l)
  <2>1. arun' = arun /\ i = ItemOf(n, l) /\ (q.at = "write" => step'[i].run = lane[n][l].id)
    BY <1>1, <1>3
  <2> QED BY <2>1 DEF LetsGo, At
<1>4. CASE q.saw = "completed"
  BY <1>1, <1>2, <1>3, <1>4, <1>6, Succeeds
<1>5. CASE q.saw # "completed"
  <2>1. "waiting" \in Errors \ {"none"}
    BY DEF Errors
  <2> QED BY <1>1, <1>3, <1>5, <1>6, <2>1, Throws
<1> QED BY <1>4, <1>5

\* The lane writes the step of a run it found settled.
LEMMA ReuseKeeps ==
    ASSUME IInv, Numbers, NEW n \in Starts, NEW l \in Lanes, MemberReuse(n, l)
    PROVE  \E r : Does(n, l, r)
<1> PICK q : q = lane[n][l]
  OBVIOUS
<1>0. q.at \in {"byIdWrite", "firstWrite"} /\ q.at \notin Free
  BY DEF MemberReuse, Free
<1>1. q.item \in Positions /\ q.item = ItemOf(n, l) /\ step \in [Positions -> StepType]
  BY <1>0, MemberFacts
<1> PICK i \in Positions : i = q.item
  BY <1>1
<1> PICK d \in RunIds \cup {NoRun} : d = (IF At(n, l, "firstWrite") THEN 0 ELSE step[i].run)
  BY <1>1, NumberFacts DEF StepType
<1>2. step' = [step EXCEPT ![ItemOf(n, l)] = [@ EXCEPT !.st = q.saw, !.run = d]]
  BY <1>1 DEF MemberReuse
<1>3. d = step[ItemOf(n, l)].run \/ (q.at \in Anew /\ d = q.id)
  BY <1>0, <1>1, MemberFacts DEF At, Anew, Good
<1>4. ASSUME Read, q.saw = "completed" PROVE Completed(ItemOf(n, l), d)
  <2>1. Good(l, q) /\ Completed(q.item, q.id)
    BY <1>0, <1>4, MemberFacts DEF Good
  <2>2. CASE q.at = "byIdWrite"
    BY <1>1, <1>4, <2>1, <2>2 DEF At, Read, Reads, Bound
  <2>3. CASE q.at = "firstWrite"
    BY <1>1, <2>1, <2>3 DEF At, Good
  <2> QED BY <1>0, <2>2, <2>3
<1>5. IF q.saw = "completed" THEN Succeed(n, l) ELSE Throw(n, l, "waiting")
  BY DEF MemberReuse
<1>6. UNCHANGED <<team, arun, task, cursor, resume>> /\ q.at \in {"byIdWrite", "firstWrite", "write"}
  BY <1>0 DEF MemberReuse
<1> QED BY <1>0, <1>2, <1>3, <1>4, <1>5, <1>6, SettleKeeps

\* The lane writes the step after its run.
LEMMA WriteKeeps ==
    ASSUME IInv, Numbers, NEW n \in Starts, NEW l \in Lanes, MemberWrite(n, l)
    PROVE  \E r : Does(n, l, r)
<1> PICK q : q = lane[n][l]
  OBVIOUS
<1>0. q.at = "write" /\ q.at \notin Free
  BY DEF MemberWrite, At, Free
<1>1. q \in LaneType
  BY <1>0, MemberFacts
<1> PICK d \in RunIds \cup {NoRun} : d = q.id
  BY <1>1 DEF LaneType
<1>2. step' = [step EXCEPT ![ItemOf(n, l)] = [@ EXCEPT !.st = q.saw, !.run = d]]
  BY DEF MemberWrite
<1>3. (q.at \in Anew /\ d = q.id) /\ (q.saw = "completed" => Completed(ItemOf(n, l), d))
  BY <1>0, MemberFacts DEF Anew, Good
<1>4. IF q.saw = "completed" THEN Succeed(n, l) ELSE Throw(n, l, "waiting")
  BY DEF MemberWrite
<1>5. UNCHANGED <<team, arun, task, cursor, resume>> /\ q.at \in {"byIdWrite", "firstWrite", "write"}
  BY <1>0 DEF MemberWrite
<1> QED BY <1>2, <1>3, <1>4, <1>5, SettleKeeps

\* The lane writes the step of a member that failed, and throws.
LEMMA FailKeeps ==
    ASSUME IInv, Numbers, NEW n \in Starts, NEW l \in Lanes, MemberFail(n, l)
    PROVE  \E r : Does(n, l, r)
<1> PICK q : q = lane[n][l]
  OBVIOUS
<1>0. q.at = "fail" /\ q.at \notin Free
  BY DEF MemberFail, At, Free
<1>1. /\ q \in LaneType /\ Good(l, q) /\ Live(n, l) /\ q.item \in Positions /\ q.item = ItemOf(n, l)
      /\ lane \in [Starts -> [Lanes -> LaneType]] /\ step \in [Positions -> StepType] /\ Types
      /\ LetsGo(n, l)
  BY <1>0, MemberFacts, Lets DEF MemberFail
<1> PICK i \in Positions : i = q.item
  BY <1>1
<1>3. RunsKept /\ Touch(n, l)
  <2> DEFINE y == [step[i] EXCEPT !.st = "failed"]
  <2>1. y \in StepType /\ y.st # "completed" /\ y.run = step[i].run
    BY <1>1 DEF StepType, StepStates
  <2>2. step' = [step EXCEPT ![i] = y]
    BY <1>1 DEF MemberFail
  <2> HIDE DEF y
  <2>3. StepsKept
    BY <1>1, <2>1, <2>2, Writes
  <2>4. Touch(n, l)
    <3>1. arun' = arun /\ i = ItemOf(n, l)
      BY <1>1 DEF MemberFail
    <3>2. y.st = "completed" => (step[i].st = "completed" /\ y.run = step[i].run) \/ Completed(i, y.run)
      BY <2>1
    <3>3. y.run = step[i].run
      BY <2>1
    <3> QED BY <1>1, <2>1, <2>2, <3>1, <3>2, <3>3, TouchOne
  <2> QED BY <1>1, <2>1, <2>2, <2>3, <2>4 DEF RunsKept, MemberFail
<1> PICK e \in Errors \ {"none"} : e = (IF q.saw = "cancelled" THEN "cancelled" ELSE "error")
  BY DEF Errors
<1>4. Throw(n, l, e)
  BY DEF MemberFail
<1> QED BY <1>1, <1>3, <1>4, Throws DEF MemberFail

\* The lane looks for a cancellation after its member.
LEMMA AfterKeeps ==
    ASSUME IInv, Numbers, NEW n \in Starts, NEW l \in Lanes, MemberAfter(n, l)
    PROVE  \E r : Does(n, l, r)
<1> PICK q : q = lane[n][l]
  OBVIOUS
<1>0. q.at = "after" /\ q.at \notin Free
  BY DEF MemberAfter, At, Free
<1>1. /\ q \in LaneType /\ Good(l, q) /\ Live(n, l) /\ q.item \in Positions /\ q.item = ItemOf(n, l)
      /\ lane \in [Starts -> [Lanes -> LaneType]] /\ RunsKept /\ UNCHANGED <<cursor, arun, step>> /\ Touch(n, l)
      /\ Types
  BY <1>0, MemberFacts, StillKept, TouchNone DEF MemberAfter
<1>2. q.saw = "completed"
  BY <1>0, <1>1 DEF Good
<1> PICK a \in {"fail", "write"} : a = (IF CancellationRequested THEN "fail" ELSE "write")
  OBVIOUS
<1> PICK s \in {"completed", "cancelled"} :
      s = (IF CancellationRequested THEN "cancelled" ELSE q.saw) /\ (a = "write" => s = q.saw)
  BY <1>2
<1> DEFINE r == [q EXCEPT !.at = a, !.saw = s]
<1>4. /\ r \in LaneType /\ r.item = q.item /\ r.error = q.error /\ r.id = q.id
      /\ r.at = "fail" \/ (r.at = "write" /\ r.saw = q.saw)
      /\ r.at = "write" \/ CancellationRequested
  BY <1>1 DEF LaneType, LanePlaces
<1>5. lane' = [lane EXCEPT ![n][l] = r]
  BY <1>1 DEF MemberAfter
<1> HIDE DEF r
<1>7. Good(l, r) /\ r.at \notin {"done", "record"}
  BY <1>0, <1>1, <1>2, <1>4 DEF Good, Free
<1>8. Read => Reads(r)'
  <2> SUFFICES ASSUME Read PROVE Reads(r)'
    OBVIOUS
  <2>1. step[q.item].run \in {NoRun, q.id} \/ ~Reusable(q.item, step[q.item].run)
    BY <1>0, <1>1 DEF Read, Reads, Anew
  <2>2. step'[q.item].run \in {NoRun, q.id} \/ ~Reusable(q.item, step[q.item].run)'
    BY <1>1, <2>1 DEF Reusable
  <2> QED BY <1>1, <1>4, <2>2 DEF Reads, Bound, Anew, Reusable
<1>9. Has(n, l, r)
  <2>1. q.id \in RunIds
    BY <1>0, <1>1 DEF Good
  <2>2. Held(q.item, q.id, r) \/ CancellationRequested
    BY <1>4 DEF Held
  <2> QED BY <1>0, <1>1, <1>4, <2>1, <2>2 DEF Has, HasAt, At
<1> QED BY <1>1, <1>4, <1>5, <1>7, <1>8, <1>9, Goes DEF Moves

\* The agent runtime claims the run of the member.
LEMMA PrepareKeeps ==
    ASSUME IInv, Numbers, NEW n \in Starts, NEW l \in Lanes, MemberPrepare(n, l)
    PROVE  \E r : Does(n, l, r)
<1> PICK q : q = lane[n][l]
  OBVIOUS
<1>0. q.at = "execute" /\ q.at \notin Free
  BY DEF MemberPrepare, At, Free
<1>1. /\ q \in LaneType /\ Good(l, q) /\ Live(n, l) /\ q.item \in Positions /\ q.item = ItemOf(n, l)
      /\ lane \in [Starts -> [Lanes -> LaneType]] /\ step \in [Positions -> StepType] /\ Types
      /\ UNCHANGED <<team, task, cursor, resume>> /\ q.id \in RunIds
  BY <1>0, MemberFacts DEF MemberPrepare, Good
<1> PICK i \in Positions : i = q.item
  BY <1>1
<1> PICK id \in RunIds : id = q.id
  BY <1>1
<1>2. CASE Goto(n, l, "fail") /\ UNCHANGED <<arun, step>>
  <2> DEFINE r == [q EXCEPT !.at = "fail"]
  <2>1. r \in LaneType /\ r.item = q.item /\ r.at = "fail" /\ r.error = q.error
    BY <1>1 DEF LaneType, LanePlaces
  <2>2. lane' = [lane EXCEPT ![n][l] = r]
    BY <1>1, <1>2 DEF Goto
  <2> HIDE DEF r
  <2>3. Good(l, r) /\ r.at \notin {"done", "record"}
    BY <1>0, <1>1, <2>1 DEF Good, Free
  <2>4. RunsKept
    BY <1>1, <1>2, StillKept
  <2>5. Reads(r)' /\ Touch(n, l)
    BY <1>1, <1>2, <2>1, TouchNone DEF Reads, Bound, Anew
  <2>6. LetsGo(n, l)
    BY <1>0, <1>2, Lets
  <2> QED BY <1>1, <2>1, <2>2, <2>3, <2>4, <2>5, <2>6, Goes DEF Moves
<1>3. CASE arun[i][id] = "none" /\ arun' = [arun EXCEPT ![i][id] = "running"]
           /\ step' = [step EXCEPT ![i].convOf[id] = q.conv] /\ Goto(n, l, "record")
  <2> DEFINE r == [q EXCEPT !.at = "record"]
  <2>1. r \in LaneType /\ r.item = i /\ r.at = "record" /\ r.error = q.error /\ r.id = id
    BY <1>1 DEF LaneType, LanePlaces
  <2>2. lane' = [lane EXCEPT ![n][l] = r]
    BY <1>1, <1>3 DEF Goto
  <2> HIDE DEF r
  <2>3. arun \in [Positions -> [RunIds -> ArunStates]] /\ "running" \in ArunStates
    BY <1>1 DEF Types, ArunStates
  <2>4. arun'[i][id] = "running"
    BY <1>3, <2>3
  <2>5. Good(l, r)'
    BY <1>0, <1>1, <2>1, <2>4 DEF Good, Free
  <2>6. Evolves(n, l)
    BY <1>3, <2>3 DEF Evolves
  <2>7. /\ step' \in [Positions -> StepType]
        /\ \A j \in Positions : /\ step'[j].st = step[j].st /\ step'[j].run = step[j].run
                                /\ j # i => step'[j] = step[j]
    <3>1. /\ [step[i] EXCEPT !.convOf[id] = q.conv] \in StepType
          /\ [step[i] EXCEPT !.convOf[id] = q.conv].st = step[i].st
          /\ [step[i] EXCEPT !.convOf[id] = q.conv].run = step[i].run
      <4>1. q.conv \in 0..MaxStarts
        BY <1>1 DEF LaneType
      <4>2. [step[i].convOf EXCEPT ![id] = q.conv] \in [RunIds -> 0..MaxStarts]
        BY <1>1, <4>1 DEF StepType
      <4> QED BY <1>1, <4>2 DEF StepType
    <3>2. step' = [step EXCEPT ![i] = [step[i] EXCEPT !.convOf[id] = q.conv]]
      BY <1>1, <1>3
    <3> QED BY <1>1, <3>1, <3>2
  <2>8. MemberStepOf(n, l, r)
    BY <1>1, <1>3, <2>1, <2>2, <2>6, <2>7 DEF MemberStepOf, Moves, Leaves
  <2>9. Touch(n, l)
    <3>1. \A d \in RunIds : d # id => arun'[i][d] = arun[i][d]
      BY <1>3, <2>3
    <3>2. \A j \in Positions : j # i => step'[j] = step[j] /\ arun'[j] = arun[j]
      BY <1>3, <2>3, <2>7
    <3>3. i = ItemOf(n, l) /\ q.at \in Anew
      BY <1>0, <1>1 DEF Anew
    <3>4. lane[n][l].at \in Anew /\ id = lane[n][l].id
      BY <3>3
    <3>5. step'[i].run = step[i].run /\ step'[i].st = step[i].st
      BY <2>7
    <3> QED BY <3>1, <3>2, <3>3, <3>4, <3>5 DEF Touch
  <2>10. Read => Reads(r)'
    <3> SUFFICES ASSUME Read PROVE Reads(r)'
      OBVIOUS
    <3>1. step[i].run \in {NoRun, id} \/ ~Reusable(i, step[i].run)
      BY <1>0, <1>1 DEF Read, Reads, Anew
    <3>2. step'[i].run \in {NoRun, id} \/ ~Reusable(i, step[i].run)'
      <4>1. \A d \in RunIds : d # id => arun'[i][d] = arun[i][d]
        BY <1>3, <2>3
      <4>2. step'[i].run = step[i].run
        BY <2>7
      <4>3. step[i] \in StepType
        BY <1>1
      <4>4. step[i].run \in RunIds \cup {NoRun}
        BY <4>3 DEF StepType
      <4> QED BY <3>1, <4>1, <4>2, <4>4 DEF Reusable
    <3> QED BY <2>1, <3>2 DEF Reads, Bound, Anew, Reusable
  <2>11. Has(n, l, r)
    BY <1>0, <1>1, <1>3, <2>1 DEF Has, HasAt, At
  <2> QED BY <2>5, <2>8, <2>9, <2>10, <2>11 DEF Does
<1> QED BY <1>1, <1>2, <1>3 DEF MemberPrepare

\* The agent runtime ends the run of the member, or it waits.
LEMMA OutcomeKeeps ==
    ASSUME IInv, Numbers, NEW n \in Starts, NEW l \in Lanes, MemberOutcome(n, l)
    PROVE  \E r : Does(n, l, r)
<1> PICK q : q = lane[n][l]
  OBVIOUS
<1>0. q.at = "record" /\ q.at \notin Free
  BY DEF MemberOutcome, At, Free
<1>1. /\ q \in LaneType /\ Good(l, q) /\ Live(n, l) /\ q.item \in Positions /\ q.item = ItemOf(n, l)
      /\ lane \in [Starts -> [Lanes -> LaneType]] /\ step \in [Positions -> StepType] /\ Types
      /\ UNCHANGED <<team, step, task, cursor, resume>> /\ q.id \in RunIds
  BY <1>0, MemberFacts DEF MemberOutcome, Good
<1> PICK i \in Positions : i = q.item
  BY <1>1
<1> PICK id \in RunIds : id = q.id
  BY <1>1
<1> PICK o \in {"completed", "waiting", "failed"} :
      /\ arun' = [arun EXCEPT ![ItemOf(n, l)][lane[n][l].id] = o]
      /\ lane' = [lane EXCEPT ![n][l] = [@ EXCEPT
                   !.saw = o,
                   !.at = CASE o = "waiting" -> "write" [] o = "completed" -> "after" [] o = "failed" -> "fail"]]
  BY DEF MemberOutcome
<1> PICK a \in {"write", "after", "fail"} :
      /\ a = CASE o = "waiting" -> "write" [] o = "completed" -> "after" [] o = "failed" -> "fail"
      /\ a = "write" => o = "waiting"
      /\ a = "after" => o = "completed"
      /\ a = "fail" => o = "failed"
  <2>1. CASE o = "waiting"
    BY <2>1
  <2>2. CASE o = "completed"
    BY <2>2
  <2>3. CASE o = "failed"
    BY <2>3
  <2> QED BY <2>1, <2>2, <2>3
<1> DEFINE r == [q EXCEPT !.saw = o, !.at = a]
<1>2. r \in LaneType /\ r.item = i /\ r.at = a /\ r.error = q.error /\ r.id = id /\ r.saw = o
  BY <1>1 DEF LaneType, LanePlaces
<1>3. lane' = [lane EXCEPT ![n][l] = r]
  BY <1>1
<1> HIDE DEF r
<1>4. arun \in [Positions -> [RunIds -> ArunStates]] /\ o \in ArunStates
  BY <1>1 DEF Types, ArunStates
<1>5. arun' = [arun EXCEPT ![i][id] = o] /\ arun[i][id] = "running"
  BY <1>0, <1>1 DEF Good
<1>6. arun'[i][id] = o
  BY <1>4, <1>5
<1>7. Good(l, r)'
  BY <1>0, <1>1, <1>2, <1>6 DEF Good, Free, Completed
<1>8. Evolves(n, l)
  BY <1>0, <1>1, <1>4, <1>5 DEF Evolves, At
<1>9. MemberStepOf(n, l, r)
  BY <1>1, <1>2, <1>3, <1>8 DEF MemberStepOf, Moves, Leaves
<1>10. Touch(n, l)
  BY <1>0, <1>1, <1>4, <1>5 DEF Touch, Anew
<1>11. Read => Reads(r)'
  <2> SUFFICES ASSUME Read PROVE Reads(r)'
    OBVIOUS
  <2>1. step[i].run \in {NoRun, id} \/ ~Reusable(i, step[i].run)
    BY <1>0, <1>1 DEF Read, Reads, Anew
  <2>2. step'[i].run \in {NoRun, id} \/ ~Reusable(i, step[i].run)'
    BY <1>1, <1>4, <1>5, <2>1 DEF Reusable, StepType
  <2> QED BY <1>2, <2>2 DEF Reads, Bound, Anew, Reusable
<1>12. Has(n, l, r)
  <2>1. o = "failed" \/ Held(i, id, r)
    BY <1>2 DEF Held
  <2>2. /\ i = ItemOf(n, l) /\ id = lane[n][l].id /\ r.item = i /\ r.id = id
        /\ At(n, l, "record") /\ arun' = [arun EXCEPT ![i][id] = o]
    BY <1>0, <1>1, <1>2, <1>5 DEF At
  <2>3. HasAt(n, l, r, i, id)
    BY <2>1, <2>2 DEF HasAt
  <2> QED BY <2>3 DEF Has
<1> QED BY <1>7, <1>9, <1>10, <1>11, <1>12 DEF Does

\* Every step of a lane is one that Does describes.
LEMMA LaneDoes ==
    ASSUME IInv, Numbers, NEW n \in Starts, NEW l \in Lanes, Lane(n, l)
    PROVE  \E r : Does(n, l, r)
BY NextKeeps, CheckKeeps, StepKeeps, TalkKeeps, ReadKeeps, ReuseKeeps, BeginKeeps, PrepareKeeps,
   OutcomeKeeps, AfterKeeps, WriteKeeps, FailKeeps DEF Lane, runMember

\* Every step of a lane keeps the invariant.
LEMMA LaneActions ==
    ASSUME IInv, Numbers, NEW n \in Starts, NEW l \in Lanes, Lane(n, l)
    PROVE  IInv'
BY LaneDoes, LaneKeeps DEF Does

-----------------------------------------------------------------------------
(* The other steps.                                                        *)

\* The task does not go on with its members.
Stops == \/ task' = task
         \/ task' \in TaskType /\ task'.at \in {"idle", "cancelled", "caught"}
         \/ task' \in TaskType /\ task'.at = "start" /\ task'.attempts = team.attempts /\ team.attempts < MaxStarts

\* A step that leaves the lanes and the runs alone keeps the invariant.
LEMMA OtherKeeps ==
    ASSUME IInv, Numbers, UNCHANGED <<arun, cursor, lane>>, StepsKept, Stops,
           team' \in TeamType, team'.attempts = team.attempts,
           team'.status = "completed" => team.status = "completed" \/ \A i \in Positions : Done(i),
           resume' \in ResumeType, resume'.at # "idle" => resume'.item \in Positions,
           resume'.at \in {"find", "wake"} => Completed(resume'.item, resume'.id)
    PROVE  IInv'
<1>1. \A i \in Positions : Done(i) <=> Done(i)'
  BY DEF Done
<1>2. Types'
  BY DEF IInv, Types, StepsKept, Stops
<1>3. Members' /\ Owners'
  BY DEF IInv, Members, Owners, Good, Completed, At, ItemOf
<1>4. Outputs'
  <2>1. \A i \in Positions : step'[i].st = "completed" => Done(i)'
    BY <1>1 DEF IInv, Outputs, StepsKept
  <2> QED BY <2>1 DEF Outputs, Completed
<1>5. Numbered'
  BY DEF IInv, Numbered, Stops, Working
<1>6. Covered'
  <2>1. CASE task' = task
    <3>1. \A n, i : Taken(n, i) <=> Taken(n, i)'
      BY DEF Taken, ItemOf
    <3>2. \A n : Failed(n) <=> Failed(n)'
      BY DEF Failed
    <3>3. \A i \in 1..Size : i \in Positions
      BY NumberFacts
    <3>4. Supervisor \in Positions
      BY NumberFacts
    <3>5. ASSUME task.at = "fan" PROVE \A i \in 1..cursor[task.start] : i \in Positions
      <4>1. task.start \in Starts
        BY <3>5 DEF IInv, Numbered, Working, Types, TeamType, Starts, Numbers
      <4>2. cursor[task.start] \in 0..Size
        BY <4>1 DEF IInv, Types
      <4> QED BY <3>3, <4>2 DEF Numbers
    <3> QED BY <1>1, <2>1, <3>1, <3>2, <3>3, <3>4, <3>5 DEF IInv, Covered, At, ItemOf, Working
  <2>2. CASE task'.at \in {"idle", "cancelled", "caught", "start"}
    BY <2>2 DEF Covered, Working
  <2> QED BY <2>1, <2>2 DEF Stops
<1>7. TeamRestsOnMembers'
  BY <1>1 DEF IInv, TeamRestsOnMembers, Done
<1> QED BY <1>2, <1>3, <1>4, <1>5, <1>6, <1>7 DEF IInv

\* Steps that are not written stay.
LEMMA StepsStay ==
    ASSUME Types, UNCHANGED step
    PROVE  StepsKept
BY DEF Types, StepsKept

\* What a resumption knows stays when it takes no step.
LEMMA ResumeFacts ==
    ASSUME IInv, UNCHANGED <<resume, arun>>
    PROVE  /\ resume' \in ResumeType /\ (resume'.at # "idle" => resume'.item \in Positions)
           /\ resume'.at \in {"find", "wake"} => Completed(resume'.item, resume'.id)
BY DEF IInv, Types, Outputs

\* A request about the team writes its row at most.
LEMMA RequestKeeps ==
    ASSUME IInv, Numbers,
           createAgentTeamRun \/ cancelAgentTeamRun \/ retryAgentTeamRun
    PROVE  IInv'
<1>1. UNCHANGED <<step, arun, task, cursor, lane, resume>>
  BY DEF createAgentTeamRun, CreateInsert, CreateEnqueue, CreateRecord, CreateRepeat,
         cancelAgentTeamRun, CancelRead, CancelWrite, retryAgentTeamRun, RetryRead, RetryEnqueue, RetryReset
<1>2. team \in TeamType
  BY DEF IInv, Types
<1> DEFINE Written ==
      \/ team' = team
      \/ team' = [team EXCEPT !.status = "queued"]
      \/ team' = [team EXCEPT !.job = TRUE]
      \/ team' = [team EXCEPT !.status = "failed"]
      \/ team' = [team EXCEPT !.status = "queued", !.cancelReq = FALSE, !.job = TRUE]
      \/ team' = [team EXCEPT !.cancelReq = TRUE, !.status = "cancelled"]
      \/ team' = [team EXCEPT !.cancelReq = TRUE, !.status = team.status]
<1>3. Written
  <2>1. ASSUME createAgentTeamRun PROVE Written
    BY <2>1 DEF createAgentTeamRun, CreateInsert, CreateEnqueue, CreateRecord, CreateRepeat
  <2>2. ASSUME retryAgentTeamRun PROVE Written
    BY <2>2 DEF retryAgentTeamRun, RetryRead, RetryEnqueue, RetryReset
  <2>3. ASSUME CancelRead PROVE Written
    BY <2>3 DEF CancelRead
  <2>4. ASSUME CancelWrite PROVE Written
    <3>1. CASE cancel.read \in {"queued", "waiting"}
      BY <1>2, <2>4, <3>1 DEF CancelWrite, TeamType
    <3>2. CASE cancel.read \notin {"queued", "waiting"}
      BY <1>2, <2>4, <3>2 DEF CancelWrite, TeamType
    <3> QED BY <3>1, <3>2
  <2> QED BY <2>1, <2>2, <2>3, <2>4 DEF cancelAgentTeamRun
<1>4. /\ team' \in TeamType /\ team'.attempts = team.attempts
      /\ team'.status = "completed" => team.status = "completed"
  BY <1>2, <1>3 DEF TeamType, TeamStates
<1>5. Types
  BY DEF IInv
<1> QED BY <1>1, <1>4, <1>5, StepsStay, ResumeFacts, OtherKeeps DEF Stops

\* The task stops, or reads its run.
LEMMA TaskKeeps ==
    ASSUME IInv, Numbers, TaskTake \/ TaskCancelled \/ TaskComplete \/ TaskCaught
    PROVE  IInv'
<1>1. UNCHANGED <<step, arun, cursor, lane, resume>>
  BY DEF TaskTake, TaskCancelled, TaskComplete, TaskCaught
<1>2. team \in TeamType /\ task \in TaskType /\ Types
  BY DEF IInv, Types
<1>3. NoTask \in TaskType /\ NoTask.at = "idle"
  BY DEF NoTask, TaskType, TaskPlaces, Errors, Numbers
<1>4. Stops
  <2>1. CASE TaskTake
    <3>1. CASE UNCHANGED task
      BY <3>1 DEF Stops
    <3>2. CASE task' = [NoTask EXCEPT !.at = "cancelled"]
      BY <1>3, <3>2 DEF Stops, TaskType, TaskPlaces
    <3>3. CASE task' = [NoTask EXCEPT !.at = "start", !.attempts = team.attempts] /\ team.attempts < MaxStarts
      BY <1>2, <1>3, <3>3 DEF Stops, TaskType, TaskPlaces, TeamType
    <3> QED BY <2>1, <3>1, <3>2, <3>3 DEF TaskTake
  <2>2. CASE TaskCancelled \/ TaskComplete \/ TaskCaught
    BY <1>3, <2>2 DEF Stops, TaskCancelled, TaskComplete, TaskCaught, TaskEnds
  <2> QED BY <2>1, <2>2
<1>5. /\ team' \in TeamType /\ team'.attempts = team.attempts
      /\ team'.status = "completed" => team.status = "completed" \/ \A i \in Positions : Done(i)
  <2>1. CASE TaskTake
    BY <1>2, <2>1 DEF TaskTake
  <2>2. CASE TaskCancelled
    BY <1>2, <2>2 DEF TaskCancelled, TeamType, TeamStates
  <2>3. CASE TaskComplete
    <3>1. \A i \in Positions : Done(i)
      <4>1. (\A i \in 1..Size : Done(i)) /\ Done(Supervisor)
        BY <2>3 DEF TaskComplete, IInv, Covered, Working
      <4> QED BY <4>1 DEF Positions, Supervisor, Numbers
    <3> QED BY <1>2, <2>3, <3>1 DEF TaskComplete, TeamType, TeamStates
  <2>4. CASE TaskCaught
    <3> PICK s \in TeamStates \ {"completed"} : s = (IF task.error = "error" THEN "failed" ELSE task.error)
      BY <1>2 DEF TaskType, Errors, TeamStates
    <3>1. team' = [team EXCEPT !.status = s]
      BY <2>4 DEF TaskCaught
    <3> QED BY <1>2, <3>1 DEF TeamType
  <2> QED BY <2>1, <2>2, <2>3, <2>4
<1> QED BY <1>1, <1>2, <1>4, <1>5, StepsStay, ResumeFacts, OtherKeeps

\* A resumption looks for its step and completes it.
LEMMA ResumeKeeps ==
    ASSUME IInv, Numbers, resumeOwningTeamRun
    PROVE  IInv'
<1>1. UNCHANGED <<arun, task, cursor, lane>>
  BY DEF resumeOwningTeamRun, ResumeFind, ResumeWake, ResumeEnqueue
<1>2. team \in TeamType /\ resume \in ResumeType /\ Types
  BY DEF IInv, Types
<1>3. NoResume \in ResumeType /\ NoResume.at = "idle"
  BY NumberFacts DEF NoResume, ResumeType, Positions
<1>4. CASE ResumeFind
  <2>1. \/ resume' = NoResume
        \/ resume' = [resume EXCEPT !.at = "wake"] /\ resume.at = "find"
    BY <1>4 DEF ResumeFind
  <2>2. resume' \in ResumeType /\ (resume'.at # "idle" => resume'.item = resume.item /\ resume'.id = resume.id)
    BY <1>2, <1>3, <2>1 DEF ResumeType
  <2>3. /\ resume'.at # "idle" => resume'.item \in Positions
        /\ resume'.at \in {"find", "wake"} => Completed(resume'.item, resume'.id)
    BY <1>4, <2>2 DEF ResumeFind, IInv, Outputs
  <2>4. team' = team /\ step' = step
    BY <1>4 DEF ResumeFind
  <2> QED BY <1>1, <1>2, <2>2, <2>3, <2>4, StepsStay, OtherKeeps DEF Stops
<1>5. CASE ResumeWake
  <2> PICK i \in Positions, id \in RunIds : i = resume.item /\ id = resume.id /\ arun[i][id] = "completed"
    BY <1>5 DEF ResumeWake, IInv, Outputs, Completed
  <2>1. StepsKept
    <3> DEFINE y == [step[i] EXCEPT !.st = "completed"]
    <3>1. y \in StepType
      BY <1>2 DEF Types, StepType, StepStates
    <3>2. step' = [step EXCEPT ![i] = y]
      BY <1>2, <1>5 DEF ResumeWake, Types
    <3> HIDE DEF y
    <3>3. Done(i)
      BY DEF Done
    <3> QED BY <1>2, <3>1, <3>2, <3>3, Writes
  <2>2. /\ team' \in TeamType /\ team'.attempts = team.attempts
        /\ team'.status = "completed" => team.status = "completed"
    <3>1. team' = team \/ team' = [team EXCEPT !.status = "queued"]
      BY <1>2, <1>5 DEF ResumeWake, TeamType
    <3> QED BY <1>2, <3>1 DEF TeamType, TeamStates
  <2>3. resume' \in ResumeType /\ resume'.item = i /\ resume'.at = "enqueue"
    BY <1>2, <1>5 DEF ResumeWake, ResumeType
  <2> QED BY <1>1, <2>1, <2>2, <2>3, OtherKeeps DEF Stops
<1>6. CASE ResumeEnqueue
  <2>1. resume' = NoResume /\ UNCHANGED <<team, step>>
    BY <1>6 DEF ResumeEnqueue
  <2> QED BY <1>1, <1>2, <1>3, <2>1, StepsStay, OtherKeeps DEF Stops
<1> QED BY <1>4, <1>5, <1>6 DEF resumeOwningTeamRun

\* The task throws.
LEMMA CaughtKeeps ==
    ASSUME IInv, Numbers, UNCHANGED <<team, step, arun, cursor, lane, resume>>, NEW e \in Errors,
           task' = [task EXCEPT !.at = "caught", !.error = e]
    PROVE  IInv'
<1>1. team \in TeamType /\ task \in TaskType /\ Types
  BY DEF IInv, Types
<1>2. task' \in TaskType /\ task'.at = "caught"
  BY <1>1 DEF TaskType, TaskPlaces
<1> QED BY <1>1, <1>2, StepsStay, ResumeFacts, OtherKeeps DEF Stops

\* The task goes on past its members, and past its supervisor.
LEMMA OnwardKeeps ==
    ASSUME IInv, Numbers, UNCHANGED <<team, step, arun, cursor, lane, resume>>,
           NEW a \in {"merge", "last", "complete"}, task' = [task EXCEPT !.at = a], task.at \in Working,
           \A i \in 1..Size : Done(i), a # "merge" => Done(Supervisor)
    PROVE  IInv'
<1>1. task \in TaskType /\ Types
  BY DEF IInv, Types
<1>2. task' \in TaskType /\ task'.at = a /\ task'.start = task.start
  BY <1>1 DEF TaskType, TaskPlaces
<1>3. Types'
  BY <1>1, <1>2 DEF Types
<1>4. Members' /\ Owners'
  BY DEF IInv, Members, Owners, Good, Completed, At, ItemOf
<1>5. Outputs' /\ TeamRestsOnMembers'
  BY DEF IInv, Outputs, Completed, TeamRestsOnMembers, Done
<1>6. Numbered'
  BY <1>2 DEF IInv, Numbered
<1>7. Covered'
  <2>1. (\A i \in 1..Size : Done(i)') /\ (a # "merge" => Done(Supervisor)')
    BY DEF Done
  <2> QED BY <1>2, <2>1 DEF Covered, Working
<1> QED BY <1>3, <1>4, <1>5, <1>6, <1>7 DEF IInv

\* The lanes of a start all end only when every member is done.
LEMMA GatherKeeps ==
    ASSUME IInv, Numbers, TaskGather
    PROVE  IInv'
<1>1. UNCHANGED <<team, step, arun, cursor, lane, resume>> /\ task.at = "fan" /\ task.at \in Working
  BY DEF TaskGather, Working
<1>2. Types /\ team \in TeamType /\ task.start \in 1..team.attempts
  BY <1>1 DEF IInv, Types, Numbered
<1> PICK m \in Starts : m = task.start
  BY <1>2 DEF TeamType, Starts, Numbers
<1>3. CASE \E l \in Lanes \ {0} : task' = [task EXCEPT !.at = "caught", !.error = lane[m][l].error]
  <2> PICK l \in Lanes \ {0} : task' = [task EXCEPT !.at = "caught", !.error = lane[m][l].error]
    BY <1>3
  <2> PICK e \in Errors : e = lane[m][l].error
    BY <1>2 DEF Types, LaneType
  <2> QED BY <1>1, CaughtKeeps
<1>4. CASE task' = [task EXCEPT !.at = "merge"]
           /\ \A l \in Lanes \ {0} : lane[m][l].at = "done" /\ lane[m][l].error = "none"
  <2>1. cursor[m] = Size
    <3>1. CASE Size = 0
      BY <1>2, <3>1 DEF Types, Numbers
    <3>2. CASE Size # 0
      <4>1. 1 \in Lanes \ {0}
        BY <3>2 DEF Lanes, Numbers
      <4> QED BY <1>1, <1>4, <4>1 DEF IInv, Covered, At
    <3> QED BY <3>1, <3>2
  <2>2. ~Failed(m)
    BY <1>4 DEF Failed
  <2>3. \A l \in Lanes \ {0} : lane[m][l].item = 0
    BY <1>4 DEF IInv, Members, Good, Free
  <2>4. \A i \in 1..Size : ~Taken(m, i)
    BY <2>3 DEF Taken, ItemOf, Numbers
  <2>5. \A i \in 1..Size : Done(i)
    BY <1>1, <2>1, <2>2, <2>4 DEF IInv, Covered
  <2> QED BY <1>1, <1>4, <2>5, OnwardKeeps
<1> QED BY <1>3, <1>4 DEF TaskGather

\* The supervisor's lane opens.
LEMMA MergeKeeps ==
    ASSUME IInv, Numbers, TaskMerge
    PROVE  IInv'
<1>1. UNCHANGED <<team, step, arun, cursor, resume>> /\ task.at = "merge" /\ task.at \in Working \ {"fan"}
  BY DEF TaskMerge, Working
<1>2. /\ Types /\ team \in TeamType /\ task \in TaskType /\ task.start \in 1..team.attempts
      /\ lane \in [Starts -> [Lanes -> LaneType]]
  BY <1>1 DEF IInv, Types, Numbered
<1> PICK m \in Starts : m = task.start
  BY <1>2 DEF TeamType, Starts, Numbers
<1>3. CASE task' = [task EXCEPT !.at = "caught", !.error = "cancelled"] /\ UNCHANGED lane
  <2>1. "cancelled" \in Errors
    BY DEF Errors
  <2> QED BY <1>1, <1>3, <2>1, CaughtKeeps
<1>4. CASE /\ task' = [task EXCEPT !.at = "supervise"]
           /\ lane' = [lane EXCEPT ![m][0] = [NoLane EXCEPT !.at = "check", !.item = Supervisor]]
  <2> DEFINE r == [NoLane EXCEPT !.at = "check", !.item = Supervisor]
  <2>1. r \in LaneType /\ r.at = "check" /\ r.item = Supervisor /\ r.error = "none"
    BY EmptyLane, NumberFacts DEF LaneType, LanePlaces
  <2>2. lane' = [lane EXCEPT ![m][0] = r]
    BY <1>4
  <2> HIDE DEF r
  <2>3. /\ lane'[m][0] = r /\ lane' \in [Starts -> [Lanes -> LaneType]]
        /\ \A n \in Starts, l \in Lanes : n # m \/ l # 0 => lane'[n][l] = lane[n][l]
    BY <1>2, <2>1, <2>2, NumberFacts
  <2>4. /\ task' \in TaskType /\ task'.at = "supervise" /\ task'.start = m
    BY <1>2, <1>4 DEF TaskType, TaskPlaces
  <2>5. Types'
    BY <1>1, <1>2, <2>3, <2>4 DEF Types
  <2>6. Members'
    <3>1. ASSUME NEW n \in Starts, NEW l \in Lanes PROVE Good(l, lane[n][l])'
      <4>1. CASE n = m /\ l = 0
        BY <2>1, <2>3, <4>1, NumberFacts DEF Good, Free
      <4>2. CASE n # m \/ l # 0
        BY <1>1, <2>3, <4>2 DEF IInv, Members, Good, Completed
      <4> QED BY <4>1, <4>2
    <3> QED BY <3>1 DEF Members
  <2>7. Owners'
    BY <2>1, <2>3 DEF IInv, Owners, At, ItemOf
  <2>8. Outputs' /\ TeamRestsOnMembers'
    BY <1>1 DEF IInv, Outputs, Completed, TeamRestsOnMembers, Done
  <2>9. Numbered'
    <3>1. ASSUME NEW n \in Starts, n > team.attempts PROVE n # m
      BY <1>2, <3>1 DEF TeamType, Starts, Numbers
    <3> QED BY <1>1, <1>2, <2>3, <2>4, <3>1 DEF IInv, Numbered
  <2>10. Covered'
    <3>1. \A i \in 1..Size : Done(i)'
      BY <1>1 DEF IInv, Covered, Done
    <3> QED BY <2>1, <2>3, <2>4, <3>1 DEF Covered, ItemOf, Working
  <2> QED BY <2>5, <2>6, <2>7, <2>8, <2>9, <2>10 DEF IInv
<1> QED BY <1>3, <1>4 DEF TaskMerge

\* The task ends with its supervisor.
LEMMA LastKeeps ==
    ASSUME IInv, Numbers, TaskSupervised \/ TaskLast
    PROVE  IInv'
<1>1. UNCHANGED <<team, step, arun, cursor, lane, resume>> /\ task.at \in {"supervise", "last"} /\ task.at \in Working \ {"fan"}
  BY DEF TaskSupervised, TaskLast, Working
<1>2. Types /\ task.start \in Starts /\ 0 \in Lanes
  BY <1>1, NumberFacts DEF IInv, Types, Numbered, TeamType, Starts, Numbers
<1>3. \A i \in 1..Size : Done(i)
  BY <1>1 DEF IInv, Covered
<1> PICK e \in Errors : e = (IF task.at = "last" THEN "cancelled" ELSE lane[task.start][0].error)
  BY <1>2 DEF Errors, Types, LaneType
<1>4. CASE task' = [task EXCEPT !.at = "caught", !.error = e]
  BY <1>1, <1>4, CaughtKeeps
<1>5. CASE TaskSupervised /\ lane[task.start][0].error = "none"
  <2>1. lane[task.start][0].at = "done" /\ lane[task.start][0].item = 0
    BY <1>2, <1>5 DEF TaskSupervised, IInv, Members, Good, Free
  <2>2. Done(Supervisor)
    BY <1>5, <2>1, NumberFacts DEF TaskSupervised, IInv, Covered, ItemOf
  <2>3. task' = [task EXCEPT !.at = "last"]
    BY <1>5 DEF TaskSupervised
  <2> QED BY <1>1, <1>3, <2>2, <2>3, OnwardKeeps
<1>6. CASE TaskLast /\ task' = [task EXCEPT !.at = "complete"]
  <2>1. Done(Supervisor)
    BY <1>6 DEF TaskLast, IInv, Covered
  <2> QED BY <1>1, <1>3, <1>6, <2>1, OnwardKeeps
<1>7. CASE TaskSupervised
  BY <1>4, <1>5, <1>7 DEF TaskSupervised
<1>8. CASE TaskLast
  BY <1>4, <1>6, <1>8 DEF TaskLast
<1> QED BY <1>7, <1>8

\* A start opens its lanes; it is the last of the starts.
LEMMA StartKeeps ==
    ASSUME IInv, Numbers, TaskStart
    PROVE  IInv'
<1>1. UNCHANGED <<step, arun, cursor, resume>> /\ task.at = "start"
  BY DEF TaskStart
<1>2. /\ Types /\ team \in TeamType /\ task \in TaskType /\ lane \in [Starts -> [Lanes -> LaneType]]
      /\ task.attempts = team.attempts /\ team.attempts < MaxStarts
  BY <1>1 DEF IInv, Types, Numbered
<1> PICK n \in Starts : n = team.attempts + 1
  BY <1>2 DEF TeamType, Starts, Numbers
<1> DEFINE opened == [l \in Lanes |-> IF l = 0 THEN NoLane ELSE [NoLane EXCEPT !.at = "next"]]
<1>3. /\ team' = [team EXCEPT !.status = "running", !.attempts = n]
      /\ task' = [task EXCEPT !.at = "fan", !.start = n]
      /\ lane' = [lane EXCEPT ![n] = opened]
  BY <1>2 DEF TaskStart
<1>4. /\ opened \in [Lanes -> LaneType]
      /\ \A l \in Lanes : /\ opened[l].item = 0 /\ opened[l].error = "none"
                          /\ opened[l].at = IF l = 0 THEN "off" ELSE "next"
  <2>1. [NoLane EXCEPT !.at = "next"] \in LaneType
    BY EmptyLane DEF LaneType, LanePlaces
  <2>2. [NoLane EXCEPT !.at = "next"].item = 0 /\ [NoLane EXCEPT !.at = "next"].error = "none"
        /\ [NoLane EXCEPT !.at = "next"].at = "next"
    BY EmptyLane DEF LaneType
  <2> QED BY <2>1, <2>2, EmptyLane
<1> HIDE DEF opened
<1>5. /\ lane'[n] = opened /\ lane' \in [Starts -> [Lanes -> LaneType]]
      /\ \A m \in Starts : m # n => lane'[m] = lane[m]
  BY <1>2, <1>3, <1>4
<1>6. /\ team' \in TeamType /\ team'.attempts = n /\ team'.status = "running"
      /\ task' \in TaskType /\ task'.at = "fan" /\ task'.start = n
  <2>1. n \in 0..MaxStarts
    BY DEF Starts, Numbers
  <2> QED BY <1>2, <1>3, <2>1 DEF TeamType, TeamStates, TaskType, TaskPlaces
<1>7. Types'
  BY <1>1, <1>2, <1>5, <1>6 DEF Types
<1>8. cursor[n] = 0
  <2>1. n > team.attempts
    BY <1>2 DEF TeamType, Numbers
  <2> QED BY <2>1 DEF IInv, Numbered
<1>9. Members'
  <2>1. ASSUME NEW m \in Starts, NEW l \in Lanes PROVE Good(l, lane[m][l])'
    <3>1. CASE m = n
      BY <1>4, <1>5, <3>1, NumberFacts DEF Good, Free
    <3>2. CASE m # n
      BY <1>1, <1>5, <3>2 DEF IInv, Members, Good, Completed
    <3> QED BY <3>1, <3>2
  <2> QED BY <2>1 DEF Members
<1>10. Owners'
  <2>1. \A l \in Lanes : lane'[n][l].at # "record"
    BY <1>4, <1>5
  <2> QED BY <1>5, <2>1 DEF IInv, Owners, At, ItemOf
<1>11. Outputs' /\ TeamRestsOnMembers'
  BY <1>1, <1>6 DEF IInv, Outputs, Completed, TeamRestsOnMembers, Done
<1>12. Numbered'
  <2>1. ASSUME NEW m \in Starts, m > n PROVE m # n /\ m > team.attempts
    BY <1>2, <2>1 DEF TeamType, Starts, Numbers
  <2>2. n \in 1..n
    BY DEF Starts, Numbers
  <2> QED BY <1>1, <1>5, <1>6, <2>1, <2>2 DEF IInv, Numbered
<1>13. Covered'
  <2>1. 1..cursor'[n] = {}
    BY <1>1, <1>8
  <2> QED BY <1>4, <1>5, <1>6, <2>1 DEF Covered, At, Working
<1> QED BY <1>7, <1>9, <1>10, <1>11, <1>12, <1>13 DEF IInv

\* A run that waited ends.
LEMMA ResumedKeeps ==
    ASSUME IInv, Numbers, NEW i \in Positions, NEW id \in RunIds, ResumeRun(i, id)
    PROVE  IInv'
<1>1. UNCHANGED <<team, step, task, cursor, lane>> /\ arun[i][id] = "waiting"
  BY DEF ResumeRun
<1>2. Types /\ arun \in [Positions -> [RunIds -> ArunStates]]
  BY DEF IInv, Types
<1> PICK o \in {"completed", "failed"} :
      /\ arun' = [arun EXCEPT ![i][id] = o]
      /\ \/ o = "completed" /\ resume' = [at |-> "find", item |-> i, id |-> id]
         \/ UNCHANGED resume
  BY DEF ResumeRun
<1>3. /\ arun' \in [Positions -> [RunIds -> ArunStates]] /\ arun'[i][id] = o
      /\ \A j \in Positions, d \in RunIds : j # i \/ d # id => arun'[j][d] = arun[j][d]
  BY <1>2 DEF ArunStates
<1>4. \A j \in Positions : Done(j) => Done(j)'
  BY <1>1, <1>3 DEF Done
<1>5. ASSUME NEW j \in Positions, NEW d, Completed(j, d) PROVE Completed(j, d)'
  BY <1>1, <1>3, <1>5 DEF Completed
<1>6. Types'
  <2>1. resume' \in ResumeType
    BY <1>2 DEF Types, ResumeType
  <2> QED BY <1>1, <1>2, <1>3, <2>1 DEF Types
<1>7. Members'
  <2>1. ASSUME NEW n \in Starts, NEW l \in Lanes, NEW q, q = lane[n][l] PROVE Good(l, q)'
    <3>1. q \in LaneType /\ Good(l, q)
      BY <1>2, <2>1 DEF IInv, Members, Types
    <3>2. q.at \notin Free => q.item \in Positions
      BY <3>1 DEF Good, LaneType
    <3>3. q.at = "record" => q.item \in Positions /\ q.id \in RunIds /\ arun'[q.item][q.id] = "running"
      BY <1>1, <1>3, <3>1, <3>2 DEF Good, Free
    <3> QED BY <1>5, <3>1, <3>2, <3>3 DEF Good, Free
  <2> QED BY <1>1, <2>1 DEF Members, Good, Completed
<1>8. Owners'
  BY <1>1 DEF IInv, Owners, At, ItemOf
<1>9. Outputs'
  <2>1. \A j \in Positions : step'[j].st = "completed" => Done(j)'
    BY <1>1, <1>4 DEF IInv, Outputs
  <2>2. CASE UNCHANGED resume
    <3>1. resume.at \in {"find", "wake"} => resume.item \in Positions /\ Completed(resume.item, resume.id)
      BY DEF IInv, Outputs
    <3> PICK j, d : j = resume.item /\ d = resume.id
      OBVIOUS
    <3>2. resume.at \in {"find", "wake"} => Completed(j, d)'
      BY <1>5, <3>1
    <3> QED BY <2>1, <2>2, <3>2 DEF IInv, Outputs, Completed
  <2>3. CASE o = "completed" /\ resume' = [at |-> "find", item |-> i, id |-> id]
    BY <1>3, <2>1, <2>3 DEF Outputs, Completed
  <2> QED BY <2>2, <2>3
<1>10. Numbered'
  BY <1>1 DEF IInv, Numbered
<1>11. Covered'
  <2>1. (\A j \in 1..Size : j \in Positions) /\ Supervisor \in Positions
    BY NumberFacts
  <2>2. ASSUME task.at = "fan" PROVE \A j \in 1..cursor[task.start] : j \in Positions
    <3>1. task.start \in Starts
      BY <1>2, <2>2 DEF IInv, Numbered, Working, Types, TeamType, Starts, Numbers
    <3>2. cursor[task.start] \in 0..Size
      BY <3>1 DEF IInv, Types
    <3> QED BY <2>1, <3>2 DEF Numbers
  <2> QED BY <1>1, <1>4, <2>1, <2>2 DEF IInv, Covered, Taken, Failed, At, ItemOf, Working
<1>12. TeamRestsOnMembers'
  BY <1>1, <1>4 DEF IInv, TeamRestsOnMembers, Done
<1> QED BY <1>6, <1>7, <1>8, <1>9, <1>10, <1>11, <1>12 DEF IInv

\* A crash ends the lanes and leaves the rows.
LEMMA CrashKeeps ==
    ASSUME IInv, Numbers, Crash
    PROVE  IInv'
<1>1. /\ UNCHANGED <<team, step, arun, cursor, resume>> /\ task' = NoTask
      /\ lane' = [n \in Starts |-> [l \in Lanes |-> NoLane]]
  BY DEF Crash
<1>2. task' \in TaskType /\ task'.at = "idle"
  BY <1>1 DEF NoTask, TaskType, TaskPlaces, Errors, Numbers
<1>3. Types'
  BY <1>1, <1>2, EmptyLane DEF IInv, Types
<1>4. Members' /\ Owners'
  BY <1>1, EmptyLane, NumberFacts DEF Members, Owners, Good, Free, At
<1>5. Outputs' /\ TeamRestsOnMembers'
  BY <1>1 DEF IInv, Outputs, Completed, TeamRestsOnMembers, Done
<1>6. Numbered'
  BY <1>1, <1>2, EmptyLane DEF IInv, Numbered, Working
<1>7. Covered'
  BY <1>2 DEF Covered, Working
<1> QED BY <1>3, <1>4, <1>5, <1>6, <1>7 DEF IInv

\* The invariant holds of a team that was created and not started.
LEMMA StartsWell == Numbers /\ Init => IInv
<1> SUFFICES ASSUME Numbers, Init PROVE IInv
  OBVIOUS
<1>1. NoTask \in TaskType /\ NoTask.at = "idle" /\ NoResume \in ResumeType /\ NoResume.at = "idle"
  BY NumberFacts DEF NoTask, TaskType, TaskPlaces, Errors, Numbers, NoResume, ResumeType
<1>2. 0 \in 0..MaxStarts /\ 0 \in 0..Size /\ NoRun \in RunIds \cup {NoRun}
  BY DEF Numbers
<1>3. Types
  <2>1. team \in TeamType
    BY <1>2 DEF Init, TeamType, TeamStates
  <2>2. step \in [Positions -> StepType]
    BY <1>2 DEF Init, StepType, StepStates
  <2>3. arun \in [Positions -> [RunIds -> ArunStates]]
    BY DEF Init, ArunStates
  <2> QED BY <1>1, <1>2, <2>1, <2>2, <2>3, EmptyLane DEF Init, Types
<1>4. Members /\ Owners
  BY EmptyLane, NumberFacts DEF Init, Members, Owners, Good, Free, At
<1>5. Outputs /\ TeamRestsOnMembers
  BY <1>1 DEF Init, Outputs, TeamRestsOnMembers
<1>6. Numbered
  BY <1>1, EmptyLane DEF Init, Numbered, Working
<1>7. Covered
  BY <1>1 DEF Init, Covered, Working
<1> QED BY <1>3, <1>4, <1>5, <1>6, <1>7 DEF IInv

\* Every step of the team keeps the invariant.
LEMMA StepsWell == Numbers /\ IInv /\ [Next]_vars => IInv'
<1> SUFFICES ASSUME Numbers, IInv, [Next]_vars PROVE IInv'
  OBVIOUS
<1>1. CASE createAgentTeamRun \/ cancelAgentTeamRun \/ retryAgentTeamRun
  BY <1>1, RequestKeeps
<1>2. CASE executePersistedAgentTeamRun
  BY <1>2, TaskKeeps, StartKeeps, GatherKeeps, MergeKeeps, LastKeeps
     DEF executePersistedAgentTeamRun
<1>3. CASE \E n \in Starts : \E l \in Lanes : Lane(n, l)
  BY <1>3, LaneActions
<1>4. CASE \E i \in Positions : \E id \in RunIds : ResumeRun(i, id)
  BY <1>4, ResumedKeeps
<1>5. CASE resumeOwningTeamRun
  BY <1>5, ResumeKeeps
<1>6. CASE Crash
  BY <1>6, CrashKeeps
<1>7. CASE UNCHANGED vars
  <2>1. Types /\ UNCHANGED <<team, step, arun, task, cursor, lane, resume>>
    BY <1>7 DEF vars, IInv
  <2>2. team' \in TeamType
    BY <2>1 DEF Types
  <2> QED BY <2>1, <2>2, StepsStay, ResumeFacts, OtherKeeps DEF Stops
<1> QED BY <1>1, <1>2, <1>3, <1>4, <1>5, <1>6, <1>7 DEF Next

-----------------------------------------------------------------------------
\* A team run that completed has a completed run of every member and of its
\* supervisor: no lane that ended, failed or outlived its start, no resumption, retry
\* or crash of the worker lets executePersistedAgentTeamRun finish without one.
THEOREM CompletedOnAll ==
    ASSUME Numbers
    PROVE  Spec => []TeamRestsOnMembers
<1>1. Init => IInv
  BY StartsWell
<1>2. IInv /\ [Next]_vars => IInv'
  BY StepsWell
<1>3. IInv => TeamRestsOnMembers
  BY DEF IInv
<1> QED BY <1>1, <1>2, <1>3, PTL DEF Spec

-----------------------------------------------------------------------------
(* The accepted cancellation.                                              *)

CancelType == [at : {"idle", "write", "done"}, read : TeamStates, late : BOOLEAN]

\* A lane writes steps and runs only.
LEMMA LaneLeaves ==
    ASSUME NEW n \in Starts, NEW l \in Lanes, Lane(n, l)
    PROVE  UNCHANGED <<team, row, task, client, cancel, retry, resume>>
<1>1. CASE LaneNext(n, l) \/ MemberCheck(n, l) \/ MemberStep(n, l) \/ MemberTalk(n, l)
  BY <1>1 DEF LaneNext, MemberCheck, MemberStep, MemberTalk
<1>2. CASE MemberRead(n, l) \/ MemberReuse(n, l) \/ MemberBegin(n, l) \/ MemberPrepare(n, l)
  BY <1>2 DEF MemberRead, MemberReuse, MemberBegin, MemberPrepare
<1>3. CASE MemberOutcome(n, l) \/ MemberAfter(n, l) \/ MemberWrite(n, l) \/ MemberFail(n, l)
  BY <1>3 DEF MemberOutcome, MemberAfter, MemberWrite, MemberFail
<1> QED BY <1>1, <1>2, <1>3 DEF Lane, runMember

\* The request is written once; the task completes a run that nobody asked to
\* cancel before its last question.
CancelOnce ==
    /\ cancel \in CancelType
    /\ cancel.at # "done" => ~team.cancelReq
    /\ task.at = "complete" /\ team.cancelReq => cancel.late

\* Every step keeps that a cancellation is in force once it was accepted.
LEMMA CancelKeeps ==
    ASSUME IInv, CancelOnce, AcceptedCancelWins, [Next]_vars
    PROVE  CancelOnce' /\ AcceptedCancelWins'
<1>1. team \in TeamType /\ task \in TaskType /\ cancel \in CancelType
  BY DEF IInv, Types, CancelOnce
<1>2. CASE CancelRead
  <2> DEFINE c == [NoRequest EXCEPT !.at = "done"]
             w == [NoRequest EXCEPT !.at = "write", !.read = team.status]
  <2>1. /\ c \in CancelType /\ c.at = "done" /\ w \in CancelType /\ w.at = "write"
    BY <1>1 DEF NoRequest, CancelType, TeamType, TeamStates
  <2>2. (cancel' = c \/ cancel' = w) /\ UNCHANGED <<team, task>> /\ cancel.at = "idle"
    BY <1>2 DEF CancelRead
  <2> HIDE DEF c, w
  <2> QED BY <2>1, <2>2 DEF CancelOnce, AcceptedCancelWins
<1>3. CASE CancelWrite
  <2> PICK b \in BOOLEAN : b = (task.at = "complete" \/ team.status = "completed")
    OBVIOUS
  <2> DEFINE c == [NoRequest EXCEPT !.at = "done", !.late = b]
  <2>1. c \in CancelType /\ c.at = "done" /\ c.late = b
    BY DEF NoRequest, CancelType, TeamStates
  <2>2. cancel' = c /\ UNCHANGED task
    BY <1>3 DEF CancelWrite
  <2>3. team'.status = "completed" => team.status = "completed"
    BY <1>1, <1>3 DEF CancelWrite, TeamType
  <2> HIDE DEF c
  <2> QED BY <2>1, <2>2, <2>3 DEF CancelOnce, AcceptedCancelWins
<1>4. CASE UNCHANGED cancel
  <2>1. ASSUME team'.cancelReq = team.cancelReq \/ team'.cancelReq = FALSE,
               team'.status = "completed" => team.status = "completed" \/ task.at = "complete",
               task'.at = "complete" => task.at = "complete" \/ ~team.cancelReq
        PROVE  CancelOnce' /\ AcceptedCancelWins'
    BY <1>1, <1>4, <2>1 DEF CancelOnce, AcceptedCancelWins
  <2>2. CASE createAgentTeamRun
    BY <1>1, <2>1, <2>2
       DEF createAgentTeamRun, CreateInsert, CreateEnqueue, CreateRecord, CreateRepeat,
           TeamType
  <2>3. CASE retryAgentTeamRun
    BY <1>1, <2>1, <2>3 DEF retryAgentTeamRun, RetryRead, RetryEnqueue, RetryReset, TeamType
  <2>4. CASE TaskTake
    BY <1>1, <2>1, <2>4 DEF TaskTake, NoTask
  <2>5. CASE TaskCancelled \/ TaskCaught
    <3>1. task'.at = "idle" /\ team' = [team EXCEPT !.status = team'.status] /\ team'.status # "completed"
      BY <1>1, <2>5 DEF TaskCancelled, TaskCaught, TaskEnds, NoTask, TeamType, TaskType, Errors
    <3> QED BY <1>1, <2>1, <3>1 DEF TeamType
  <2>6. CASE TaskStart
    BY <1>1, <2>1, <2>6 DEF TaskStart, TeamType, TaskType
  <2>7. CASE TaskGather \/ TaskMerge \/ TaskSupervised
    BY <1>1, <2>1, <2>7 DEF TaskGather, TaskMerge, TaskSupervised, TaskType
  <2>8. CASE TaskLast
    BY <1>1, <2>1, <2>8 DEF TaskLast, TaskType, CancellationRequested
  <2>9. CASE TaskComplete
    BY <1>1, <2>1, <2>9 DEF TaskComplete, TaskEnds, NoTask, TeamType
  <2>10. CASE \E n \in Starts : \E l \in Lanes : Lane(n, l)
    BY <2>1, <2>10, LaneLeaves
  <2>11. CASE (\E i \in Positions : \E id \in RunIds : ResumeRun(i, id)) \/ UNCHANGED vars
    BY <2>1, <2>11 DEF ResumeRun, vars
  <2>12. CASE resumeOwningTeamRun
    BY <1>1, <2>1, <2>12 DEF resumeOwningTeamRun, ResumeFind, ResumeWake, ResumeEnqueue, TeamType
  <2>13. CASE Crash
    BY <2>1, <2>13 DEF Crash, NoTask
  <2> QED BY <1>2, <1>3, <2>2, <2>3, <2>4, <2>5, <2>6, <2>7, <2>8, <2>9, <2>10, <2>11, <2>12, <2>13
          DEF Next, executePersistedAgentTeamRun, cancelAgentTeamRun
<1>5. UNCHANGED cancel \/ CancelRead \/ CancelWrite
  <2>1. CASE createAgentTeamRun \/ retryAgentTeamRun \/ Crash \/ UNCHANGED vars
    BY <2>1 DEF vars, createAgentTeamRun, CreateInsert, CreateEnqueue, CreateRecord, CreateRepeat,
                retryAgentTeamRun, RetryRead, RetryEnqueue, RetryReset, Crash
  <2>2. CASE executePersistedAgentTeamRun
    BY <2>2
       DEF executePersistedAgentTeamRun, TaskTake, TaskCancelled, TaskStart, TaskGather,
           TaskMerge,
                TaskSupervised, TaskLast, TaskComplete, TaskCaught
  <2>3. CASE resumeOwningTeamRun \/ \E i \in Positions : \E id \in RunIds : ResumeRun(i, id)
    BY <2>3 DEF ResumeRun, resumeOwningTeamRun, ResumeFind, ResumeWake, ResumeEnqueue
  <2> QED BY <2>1, <2>2, <2>3, LaneLeaves DEF Next, cancelAgentTeamRun
<1> QED BY <1>2, <1>3, <1>4, <1>5

\* A cancellation that was accepted before the task asked for the last time wins,
\* whichever start, resumption or crash came between (TaskLast asks at the end, and
\* cancelAgentTeamRun and retryAgentTeamRun alone write the flag).
THEOREM CancelWins ==
    ASSUME Numbers
    PROVE  Spec => []AcceptedCancelWins
<1>1. Init => IInv /\ CancelOnce /\ AcceptedCancelWins
  <2>1. NoRequest \in CancelType
    BY DEF NoRequest, CancelType, TeamStates
  <2> QED BY <2>1, StartsWell DEF Init, CancelOnce, AcceptedCancelWins, NoRequest, NoTask
<1>2. IInv /\ CancelOnce /\ AcceptedCancelWins /\ [Next]_vars
        => IInv' /\ CancelOnce' /\ AcceptedCancelWins'
  BY StepsWell, CancelKeeps
<1> QED BY <1>1, <1>2, PTL DEF Spec

-----------------------------------------------------------------------------
(* A completed step.                                                       *)

\* Where nothing overlaps, two lanes that live belong to one start.
LEMMA OneStart ==
    ASSUME IInv, Numbers, Serially, Alone, NEW n \in Starts, NEW m \in Starts, NEW l \in Lanes, NEW k \in Lanes,
           Live(n, l), Live(m, k)
    PROVE  n = m
<1>1. CASE Parallel <= 1
  BY <1>1 DEF Alone, OneWorker
<1>2. CASE MaxStarts = 1
  BY <1>2 DEF Starts
<1> QED BY <1>1, <1>2 DEF Serially

\* A lane that has a member lives, and the supervisor's lane has the supervisor.
LEMMA HasItem ==
    ASSUME IInv, Numbers, NEW n \in Starts, NEW l \in Lanes, ItemOf(n, l) # 0
    PROVE  /\ lane[n][l].at \notin Free /\ Live(n, l) /\ ItemOf(n, l) \in Positions
           /\ l = 0 <=> ItemOf(n, l) = Supervisor
BY LaneFacts DEF ItemOf, Live, Free, Good, LaneType

\* The lane that names nothing else keeps what the others have read.
LEMMA LaneRests ==
    ASSUME IInv, Numbers, Serially, Alone, SInv, NEW n \in Starts, NEW l \in Lanes, NEW r, Does(n, l, r)
    PROVE  SInv'
<1>1. /\ Types /\ Live(n, l) /\ r \in LaneType /\ lane' = [lane EXCEPT ![n][l] = r] /\ Evolves(n, l)
      /\ Leaves(n, l, r) /\ UNCHANGED <<team, task, resume>> /\ Touch(n, l) /\ Reads(r)'
  BY DEF Does, MemberStepOf, Moves, IInv, SInv
<1>2. lane'[n][l] = r /\ \A m \in Starts, k \in Lanes : m # n \/ k # l => lane'[m][k] = lane[m][k]
  BY <1>1 DEF Types
<1>3. /\ cursor[n] \in Nat /\ cursor'[n] \in Nat /\ \A m \in Starts : m # n => cursor'[m] = cursor[m]
      /\ \/ cursor'[n] = cursor[n] /\ r.item \in {0, ItemOf(n, l)}
         \/ cursor'[n] = cursor[n] + 1 /\ r.item = cursor[n] + 1 /\ cursor[n] < Size /\ l # 0
  BY <1>1 DEF Leaves, Types, Numbers
<1>4. ASSUME NEW m \in Starts, NEW k \in Lanes, m # n \/ k # l, r.item # 0, ItemOf(m, k) = r.item
      PROVE  FALSE
  <2>1. CASE r.item = ItemOf(n, l)
    BY <1>4, <2>1 DEF SInv, Apart
  <2>2. CASE r.item = cursor[n] + 1 /\ cursor[n] < Size /\ l # 0
    <3>1. m = n
      BY <1>1, <1>4, HasItem, OneStart
    <3>2. k = 0
      BY <1>3, <1>4, <2>2, <3>1 DEF SInv, Below
    <3>3. r.item = Size + 1
      BY <1>4, <3>2, HasItem DEF Supervisor
    <3> QED BY <1>3, <2>2, <3>3 DEF Numbers
  <2> QED BY <1>3, <1>4, <2>1, <2>2
<1>5. Apart'
  BY <1>2, <1>4 DEF SInv, Apart, ItemOf
<1>6. Below'
  <2>1. ASSUME NEW m \in Starts, NEW k \in Lanes \ {0} PROVE lane'[m][k].item <= cursor'[m]
    <3>1. lane[m][k].item <= cursor[m]
      BY <2>1 DEF SInv, Below, ItemOf
    <3>2. lane[m][k].item \in Nat /\ r.item \in Nat
      BY <1>1 DEF Types, LaneType, Positions, Numbers
    <3>3. CASE m # n
      BY <1>2, <1>3, <3>1, <3>3
    <3>4. CASE m = n /\ k # l
      BY <1>2, <1>3, <3>1, <3>2, <3>4
    <3>5. CASE m = n /\ k = l
      BY <1>2, <1>3, <3>1, <3>2, <3>5 DEF ItemOf
    <3> QED BY <3>3, <3>4, <3>5
  <2> QED BY <2>1 DEF Below, ItemOf
<1>7. Read'
  <2>1. ASSUME NEW m \in Starts, NEW k \in Lanes PROVE Reads(lane[m][k])'
    <3>1. CASE m = n /\ k = l
      BY <1>1, <1>2, <3>1 DEF Reads, Reusable
    <3>2. CASE m # n \/ k # l
      <4> PICK q : q = lane[m][k]
        OBVIOUS
      <4>1. CASE q.item = 0
        <5>1. q.at \in Free
          BY <4>1, LaneFacts DEF Good
        <5> QED BY <1>2, <3>2, <5>1 DEF Reads, Bound, Anew, Free
      <4>2. CASE q.item # 0
        <5>1. q.item \in Positions /\ q.item # ItemOf(n, l)
          BY <3>2, <4>2, HasItem DEF SInv, Apart, ItemOf
        <5>2. step'[q.item] = step[q.item] /\ arun'[q.item] = arun[q.item]
          BY <1>1, <5>1 DEF Touch
        <5>3. Reads(q)
          BY DEF SInv, Read
        <5>4. lane'[m][k] = q
          BY <1>2, <3>2
        <5> QED BY <5>2, <5>3, <5>4 DEF Reads, Reusable
      <4> QED BY <4>1, <4>2
    <3> QED BY <3>1, <3>2
  <2> QED BY <2>1 DEF Read
<1>8. Woken'
  <2> SUFFICES ASSUME resume.at = "wake" PROVE step'[resume.item].run = resume.id
    BY <1>1 DEF Woken
  <2> PICK i \in Positions, id \in RunIds : i = resume.item /\ id = resume.id /\ arun[i][id] = "completed"
    BY DEF IInv, Outputs, Completed
  <2>1. step[i].run = id
    BY DEF SInv, Woken
  <2>2. ASSUME step'[i].run # step[i].run PROVE FALSE
    <3>1. i = ItemOf(n, l)
      BY <1>1, <2>2 DEF Touch
    <3>2. lane[n][l].at \in Anew /\ step'[i].run = lane[n][l].id
      BY <1>1, <2>2, <3>1 DEF Touch
    <3>3. step[i].run \in {NoRun, lane[n][l].id} \/ ~Reusable(i, step[i].run)
      BY <3>1, <3>2 DEF SInv, Read, Reads, ItemOf
    <3> QED BY <2>1, <2>2, <3>2, <3>3, NumberFacts DEF Reusable
  <2> QED BY <2>1, <2>2
<1>9. StepRestsOnItsRun'
  <2> SUFFICES ASSUME NEW i \in Positions, step'[i].st = "completed"
               PROVE  step'[i].run # NoRun /\ arun'[i][step'[i].run] = "completed"
    BY DEF StepRestsOnItsRun
  <2>1. step[i] \in StepType
    BY <1>1 DEF Types
  <2>2. CASE step[i].st = "completed" /\ step'[i].run = step[i].run
    <3>1. step[i].run # NoRun /\ arun[i][step[i].run] = "completed"
      BY <2>2 DEF SInv, StepRestsOnItsRun
    <3>2. step[i].run \in RunIds
      BY <2>1, <3>1 DEF StepType
    <3> QED BY <1>1, <2>2, <3>1, <3>2 DEF Evolves
  <2>3. CASE step'[i].run \in RunIds /\ arun'[i][step'[i].run] = "completed"
    BY <2>3, NumberFacts
  <2>4. CASE i # ItemOf(n, l)
    BY <1>1, <2>2, <2>4 DEF Touch
  <2>5. CASE i = ItemOf(n, l)
    BY <1>1, <2>2, <2>3, <2>5 DEF Touch, SInv
  <2> QED BY <2>4, <2>5
<1> QED BY <1>5, <1>6, <1>7, <1>8, <1>9 DEF SInv

\* Steps that leave the lanes, the runs and what names them alone.
LEMMA StillRests ==
    ASSUME SInv, UNCHANGED <<step, arun, cursor, lane, resume>>
    PROVE  SInv'
BY DEF SInv, Apart, Below, Read, Reads, Reusable, Woken, StepRestsOnItsRun, ItemOf

\* Lanes end, or one begins that no other lane has the member of.
LEMMA OpensRests ==
    ASSUME IInv, Numbers, SInv, UNCHANGED <<step, arun, cursor, resume>>,
           \A n \in Starts, l \in Lanes :
              \/ lane'[n][l] = lane[n][l]
              \/ lane'[n][l].item = 0 /\ lane'[n][l].at \in Free
              \/ /\ l = 0 /\ lane'[n][l].item = Supervisor /\ lane'[n][l].at = "check"
                 /\ \A m \in Starts, k \in Lanes : lane'[m][k].item = Supervisor => m = n /\ k = l
    PROVE  SInv'
<1>1. Apart'
  BY DEF SInv, Apart, ItemOf
<1>2. Below'
  <2>1. ASSUME NEW n \in Starts, NEW l \in Lanes \ {0} PROVE lane'[n][l].item <= cursor'[n]
    <3>1. lane[n][l].item <= cursor[n]
      BY DEF SInv, Below, ItemOf
    <3>2. 0 <= cursor[n]
      BY DEF IInv, Types, Numbers
    <3> QED BY <3>1, <3>2
  <2> QED BY <2>1 DEF Below, ItemOf
<1>3. Read'
  <2>1. ASSUME NEW n \in Starts, NEW l \in Lanes PROVE Reads(lane[n][l])'
    <3>1. CASE lane'[n][l] = lane[n][l]
      BY <3>1 DEF SInv, Read, Reads, Reusable
    <3>2. CASE lane'[n][l].at \in Free \cup {"check"}
      BY <3>2 DEF Reads, Free, Bound, Anew
    <3> QED BY <3>1, <3>2
  <2> QED BY <2>1 DEF Read
<1>4. Woken' /\ StepRestsOnItsRun'
  BY DEF SInv, Woken, StepRestsOnItsRun
<1> QED BY <1>1, <1>2, <1>3, <1>4 DEF SInv

\* The task begins, opens the supervisor's lane or crashes; steps keep their runs.
LEMMA TaskRests ==
    ASSUME IInv, Numbers, Serially, Alone, SInv, TaskStart \/ TaskMerge \/ Crash
    PROVE  SInv'
<1>1. Types /\ lane \in [Starts -> [Lanes -> LaneType]] /\ team \in TeamType /\ task \in TaskType
  BY DEF IInv, Types
<1>2. CASE TaskStart
  <2>1. /\ UNCHANGED <<step, arun, cursor, resume>>
        /\ task.attempts = team.attempts /\ team.attempts < MaxStarts
    BY <1>2 DEF TaskStart, IInv, Numbered
  <2> PICK n \in Starts : n = team.attempts + 1
    BY <1>1, <2>1 DEF TeamType, Starts, Numbers
  <2>2. lane' = [lane EXCEPT ![n] = [l \in Lanes |-> IF l = 0 THEN NoLane ELSE [NoLane EXCEPT !.at = "next"]]]
    BY <1>2, <2>1 DEF TaskStart
  <2>3. [NoLane EXCEPT !.at = "next"].item = 0 /\ [NoLane EXCEPT !.at = "next"].at = "next"
    BY EmptyLane DEF LaneType
  <2>4. \A l \in Lanes : lane'[n][l].item = 0 /\ lane'[n][l].at \in Free
    BY <1>1, <2>2, <2>3, EmptyLane DEF Free
  <2>5. \A m \in Starts : m # n => lane'[m] = lane[m]
    BY <1>1, <2>2
  <2> QED BY <2>1, <2>4, <2>5, OpensRests
<1>3. CASE Crash
  <2>1. lane' = [n \in Starts |-> [l \in Lanes |-> NoLane]] /\ UNCHANGED <<step, arun, cursor, resume>>
    BY <1>3 DEF Crash
  <2>2. \A n \in Starts, l \in Lanes : lane'[n][l].item = 0 /\ lane'[n][l].at \in Free
    BY <2>1, EmptyLane DEF Free
  <2> QED BY <2>1, <2>2, OpensRests
<1>4. CASE TaskMerge
  <2>1. UNCHANGED <<step, arun, cursor, resume>> /\ task.at = "merge"
    BY <1>4 DEF TaskMerge
  <2>2. CASE UNCHANGED lane
    BY <2>1, <2>2, StillRests
  <2>3. CASE lane' # lane
    <3> PICK n \in Starts : n = task.start
      BY <1>1, <2>1 DEF IInv, Numbered, Working, TeamType, Starts, Numbers
    <3>1. lane' = [lane EXCEPT ![n][0] = [NoLane EXCEPT !.at = "check", !.item = Supervisor]]
      BY <1>4, <2>3 DEF TaskMerge
    <3> PICK r : r = [NoLane EXCEPT !.at = "check", !.item = Supervisor]
      OBVIOUS
    <3>2. r.item = Supervisor /\ r.at = "check"
      BY EmptyLane DEF LaneType
    <3>3. lane'[n][0] = r /\ \A m \in Starts, k \in Lanes : m # n \/ k # 0 => lane'[m][k] = lane[m][k]
      BY <1>1, <3>1, NumberFacts
    <3>4. ASSUME NEW m \in Starts, NEW k \in Lanes, lane'[m][k].item = Supervisor, m # n \/ k # 0 PROVE FALSE
      <4>1. ItemOf(m, k) = Supervisor /\ Supervisor # 0
        BY <3>3, <3>4, NumberFacts DEF ItemOf
      <4>2. Live(m, k) /\ k = 0
        BY <4>1, HasItem
      <4>3. CASE Parallel <= 1
        BY <2>1, <4>2, <4>3 DEF Alone, OneWorker
      <4>4. CASE MaxStarts = 1
        BY <3>4, <4>2, <4>4 DEF Starts
      <4> QED BY <4>3, <4>4 DEF Serially
    <3> QED BY <2>1, <3>2, <3>3, <3>4, OpensRests
  <2> QED BY <2>2, <2>3
<1> QED BY <1>2, <1>3, <1>4

\* A resumption: a run ends, and its step is looked for and completed.
LEMMA ResumeRests ==
    ASSUME IInv, Numbers, SInv,
           resumeOwningTeamRun \/ \E i \in Positions : \E id \in RunIds : ResumeRun(i, id)
    PROVE  SInv'
<1>1. UNCHANGED <<cursor, lane>> /\ Types /\ step \in [Positions -> StepType]
  BY DEF resumeOwningTeamRun, ResumeFind, ResumeWake, ResumeEnqueue, ResumeRun, IInv, Types
<1>2. Apart' /\ Below'
  BY <1>1 DEF SInv, Apart, Below, ItemOf
<1>3. ASSUME NEW i \in Positions, NEW id \in RunIds, ResumeRun(i, id) PROVE SInv'
  <2>1. UNCHANGED step /\ arun[i][id] = "waiting" /\ arun \in [Positions -> [RunIds -> ArunStates]]
    BY <1>3 DEF ResumeRun, IInv, Types
  <2> PICK o \in {"completed", "failed"} : arun' = [arun EXCEPT ![i][id] = o]
    BY <1>3 DEF ResumeRun
  <2>2. \A j \in Positions, d \in RunIds :
          arun'[j][d] = (IF j = i /\ d = id THEN o ELSE arun[j][d])
    BY <2>1
  <2>3. \A j \in Positions, d \in RunIds :
          (arun[j][d] = "completed" => arun'[j][d] = "completed") /\ (Reusable(j, d)' => Reusable(j, d))
    BY <2>1, <2>2 DEF Reusable
  <2>4. \A j \in Positions : step[j].run \in RunIds \cup {NoRun}
    BY <1>1 DEF StepType
  <2>5. Read'
    <3>1. ASSUME NEW n \in Starts, NEW l \in Lanes PROVE Reads(lane[n][l])'
      <4> PICK q : q = lane[n][l]
        OBVIOUS
      <4>1. CASE q.item = 0
        <5>1. q.at \in Free
          BY <4>1, LaneFacts DEF Good
        <5> QED BY <1>1, <5>1 DEF Reads, Bound, Anew, Free
      <4>2. CASE q.item # 0
        <5>1. q.item \in Positions /\ Reads(q)
          BY <4>2, HasItem DEF SInv, Read, ItemOf
        <5>2. step[q.item].run = NoRun \/ (Reusable(q.item, step[q.item].run)' => Reusable(q.item, step[q.item].run))
          BY <2>1, <2>3, <2>4, <5>1 DEF Reusable
        <5>3. Reads(q)'
          BY <2>1, <5>1, <5>2 DEF Reads, Reusable
        <5> QED BY <1>1, <5>3 DEF Reads, Reusable
      <4> QED BY <4>1, <4>2
    <3> QED BY <3>1 DEF Read
  <2>6. Woken'
    BY <1>3, <2>1 DEF ResumeRun, SInv, Woken
  <2>7. StepRestsOnItsRun'
    BY <2>1, <2>3, <2>4 DEF SInv, StepRestsOnItsRun
  <2> QED BY <1>2, <2>5, <2>6, <2>7 DEF SInv
<1>4. CASE ResumeFind \/ ResumeEnqueue
  <2>1. UNCHANGED <<step, arun>>
    BY <1>4 DEF ResumeFind, ResumeEnqueue
  <2>2. Woken'
    BY <1>4, <2>1 DEF ResumeFind, ResumeEnqueue, NoResume, Woken, IInv, Types, ResumeType
  <2> QED BY <1>1, <1>2, <2>1, <2>2 DEF SInv, Read, Reads, Reusable, StepRestsOnItsRun
<1>5. CASE ResumeWake
  <2> PICK i \in Positions, id \in RunIds :
        i = resume.item /\ id = resume.id /\ arun[i][id] = "completed" /\ step[i].run = id
    BY <1>5 DEF ResumeWake, IInv, Outputs, Completed, SInv, Woken
  <2>1. step' = [step EXCEPT ![i].st = "completed"] /\ arun' = arun /\ resume'.at = "enqueue"
    BY <1>5 DEF ResumeWake, IInv, Types, ResumeType
  <2>2. /\ \A j \in Positions : step'[j].run = step[j].run
        /\ \A j \in Positions : j # i => step'[j] = step[j]
    BY <1>1, <2>1 DEF StepType
  <2>3. Read'
    <3>1. ASSUME NEW n \in Starts, NEW l \in Lanes PROVE Reads(lane[n][l])'
      <4> PICK q : q = lane[n][l]
        OBVIOUS
      <4>1. CASE q.item = 0
        <5>1. q.at \in Free
          BY <4>1, LaneFacts DEF Good
        <5> QED BY <1>1, <5>1 DEF Reads, Bound, Anew, Free
      <4>2. CASE q.item # 0
        <5>1. q.item \in Positions /\ Reads(q)
          BY <4>2, HasItem DEF SInv, Read, ItemOf
        <5> QED BY <1>1, <2>1, <2>2, <5>1 DEF Reads, Reusable
      <4> QED BY <4>1, <4>2
    <3> QED BY <3>1 DEF Read
  <2>4. Woken'
    BY <2>1 DEF Woken
  <2>5. StepRestsOnItsRun'
    BY <2>1, <2>2, NumberFacts DEF SInv, StepRestsOnItsRun
  <2> QED BY <1>2, <2>3, <2>4, <2>5 DEF SInv
<1> QED BY <1>3, <1>4, <1>5 DEF resumeOwningTeamRun

\* With one worker, the members' lane and the supervisor's follow each other.
LEMMA WorkerRests ==
    ASSUME IInv, Numbers, Alone, [Next]_vars
    PROVE  Alone'
<1> SUFFICES ASSUME Parallel <= 1, OneWorker PROVE OneWorker'
  BY DEF Alone
<1>1. Types /\ lane \in [Starts -> [Lanes -> LaneType]] /\ team \in TeamType /\ task \in TaskType
  BY DEF IInv, Types
<1>2. \A l \in Lanes : l = 0 \/ l = 1
  BY DEF Lanes, Numbers
<1>3. ASSUME UNCHANGED <<lane, task>> PROVE OneWorker'
  BY <1>3 DEF OneWorker, Live
<1>4. ASSUME UNCHANGED lane, \A n \in Starts, l \in Lanes : ~Live(n, l) PROVE OneWorker'
  BY <1>4 DEF OneWorker, Live
<1>5. CASE createAgentTeamRun \/ cancelAgentTeamRun \/ retryAgentTeamRun \/ resumeOwningTeamRun \/ UNCHANGED vars
  <2>1. UNCHANGED <<lane, task>>
    BY <1>5 DEF createAgentTeamRun, CreateInsert, CreateEnqueue, CreateRecord, CreateRepeat,
         cancelAgentTeamRun, CancelRead, CancelWrite, retryAgentTeamRun, RetryRead, RetryEnqueue, RetryReset,
         resumeOwningTeamRun, ResumeFind, ResumeWake, ResumeEnqueue, vars
  <2> QED BY <1>3, <2>1
<1>6. CASE \E i \in Positions : \E id \in RunIds : ResumeRun(i, id)
  BY <1>3, <1>6 DEF ResumeRun
<1>7. CASE TaskTake \/ TaskCancelled \/ TaskComplete \/ TaskCaught \/ TaskLast
  <2>1. UNCHANGED lane /\ task.at \notin {"fan", "supervise"}
    BY <1>7 DEF TaskTake, TaskCancelled, TaskComplete, TaskCaught, TaskLast
  <2> QED BY <1>4, <2>1 DEF OneWorker
<1>8. CASE TaskGather
  <2>1. UNCHANGED lane /\ task.at = "fan"
    BY <1>8 DEF TaskGather
  <2>2. ASSUME NEW n \in Starts, NEW l \in Lanes, Live(n, l) PROVE FALSE
    <3>1. n = task.start /\ l = 1
      BY <1>2, <2>1, <2>2 DEF OneWorker
    <3>2. lane[n][1].at = "done"
      <4>1. CASE \E k \in Lanes \ {0} : lane[task.start][k].error # "none"
        BY <1>2, <3>1, <4>1 DEF IInv, Members, Good
      <4>2. CASE \A k \in Lanes \ {0} : lane[task.start][k].at = "done"
        BY <3>1, <4>2
      <4> QED BY <1>8, <4>1, <4>2 DEF TaskGather
    <3> QED BY <2>2, <3>1, <3>2 DEF Live
  <2> QED BY <1>4, <2>1, <2>2
<1>9. CASE TaskSupervised
  <2>1. UNCHANGED lane /\ task.at = "supervise" /\ lane[task.start][0].at = "done"
    BY <1>9 DEF TaskSupervised
  <2>2. ASSUME NEW n \in Starts, NEW l \in Lanes, Live(n, l) PROVE FALSE
    <3>1. n = task.start /\ l = 0
      BY <2>1, <2>2 DEF OneWorker
    <3> QED BY <2>1, <2>2, <3>1 DEF Live
  <2> QED BY <1>4, <2>1, <2>2
<1>10. CASE TaskStart
  <2>1. task.at = "start" /\ task.attempts = team.attempts /\ team.attempts < MaxStarts
    BY <1>10 DEF TaskStart, IInv, Numbered
  <2> PICK n \in Starts : n = team.attempts + 1
    BY <1>1, <2>1 DEF TeamType, Starts, Numbers
  <2>2. /\ lane' = [lane EXCEPT ![n] = [l \in Lanes |-> IF l = 0 THEN NoLane ELSE [NoLane EXCEPT !.at = "next"]]]
        /\ task' = [task EXCEPT !.at = "fan", !.start = n]
    BY <1>10, <2>1 DEF TaskStart
  <2>3. lane'[n][0] = NoLane /\ \A m \in Starts : m # n => lane'[m] = lane[m]
    BY <1>1, <2>2, NumberFacts
  <2>4. task'.at = "fan" /\ task'.start = n
    BY <1>1, <2>2 DEF TaskType
  <2>5. \A m \in Starts, l \in Lanes : ~Live(m, l)
    BY <2>1 DEF OneWorker
  <2>6. ASSUME NEW m \in Starts, NEW l \in Lanes, lane'[m][l].at \notin {"off", "done"} PROVE m = n /\ l # 0
    BY <2>3, <2>5, <2>6, EmptyLane DEF Live
  <2> QED BY <2>4, <2>6 DEF OneWorker, Live
<1>11. CASE TaskMerge
  <2>1. task.at = "merge" /\ \A m \in Starts, l \in Lanes : ~Live(m, l)
    BY <1>11 DEF TaskMerge, OneWorker
  <2>2. CASE UNCHANGED lane
    BY <1>4, <2>1, <2>2
  <2>3. CASE lane' # lane
    <3> PICK n \in Starts : n = task.start
      BY <1>1, <2>1 DEF IInv, Numbered, Working, TeamType, Starts, Numbers
    <3>1. /\ lane' = [lane EXCEPT ![n][0] = [NoLane EXCEPT !.at = "check", !.item = Supervisor]]
          /\ task' = [task EXCEPT !.at = "supervise"]
      BY <1>11, <2>3 DEF TaskMerge
    <3>2. \A m \in Starts, k \in Lanes : m # n \/ k # 0 => lane'[m][k] = lane[m][k]
      BY <1>1, <3>1, NumberFacts
    <3>3. task'.at = "supervise" /\ task'.start = n
      BY <1>1, <3>1 DEF TaskType
    <3> QED BY <2>1, <3>2, <3>3 DEF OneWorker, Live
  <2> QED BY <2>2, <2>3
<1>12. CASE Crash
  BY <1>12, EmptyLane DEF Crash, OneWorker, Live
<1>13. ASSUME NEW n \in Starts, NEW l \in Lanes, Lane(n, l) PROVE OneWorker'
  <2> PICK r : Does(n, l, r)
    BY <1>13, LaneDoes
  <2>1. Live(n, l) /\ lane' = [lane EXCEPT ![n][l] = r] /\ task' = task
    BY DEF Does, MemberStepOf, Moves
  <2>2. \A m \in Starts, k \in Lanes : m # n \/ k # l => lane'[m][k] = lane[m][k]
    BY <1>1, <2>1
  <2> QED BY <2>1, <2>2 DEF OneWorker, Live
<1> QED BY <1>5, <1>6, <1>7, <1>8, <1>9, <1>10, <1>11, <1>12, <1>13 DEF Next, executePersistedAgentTeamRun

\* Every step keeps that a completed step rests on its run, where nothing overlaps.
LEMMA RestsWell ==
    ASSUME IInv, Numbers, Serially, Alone, SInv, [Next]_vars
    PROVE  SInv'
<1>1. CASE createAgentTeamRun \/ cancelAgentTeamRun \/ retryAgentTeamRun \/ UNCHANGED vars
  <2>1. UNCHANGED <<step, arun, cursor, lane, resume>>
    BY <1>1 DEF createAgentTeamRun, CreateInsert, CreateEnqueue, CreateRecord, CreateRepeat,
         cancelAgentTeamRun, CancelRead, CancelWrite, retryAgentTeamRun, RetryRead, RetryEnqueue, RetryReset, vars
  <2> QED BY <2>1, StillRests
<1>2. CASE TaskTake \/ TaskCancelled \/ TaskGather \/ TaskSupervised \/ TaskLast \/ TaskComplete \/ TaskCaught
  <2>1. UNCHANGED <<step, arun, cursor, lane, resume>>
    BY <1>2
       DEF TaskTake, TaskCancelled, TaskGather, TaskSupervised, TaskLast, TaskComplete,
           TaskCaught
  <2> QED BY <2>1, StillRests
<1>3. CASE \E n \in Starts : \E l \in Lanes : Lane(n, l)
  BY <1>3, LaneDoes, LaneRests
<1> QED BY <1>1, <1>2, <1>3, TaskRests, ResumeRests DEF Next, executePersistedAgentTeamRun

\* A step that was not begun rests on nothing, and no lane lives.
LEMMA StartsResting == Numbers /\ Init => Alone /\ SInv
<1> SUFFICES ASSUME Numbers, Init PROVE Alone /\ SInv
  OBVIOUS
<1>1. Alone
  BY EmptyLane DEF Init, Alone, OneWorker, Live
<1>2. Apart /\ Below
  BY EmptyLane DEF Init, Apart, Below, ItemOf, Numbers
<1>3. Read
  BY EmptyLane DEF Init, Read, Reads, Bound, Anew
<1>4. Woken /\ StepRestsOnItsRun
  BY DEF Init, Woken, NoResume, StepRestsOnItsRun
<1> QED BY <1>1, <1>2, <1>3, <1>4 DEF SInv

\* A step that is shown as completed names a run of its own that completed,
\* whichever lane, start or resumption wrote it, where a member has one lane at a time:
\* one worker, or one start.  Lanes of an earlier start that run beside those of a
\* later one may complete a step on a run that waits.
THEOREM StepsRest ==
    ASSUME Numbers, Serially
    PROVE  Spec => []CompletedTeamIsWhole
<1>1. Init => IInv /\ Alone /\ SInv
  BY StartsWell, StartsResting
<1>2. IInv /\ Alone /\ SInv /\ [Next]_vars => IInv' /\ Alone' /\ SInv'
  BY StepsWell, WorkerRests, RestsWell
<1>3. IInv /\ SInv => CompletedTeamIsWhole
  BY DEF IInv, SInv, CompletedTeamIsWhole
<1> QED BY <1>1, <1>2, <1>3, PTL DEF Spec

-----------------------------------------------------------------------------
(* A member's work is done once.                                           *)

\* Nobody cancels the team, and no worker process dies.
Calm == {"cancel", "crash"} \cap Events = {}

\* Then nothing is cancelled anywhere.
Clear(q) == q.saw # "cancelled" /\ q.error # "cancelled"
Uncancelled ==
    /\ cancel.at = "idle" /\ ~CancellationRequested
    /\ task.at # "cancelled" /\ task.error # "cancelled"
    /\ \A n \in Starts, l \in Lanes : Clear(lane[n][l])

\* A member has one run at a time that does not need another: a lane executes it,
\* the step names it, or the lane that has executed it is about to name it.
Needed(i, id) == arun[i][id] \in {"running", "waiting", "completed"}
Executed(i, id) == \E n \in Starts, l \in Lanes : At(n, l, "record") /\ ItemOf(n, l) = i /\ lane[n][l].id = id
Holder(i, id) == \E n \in Starts, l \in Lanes : Held(i, id, lane[n][l])
WInv ==
    /\ \A i \in Positions, d, e \in RunIds : Needed(i, d) /\ Needed(i, e) => d = e
    /\ \A i \in Positions, id \in RunIds : arun[i][id] = "running" => Executed(i, id)
    /\ \A i \in Positions, id \in RunIds : Reusable(i, id) => step[i].run = id \/ Holder(i, id)
    /\ task.at \in {"fan", "merge"} => ~Live(task.start, 0)

\* The lane's record after its step speaks of no cancellation.
Clears(n, l) == \E r : Clear(r) /\ lane' = [lane EXCEPT ![n][l] = r]

\* A lane that takes a position, returns or throws an error speaks of none.
LEMMA EndClears ==
    ASSUME NEW n, NEW l
    PROVE  /\ Succeed(n, l) => Clears(n, l)
           /\ \A e : Throw(n, l, e) /\ e # "cancelled" => Clears(n, l)
           /\ LaneNext(n, l) => Clears(n, l)
<1>1. NoLane = [at |-> "off", item |-> 0, saw |-> "none", id |-> NoRun, conv |-> 0, error |-> "none"]
  BY DEF NoLane
<1>2. ASSUME NEW a PROVE Clear([NoLane EXCEPT !.at = a])
  BY <1>1 DEF Clear
<1>3. ASSUME NEW a, NEW i PROVE Clear([NoLane EXCEPT !.at = a, !.item = i])
  BY <1>1 DEF Clear
<1>4. ASSUME NEW a, NEW e, e # "cancelled" PROVE Clear([NoLane EXCEPT !.at = a, !.error = e])
  BY <1>1, <1>4 DEF Clear
<1>5. Succeed(n, l) => Clears(n, l)
  <2> PICK a : a = IF l = 0 THEN "done" ELSE "next"
    OBVIOUS
  <2> QED BY <1>2 DEF Succeed, Clears
<1>6. ASSUME NEW e, Throw(n, l, e), e # "cancelled" PROVE Clears(n, l)
  BY <1>4, <1>6 DEF Throw, Clears
<1>7. LaneNext(n, l) => Clears(n, l)
  BY <1>2, <1>3 DEF LaneNext, Clears
<1> QED BY <1>5, <1>6, <1>7

\* No lane comes to speak of a cancellation.
LEMMA LaneClears ==
    ASSUME IInv, Uncancelled, NEW n \in Starts, NEW l \in Lanes, Lane(n, l)
    PROVE  \A m \in Starts, k \in Lanes : Clear(lane'[m][k])
<1> PICK q : q = lane[n][l]
  OBVIOUS
<1>1. q \in LaneType /\ lane \in [Starts -> [Lanes -> LaneType]] /\ Clear(q) /\ ~CancellationRequested
  BY DEF IInv, Types, Uncancelled
<1> SUFFICES Clears(n, l)
  BY <1>1 DEF Clears, Uncancelled
<1>2. ASSUME NEW a, lane' = [lane EXCEPT ![n][l].at = a] PROVE Clears(n, l)
  <2> DEFINE r == [q EXCEPT !.at = a]
  <2>1. Clear(r)
    BY <1>1 DEF Clear, LaneType
  <2>2. lane' = [lane EXCEPT ![n][l] = r]
    BY <1>1, <1>2
  <2> HIDE DEF r
  <2> QED BY <2>1, <2>2 DEF Clears
<1>3. ASSUME NEW a, NEW c, NEW d, lane' = [lane EXCEPT ![n][l] = [@ EXCEPT !.at = a, !.conv = c, !.id = d]]
      PROVE  Clears(n, l)
  <2> DEFINE r == [q EXCEPT !.at = a, !.conv = c, !.id = d]
  <2>1. Clear(r)
    BY <1>1 DEF Clear, LaneType
  <2>2. lane' = [lane EXCEPT ![n][l] = r]
    BY <1>1, <1>3
  <2> HIDE DEF r
  <2> QED BY <2>1, <2>2 DEF Clears
<1>4. ASSUME NEW a, NEW w, NEW d, lane' = [lane EXCEPT ![n][l] = [@ EXCEPT !.at = a, !.saw = w, !.id = d]],
             w # "cancelled"
      PROVE  Clears(n, l)
  <2> DEFINE r == [q EXCEPT !.at = a, !.saw = w, !.id = d]
  <2>1. Clear(r)
    BY <1>1, <1>4 DEF Clear, LaneType
  <2>2. lane' = [lane EXCEPT ![n][l] = r]
    BY <1>1, <1>4
  <2> HIDE DEF r
  <2> QED BY <2>1, <2>2 DEF Clears
<1>5. ASSUME NEW a, NEW w, lane' = [lane EXCEPT ![n][l] = [@ EXCEPT !.saw = w, !.at = a]], w # "cancelled"
      PROVE  Clears(n, l)
  <2> DEFINE r == [q EXCEPT !.saw = w, !.at = a]
  <2>1. Clear(r)
    BY <1>1, <1>5 DEF Clear, LaneType
  <2>2. lane' = [lane EXCEPT ![n][l] = r]
    BY <1>1, <1>5
  <2> HIDE DEF r
  <2> QED BY <2>1, <2>2 DEF Clears
<1>6. CASE MemberCheck(n, l) \/ MemberBegin(n, l) \/ MemberPrepare(n, l)
  BY <1>1, <1>2, <1>6 DEF MemberCheck, MemberBegin, MemberPrepare, Goto
<1>7. CASE MemberStep(n, l)
  <2> PICK x : x = step[ItemOf(n, l)]
    OBVIOUS
  <2> PICK a : a = IF x.conv = 0 THEN "talk" ELSE IF x.run = NoRun THEN "first" ELSE "byId"
    OBVIOUS
  <2>1. \/ Succeed(n, l)
        \/ Throw(n, l, "waiting")
        \/ lane' = [lane EXCEPT ![n][l] = [@ EXCEPT !.at = a, !.conv = x.conv, !.id = x.run]]
    BY <1>7 DEF MemberStep
  <2>2. CASE lane' = [lane EXCEPT ![n][l] = [@ EXCEPT !.at = a, !.conv = x.conv, !.id = x.run]]
    BY <1>3, <2>2
  <2>3. "waiting" # "cancelled"
    OBVIOUS
  <2> QED BY <2>1, <2>2, <2>3, EndClears
<1>8. CASE MemberTalk(n, l)
  <2>1. lane' = [lane EXCEPT ![n][l] = [@ EXCEPT !.conv = n, !.at = IF lane[n][l].id = NoRun THEN "first" ELSE "byId"]]
    BY <1>8 DEF MemberTalk
  <2> PICK a : a = IF q.id = NoRun THEN "first" ELSE "byId"
    OBVIOUS
  <2> DEFINE r == [q EXCEPT !.conv = n, !.at = a]
  <2>2. Clear(r)
    BY <1>1 DEF Clear, LaneType
  <2>3. lane' = [lane EXCEPT ![n][l] = r]
    BY <1>1, <2>1
  <2> HIDE DEF r
  <2> QED BY <2>2, <2>3 DEF Clears
<1>9. CASE MemberRead(n, l)
  <2> PICK x : x = arun[ItemOf(n, l)]
    OBVIOUS
  <2>1. CASE At(n, l, "byId")
    <3>1. lane' = [lane EXCEPT ![n][l] = [@ EXCEPT
              !.at = IF x[q.id] \in {"completed", "waiting"} THEN "byIdWrite" ELSE "first",
              !.saw = IF x[q.id] \in {"completed", "waiting"} THEN x[q.id] ELSE "none"]]
      BY <1>9, <2>1 DEF MemberRead, At
    <3> PICK a, w : /\ a = IF x[q.id] \in {"completed", "waiting"} THEN "byIdWrite" ELSE "first"
                    /\ w = IF x[q.id] \in {"completed", "waiting"} THEN x[q.id] ELSE "none"
      OBVIOUS
    <3>2. w # "cancelled"
      OBVIOUS
    <3> DEFINE r == [q EXCEPT !.at = a, !.saw = w]
    <3>3. Clear(r)
      BY <1>1, <3>2 DEF Clear, LaneType
    <3>4. lane' = [lane EXCEPT ![n][l] = r]
      BY <1>1, <3>1
    <3> HIDE DEF r
    <3> QED BY <3>3, <3>4 DEF Clears
  <2>2. CASE ~At(n, l, "byId")
    <3>1. lane' = [lane EXCEPT ![n][l] = [@ EXCEPT
              !.at = IF x[0] \in {"completed", "waiting"} THEN "firstWrite" ELSE "begin",
              !.saw = IF x[0] \in {"completed", "waiting"} THEN x[0] ELSE "none",
              !.id = IF x[0] \in {"completed", "waiting"} \/ x[0] = "none" THEN 0 ELSE n]]
      BY <1>9, <2>2 DEF MemberRead
    <3>2. (IF x[0] \in {"completed", "waiting"} THEN x[0] ELSE "none") # "cancelled"
      OBVIOUS
    <3> QED BY <1>4, <3>1, <3>2
  <2> QED BY <2>1, <2>2
<1>10. CASE MemberReuse(n, l) \/ MemberWrite(n, l)
  BY <1>10, EndClears DEF MemberReuse, MemberWrite
<1>11. CASE MemberOutcome(n, l)
  <2> PICK o \in {"completed", "waiting", "failed"} :
        lane' = [lane EXCEPT ![n][l] = [@ EXCEPT
           !.saw = o,
           !.at = CASE o = "waiting" -> "write" [] o = "completed" -> "after" [] o = "failed" -> "fail"]]
    BY <1>11 DEF MemberOutcome
  <2>1. o # "cancelled"
    OBVIOUS
  <2> QED BY <1>5, <2>1
<1>12. CASE MemberAfter(n, l)
  <2> DEFINE r == [q EXCEPT !.at = "write", !.saw = q.saw]
  <2>1. Clear(r)
    BY <1>1 DEF Clear, LaneType
  <2>2. lane' = [lane EXCEPT ![n][l] = r]
    BY <1>1, <1>12 DEF MemberAfter
  <2> HIDE DEF r
  <2> QED BY <2>1, <2>2 DEF Clears
<1>13. CASE MemberFail(n, l)
  BY <1>1, <1>13, EndClears DEF MemberFail, Clear
<1>14. CASE LaneNext(n, l)
  BY <1>14, EndClears
<1> QED BY <1>6, <1>7, <1>8, <1>9, <1>10, <1>11, <1>12, <1>13, <1>14 DEF Lane, runMember

\* As long as nobody cancels, nothing is cancelled.
LEMMA StaysUncancelled ==
    ASSUME IInv, Numbers, Calm, Uncancelled, [Next]_vars
    PROVE  Uncancelled'
<1>1. Calm => "cancel" \notin Events /\ "crash" \notin Events
  BY DEF Calm
<1>2. cancel.at = "idle" /\ ~team.cancelReq /\ team.status # "cancelled"
  BY DEF Uncancelled, CancellationRequested
<1>3. /\ team \in TeamType /\ task \in TaskType /\ lane \in [Starts -> [Lanes -> LaneType]]
  BY DEF IInv, Types
<1>4. \A n \in Starts, l \in Lanes : Clear(lane[n][l])
  BY DEF Uncancelled
<1>5. CASE \E n \in Starts : \E l \in Lanes : Lane(n, l)
  BY <1>5, LaneLeaves, LaneClears DEF Uncancelled, CancellationRequested
<1>6. CASE createAgentTeamRun \/ retryAgentTeamRun \/ resumeOwningTeamRun
  <2>1. UNCHANGED <<task, lane, cancel>>
    BY <1>6 DEF createAgentTeamRun, CreateInsert, CreateEnqueue, CreateRecord, CreateRepeat,
         retryAgentTeamRun, RetryRead, RetryEnqueue, RetryReset, resumeOwningTeamRun, ResumeFind, ResumeWake,
         ResumeEnqueue
  <2>2. ~team'.cancelReq /\ team'.status # "cancelled"
    <3>1. CASE createAgentTeamRun
      BY <1>2, <1>3, <3>1
         DEF createAgentTeamRun, CreateInsert, CreateEnqueue, CreateRecord, CreateRepeat,
             TeamType
    <3>2. CASE retryAgentTeamRun
      BY <1>2, <1>3, <3>2 DEF retryAgentTeamRun, RetryRead, RetryEnqueue, RetryReset, TeamType
    <3>3. CASE resumeOwningTeamRun
      BY <1>2, <1>3, <3>3 DEF resumeOwningTeamRun, ResumeFind, ResumeWake, ResumeEnqueue, TeamType
    <3> QED BY <1>6, <3>1, <3>2, <3>3
  <2> QED BY <2>1, <2>2 DEF Uncancelled, CancellationRequested
<1>7. CASE cancelAgentTeamRun
  BY <1>1, <1>2, <1>7 DEF cancelAgentTeamRun, CancelRead, CancelWrite
<1>8. CASE Crash
  BY <1>1, <1>8 DEF Crash
<1>9. CASE (\E i \in Positions : \E id \in RunIds : ResumeRun(i, id)) \/ UNCHANGED vars
  <2>1. UNCHANGED <<team, task, lane, cancel>>
    BY <1>9 DEF ResumeRun, vars
  <2> QED BY <2>1 DEF Uncancelled, CancellationRequested
<1>10. CASE executePersistedAgentTeamRun
  <2>0. NoTask.at # "cancelled" /\ NoTask.error # "cancelled" /\ UNCHANGED cancel
    BY <1>10
       DEF NoTask, executePersistedAgentTeamRun, TaskTake, TaskCancelled, TaskStart,
           TaskGather, TaskMerge,
                 TaskSupervised, TaskLast, TaskComplete, TaskCaught
  <2>1. CASE TaskTake
    <3>1. UNCHANGED <<team, lane>>
      BY <2>1 DEF TaskTake
    <3>2. \/ UNCHANGED task
          \/ task' = [NoTask EXCEPT !.at = "start", !.attempts = team.attempts]
      BY <1>2, <2>1 DEF TaskTake
    <3>3. task'.at # "cancelled" /\ task'.error # "cancelled"
      BY <2>0, <3>2 DEF Uncancelled, NoTask
    <3> QED BY <2>0, <3>1, <3>3 DEF Uncancelled, CancellationRequested
  <2>2. CASE TaskCancelled
    BY <2>2 DEF TaskCancelled, Uncancelled
  <2>3. CASE TaskStart
    <3>1. /\ UNCHANGED step
          /\ team'.cancelReq = team.cancelReq /\ team'.status = "running"
          /\ task'.at = "fan" /\ task'.error = task.error
      BY <1>3, <2>3 DEF TaskStart, TeamType, TaskType
    <3>2. \A n \in Starts, l \in Lanes : Clear(lane'[n][l])
      <4> PICK n : n = task.attempts + 1
        OBVIOUS
      <4>1. lane' = [lane EXCEPT ![n] = [l \in Lanes |->
                       IF l = 0 THEN NoLane ELSE [NoLane EXCEPT !.at = "next"]]]
        BY <2>3 DEF TaskStart
      <4>2. Clear(NoLane) /\ Clear([NoLane EXCEPT !.at = "next"])
        BY DEF NoLane, Clear
      <4> QED BY <1>3, <1>4, <4>1, <4>2
    <3> QED BY <1>2, <2>0, <3>1, <3>2 DEF Uncancelled, CancellationRequested
  <2>4. CASE TaskGather \/ TaskSupervised
    <3>1. UNCHANGED <<team, lane>>
      BY <2>4 DEF TaskGather, TaskSupervised
    <3>2. task.at \in Working => task.start \in Starts /\ 0 \in Lanes
      BY NumberFacts DEF IInv, Numbered, Starts, Types, TeamType, Numbers
    <3>3. task'.at # "cancelled" /\ task'.error # "cancelled"
      BY <1>3, <1>4, <2>4, <3>2
         DEF TaskGather, TaskSupervised, TaskType, Uncancelled, Clear, Working
    <3> QED BY <2>0, <3>1, <3>3 DEF Uncancelled, CancellationRequested
  <2>5. CASE TaskMerge
    <3>1. ~CancellationRequested
      BY DEF Uncancelled
    <3>2. UNCHANGED team /\ task' = [task EXCEPT !.at = "supervise"]
          /\ lane' = [lane EXCEPT ![task.start][0] = [NoLane EXCEPT !.at = "check", !.item = Supervisor]]
      BY <2>5, <3>1 DEF TaskMerge
    <3>3. Clear([NoLane EXCEPT !.at = "check", !.item = Supervisor])
      BY DEF NoLane, Clear
    <3>4. \A n \in Starts, l \in Lanes : Clear(lane'[n][l])
      BY <1>3, <1>4, <3>2, <3>3
    <3>5. task'.at = "supervise" /\ task'.error = task.error
      BY <1>3, <3>2 DEF TaskType
    <3> QED BY <2>0, <3>2, <3>4, <3>5 DEF Uncancelled, CancellationRequested
  <2>6. CASE TaskLast \/ TaskComplete \/ TaskCaught
    <3>1. ~CancellationRequested /\ task.error # "cancelled"
      BY DEF Uncancelled
    <3>2. UNCHANGED lane /\ task'.at # "cancelled" /\ task'.error # "cancelled"
      BY <1>3, <2>0, <2>6, <3>1 DEF TaskLast, TaskComplete, TaskCaught, TaskEnds, TaskType
    <3>3. ~team'.cancelReq /\ team'.status # "cancelled"
      BY <1>2, <1>3, <2>6, <3>1 DEF TaskLast, TaskComplete, TaskCaught, TeamType
    <3> QED BY <2>0, <3>2, <3>3 DEF Uncancelled, CancellationRequested
  <2> QED BY <1>10, <2>1, <2>2, <2>3, <2>4, <2>5, <2>6 DEF executePersistedAgentTeamRun
<1> QED BY <1>5, <1>6, <1>7, <1>8, <1>9, <1>10 DEF Next

\* A step that leaves the runs and what the steps name, and clears only lanes that
\* have no member.
LEMMA StillWorks ==
    ASSUME Types, WInv, UNCHANGED arun, \A i \in Positions : step'[i].run = step[i].run,
           \A n \in Starts, l \in Lanes : lane'[n][l] = lane[n][l] \/ lane[n][l].at \in {"off", "done"},
           (task.at \in {"fan", "merge"} => ~Live(task.start, 0))'
    PROVE  WInv'
<1>1. \A i \in Positions, id \in RunIds : /\ Needed(i, id) <=> Needed(i, id)'
                                          /\ Reusable(i, id) <=> Reusable(i, id)'
  BY DEF Needed, Reusable
<1>2. ASSUME NEW i, NEW id, Executed(i, id) PROVE Executed(i, id)'
  BY <1>2 DEF Executed, At, ItemOf
<1>3. ASSUME NEW i, NEW id, Holder(i, id) PROVE Holder(i, id)'
  BY <1>3 DEF Holder, Held
<1> QED BY <1>1, <1>2, <1>3 DEF WInv

\* A lane's step: a new run begins only for a member that has none, and a run that
\* ended well is named before its lane goes on.
LEMMA LaneWorks ==
    ASSUME IInv, Numbers, SInv, Uncancelled, WInv, NEW n \in Starts, NEW l \in Lanes, NEW r, Does(n, l, r)
    PROVE  WInv'
<1> PICK q : q = lane[n][l]
  OBVIOUS
<1>1. /\ arun \in [Positions -> [RunIds -> ArunStates]] /\ lane \in [Starts -> [Lanes -> LaneType]]
      /\ step \in [Positions -> StepType] /\ q \in LaneType /\ Good(l, q) /\ Reads(q) /\ ~CancellationRequested
  BY DEF IInv, Types, Members, SInv, Read, Uncancelled
<1>2. lane'[n][l] = r /\ \A m \in Starts, k \in Lanes : m # n \/ k # l => lane'[m][k] = lane[m][k]
  BY <1>1 DEF Does, MemberStepOf, Moves
<1>3. (task.at \in {"fan", "merge"} => ~Live(task.start, 0))'
  <2>1. UNCHANGED task /\ Live(n, l)
    BY DEF Does, MemberStepOf
  <2> SUFFICES ASSUME task.at \in {"fan", "merge"} PROVE ~Live(task.start, 0)'
    BY <2>1
  <2>2. ~Live(task.start, 0) /\ task.start \in Starts /\ 0 \in Lanes
    BY NumberFacts DEF WInv, IInv, Numbered, Working, Types, TeamType, Starts, Numbers
  <2>3. task.start # n \/ 0 # l
    BY <2>1, <2>2
  <2> QED BY <1>2, <2>1, <2>2, <2>3 DEF Live
\* What a step named and nobody needs another for, it names still.
<1>4. ASSUME NEW i \in Positions, NEW id \in RunIds, Reusable(i, id), step[i].run = id
      PROVE  step'[i].run = id
  <2>1. CASE i # ItemOf(n, l)
    BY <1>4, <2>1 DEF Does, Touch
  <2>2. CASE i = ItemOf(n, l)
    <3>1. step'[i].run # step[i].run => q.at \in Anew /\ step'[i].run = q.id
      BY <2>2 DEF Does, Touch
    <3>2. q.at \in Anew => id = q.id
      BY <1>1, <1>4, <2>2, NumberFacts DEF Reads, ItemOf
    <3> QED BY <1>4, <3>1, <3>2
  <2> QED BY <2>1, <2>2
\* Only this lane has its member.
<1>5. ASSUME NEW m \in Starts, NEW k \in Lanes, ItemOf(m, k) = q.item, q.item \in Positions PROVE m = n /\ k = l
  BY <1>5, NumberFacts DEF SInv, Apart, ItemOf
<1>6. CASE LetsGo(n, l)
  <2>1. UNCHANGED arun
    BY <1>6 DEF LetsGo
  <2>2. ASSUME NEW i \in Positions, NEW id \in RunIds, arun'[i][id] = "running" PROVE Executed(i, id)'
    <3> PICK m \in Starts, k \in Lanes : At(m, k, "record") /\ ItemOf(m, k) = i /\ lane[m][k].id = id
      BY <2>1, <2>2 DEF WInv, Executed
    <3>1. m # n \/ k # l
      BY <1>6 DEF LetsGo, At
    <3> QED BY <1>2, <3>1 DEF Executed, At, ItemOf
  <2>3. ASSUME NEW i \in Positions, NEW id \in RunIds, Reusable(i, id)'
        PROVE  step'[i].run = id \/ Holder(i, id)'
    <3>1. Reusable(i, id)
      BY <2>1, <2>3 DEF Reusable
    <3>2. CASE step[i].run = id
      BY <1>4, <3>1, <3>2
    <3>3. CASE Holder(i, id)
      <4> PICK m \in Starts, k \in Lanes : Held(i, id, lane[m][k])
        BY <3>3 DEF Holder
      <4>1. CASE m = n /\ k = l
        BY <1>6, <4>1 DEF LetsGo, Held, At, ItemOf
      <4>2. CASE m # n \/ k # l
        BY <1>2, <4>2 DEF Holder, Held
      <4> QED BY <4>1, <4>2
    <3> QED BY <3>1, <3>2, <3>3 DEF WInv
  <2>4. \A i \in Positions, id \in RunIds : Needed(i, id)' => Needed(i, id)
    BY <2>1 DEF Needed
  <2> QED BY <1>3, <2>2, <2>3, <2>4 DEF WInv
<1>7. CASE Has(n, l, r)
  <2> PICK i \in Positions, id \in RunIds : HasAt(n, l, r, i, id)
    BY <1>7 DEF Has
  <2>1. i = q.item /\ id = q.id /\ r.item = i /\ r.id = id /\ i = ItemOf(n, l)
    BY DEF HasAt, ItemOf
  <2>2. \A j \in Positions, d \in RunIds : j # i \/ d # id => arun'[j][d] = arun[j][d]
    BY <1>1 DEF HasAt
\* What the other lanes have, they have still.
  <2>3. ASSUME NEW j \in Positions, NEW d \in RunIds, j # i, Executed(j, d) PROVE Executed(j, d)'
    BY <1>2, <2>1, <2>3 DEF Executed, At, ItemOf
  <2>4. ASSUME NEW j \in Positions, NEW d \in RunIds, j # i, Holder(j, d) PROVE Holder(j, d)'
    BY <1>2, <2>1, <2>4 DEF Holder, Held, ItemOf
  <2>5. ASSUME NEW d \in RunIds, Executed(i, d) PROVE q.at = "record" /\ d = id
    BY <1>5, <2>1, <2>5 DEF Executed, At
  <2>6. ASSUME NEW d \in RunIds, Holder(i, d) PROVE q.at \in {"after", "write"} /\ d = id
    BY <1>5, <2>1, <2>6 DEF Holder, Held, ItemOf
\* The member has no other run that nobody needs another for.
  <2>7. ASSUME NEW d \in RunIds, d # id PROVE ~Needed(i, d)'
    <3>1. CASE q.at = "execute" /\ arun[i][id] = "none"
      <4>1. ~Reusable(i, id) /\ q.at \in Anew
        BY <3>1 DEF Reusable, Anew
      <4>2. Reusable(i, d) => FALSE
        <5> SUFFICES ASSUME Reusable(i, d) PROVE FALSE
          OBVIOUS
        <5>1. step[i].run = d
          BY <2>6, <3>1 DEF WInv
        <5> QED BY <1>1, <2>1, <2>7, <4>1, <5>1, NumberFacts DEF Reads
      <4>3. arun[i][d] # "running"
        BY <2>5, <2>7 DEF WInv
      <4> QED BY <2>2, <2>7, <4>2, <4>3 DEF Needed, Reusable
    <3>2. CASE q.at = "record"
      BY <1>1, <2>1, <2>2, <2>7, <3>2 DEF WInv, Needed, Good
    <3>3. CASE q.at = "after"
      BY <1>1, <2>1, <2>2, <2>7, <3>3 DEF WInv, Needed, Good, Completed
    <3> QED BY <2>1, <3>1, <3>2, <3>3 DEF HasAt, At
\* Where its own run is.
  <2>8. /\ arun'[i][id] = "running" => Executed(i, id)'
        /\ Reusable(i, id)' => Holder(i, id)'
    <3>1. CASE q.at = "execute" /\ r.at = "record" /\ arun'[i][id] = "running"
      BY <1>2, <2>1, <3>1 DEF Executed, At, ItemOf, Reusable
    <3>2. CASE q.at \in {"record", "after"} /\ Held(i, id, r) /\ arun'[i][id] # "running"
      BY <1>2, <3>2 DEF Holder
    <3>3. CASE arun'[i][id] = "failed"
      BY <3>3 DEF Reusable
    <3>4. arun[i] \in [RunIds -> ArunStates]
      BY <1>1
    <3>5. CASE At(n, l, "after")
      <4>1. arun'[i][id] = "completed" /\ Held(i, id, r)
        BY <1>1, <2>1, <3>5 DEF HasAt, At, Good, Completed
      <4> QED BY <3>2, <3>5, <4>1 DEF At
    <3>6. CASE At(n, l, "execute")
      <4>1. arun'[i][id] = "running" /\ r.at = "record"
        BY <1>1, <3>6 DEF HasAt, At
      <4> QED BY <3>1, <3>6, <4>1 DEF At
    <3>7. CASE At(n, l, "record")
      <4> PICK o \in {"completed", "waiting", "failed"} :
            arun' = [arun EXCEPT ![i][id] = o] /\ (o = "failed" \/ Held(i, id, r))
        BY <3>7 DEF HasAt, At
      <4>1. arun'[i][id] = o
        BY <1>1
      <4> QED BY <3>2, <3>3, <3>7, <4>1 DEF At
    <3> QED BY <3>5, <3>6, <3>7 DEF HasAt
  <2>9. \A j \in Positions, d, e \in RunIds : Needed(j, d)' /\ Needed(j, e)' => d = e
    <3> SUFFICES ASSUME NEW j \in Positions, NEW d \in RunIds, NEW e \in RunIds, Needed(j, d)', Needed(j, e)'
                 PROVE  d = e
      OBVIOUS
    <3>1. CASE j = i
      BY <2>7, <3>1
    <3>2. CASE j # i
      BY <2>2, <3>2 DEF Needed, WInv
    <3> QED BY <3>1, <3>2
  <2>10. ASSUME NEW j \in Positions, NEW d \in RunIds, arun'[j][d] = "running" PROVE Executed(j, d)'
    <3>1. CASE j = i
      BY <2>7, <2>8, <2>10, <3>1 DEF Needed
    <3>2. CASE j # i
      BY <2>2, <2>3, <2>10, <3>2 DEF WInv
    <3> QED BY <3>1, <3>2
  <2>11. ASSUME NEW j \in Positions, NEW d \in RunIds, Reusable(j, d)' PROVE step'[j].run = d \/ Holder(j, d)'
    <3>1. CASE j = i
      BY <2>7, <2>8, <2>11, <3>1 DEF Needed, Reusable
    <3>2. CASE j # i
      <4>1. Reusable(j, d)
        BY <2>2, <2>11, <3>2 DEF Reusable
      <4> QED BY <1>4, <2>4, <3>2, <4>1 DEF WInv
    <3> QED BY <3>1, <3>2
  <2> QED BY <1>3, <2>9, <2>10, <2>11 DEF WInv
<1> QED BY <1>6, <1>7 DEF Does

\* A resumed run has ended well or does not count any more.
LEMMA ResumedWorks ==
    ASSUME IInv, WInv, NEW i \in Positions, NEW id \in RunIds, ResumeRun(i, id)
    PROVE  WInv'
<1>1. UNCHANGED <<step, lane, task>> /\ arun[i][id] = "waiting" /\ arun \in [Positions -> [RunIds -> ArunStates]]
  BY DEF ResumeRun, IInv, Types
<1> PICK o \in {"completed", "failed"} : arun' = [arun EXCEPT ![i][id] = o]
  BY DEF ResumeRun
<1>2. arun'[i][id] = o /\ \A j \in Positions, d \in RunIds : j # i \/ d # id => arun'[j][d] = arun[j][d]
  BY <1>1
<1>3. \A j \in Positions, d \in RunIds : /\ Needed(j, d)' => Needed(j, d)
                                         /\ Reusable(j, d)' => Reusable(j, d)
                                         /\ arun'[j][d] = "running" => arun[j][d] = "running"
  BY <1>1, <1>2 DEF Needed, Reusable
<1>4. \A j, d : (Executed(j, d) <=> Executed(j, d)') /\ (Holder(j, d) <=> Holder(j, d)')
  BY <1>1 DEF Executed, Holder, Held, At, ItemOf
<1>5. (task.at \in {"fan", "merge"} => ~Live(task.start, 0))'
  BY <1>1 DEF WInv, Live
<1> QED BY <1>1, <1>3, <1>4, <1>5 DEF WInv

\* The task opens lanes only where nobody works.
LEMMA TaskWorks ==
    ASSUME IInv, Numbers, WInv, executePersistedAgentTeamRun
    PROVE  WInv'
<1>1. Types /\ lane \in [Starts -> [Lanes -> LaneType]] /\ team \in TeamType /\ task \in TaskType
  BY DEF IInv, Types
<1>2. UNCHANGED <<step, arun>>
  BY DEF executePersistedAgentTeamRun, TaskTake, TaskCancelled, TaskStart, TaskGather, TaskMerge,
         TaskSupervised, TaskLast, TaskComplete, TaskCaught
<1>3. CASE TaskStart
  <2>1. task.attempts = team.attempts /\ team.attempts < MaxStarts
    BY <1>3 DEF TaskStart, IInv, Numbered
  <2> PICK n \in Starts : n = team.attempts + 1
    BY <1>1, <2>1 DEF TeamType, Starts, Numbers
  <2>2. lane' = [lane EXCEPT ![n] = [l \in Lanes |-> IF l = 0 THEN NoLane ELSE [NoLane EXCEPT !.at = "next"]]]
        /\ task'.start = n
    BY <1>1, <1>3, <2>1 DEF TaskStart, TaskType
  <2>3. \A l \in Lanes : lane[n][l].at = "off"
    BY <1>1, <2>1 DEF IInv, Numbered, TeamType
  <2>4. \A m \in Starts, l \in Lanes : lane'[m][l] = lane[m][l] \/ lane[m][l].at \in {"off", "done"}
    BY <1>1, <2>2, <2>3
  <2>5. ~Live(task.start, 0)'
    BY <1>1, <2>2, EmptyLane, NumberFacts DEF Live
  <2> QED BY <1>1, <1>2, <2>4, <2>5, StillWorks
<1>4. CASE TaskMerge
  <2>1. task.at = "merge" /\ task'.at \notin {"fan", "merge"}
    BY <1>1, <1>4 DEF TaskMerge, TaskType
  <2> PICK n \in Starts : n = task.start
    BY <1>1, <2>1 DEF IInv, Numbered, Working, TeamType, Starts, Numbers
  <2>2. lane[n][0].at \in {"off", "done"}
    BY <2>1 DEF WInv, Live
  <2>3. lane' = lane \/ \E r : lane' = [lane EXCEPT ![n][0] = r]
    BY <1>4 DEF TaskMerge
  <2>4. ASSUME NEW m \in Starts, NEW l \in Lanes
        PROVE  lane'[m][l] = lane[m][l] \/ lane[m][l].at \in {"off", "done"}
    <3>1. CASE m = n /\ l = 0
      BY <2>2, <3>1
    <3>2. CASE m # n \/ l # 0
      <4>1. CASE lane' = lane
        BY <4>1
      <4>2. CASE lane' # lane
        <5> PICK r : lane' = [lane EXCEPT ![n][0] = r]
          BY <2>3, <4>2
        <5>1. m # n => lane'[m] = lane[m]
          BY <1>1
        <5>2. l # 0 => lane'[m][l] = lane[m][l]
          BY <1>1
        <5> QED BY <3>2, <5>1, <5>2
      <4> QED BY <4>1, <4>2
    <3> QED BY <3>1, <3>2
  <2> QED BY <1>1, <1>2, <2>1, <2>4, StillWorks
<1>5. CASE TaskTake \/ TaskCancelled \/ TaskGather \/ TaskSupervised \/ TaskLast \/ TaskComplete \/ TaskCaught
  <2>1. UNCHANGED lane
    BY <1>5
       DEF TaskTake, TaskCancelled, TaskGather, TaskSupervised, TaskLast, TaskComplete,
           TaskCaught
  <2>2. task'.at \in {"fan", "merge"} => task.at \in {"fan", "merge"} /\ task'.start = task.start
    <3>1. CASE TaskTake
      BY <3>1 DEF TaskTake, NoTask
    <3>2. CASE TaskCancelled \/ TaskComplete \/ TaskCaught
      BY <3>2 DEF TaskCancelled, TaskComplete, TaskCaught, TaskEnds, NoTask
    <3>3. CASE TaskGather \/ TaskSupervised \/ TaskLast
      BY <1>1, <3>3 DEF TaskGather, TaskSupervised, TaskLast, TaskType
    <3> QED BY <1>5, <3>1, <3>2, <3>3
  <2>3. (task.at \in {"fan", "merge"} => ~Live(task.start, 0))'
    BY <2>1, <2>2 DEF WInv, Live
  <2> QED BY <1>1, <1>2, <2>1, <2>3, StillWorks
<1> QED BY <1>3, <1>4, <1>5 DEF executePersistedAgentTeamRun

\* Every step keeps that a member has one run that does not need another.
LEMMA WorksWell ==
    ASSUME IInv, Numbers, SInv, Calm, Uncancelled, WInv, [Next]_vars
    PROVE  WInv'
<1>1. CASE \E n \in Starts : \E l \in Lanes : Lane(n, l)
  BY <1>1, LaneDoes, LaneWorks
<1>2. CASE \E i \in Positions : \E id \in RunIds : ResumeRun(i, id)
  BY <1>2, ResumedWorks
<1>3. CASE createAgentTeamRun \/ cancelAgentTeamRun \/ retryAgentTeamRun \/ resumeOwningTeamRun \/ UNCHANGED vars
  <2>1. UNCHANGED <<arun, lane, task>>
    BY <1>3 DEF createAgentTeamRun, CreateInsert, CreateEnqueue, CreateRecord, CreateRepeat,
         cancelAgentTeamRun, CancelRead, CancelWrite, retryAgentTeamRun, RetryRead, RetryEnqueue, RetryReset,
         resumeOwningTeamRun, ResumeFind, ResumeWake, ResumeEnqueue, vars
  <2>2. \/ UNCHANGED step
        \/ step' = [step EXCEPT ![resume.item].st = "completed"]
    BY <1>3 DEF createAgentTeamRun, CreateInsert, CreateEnqueue, CreateRecord, CreateRepeat,
         cancelAgentTeamRun, CancelRead, CancelWrite, retryAgentTeamRun, RetryRead, RetryEnqueue, RetryReset,
         resumeOwningTeamRun, ResumeFind, ResumeWake, ResumeEnqueue, vars
  <2>3. \A i \in Positions : step'[i].run = step[i].run
    BY <2>2 DEF IInv, Types, StepType
  <2>4. (task.at \in {"fan", "merge"} => ~Live(task.start, 0))'
    BY <2>1 DEF WInv, Live
  <2> QED BY <2>1, <2>3, <2>4, StillWorks DEF IInv
<1>4. ~Crash
  BY DEF Calm, Crash
<1> QED BY <1>1, <1>2, <1>3, <1>4, TaskWorks DEF Next

\* A member's work is done once, however often the task, a person or a resumption
\* starts the team again and whatever fails or waits on the way (prepareAgentRun's
\* stable request identifiers).  It takes that nobody cancels, no worker dies and
\* lanes do not overlap: a run whose step never named it is not found again once
\* another was begun after a failure.
THEOREM WorksOnce ==
    ASSUME Numbers, Serially, Calm
    PROVE  Spec => []WorkedOnce
<1>1. Init => IInv /\ Alone /\ SInv /\ Uncancelled /\ WInv
  <2> SUFFICES ASSUME Init PROVE Uncancelled /\ WInv
    BY StartsWell, StartsResting
  <2>1. Uncancelled
    BY EmptyLane DEF Init, Uncancelled, CancellationRequested, NoRequest, NoTask, Clear
  <2>2. \A i \in Positions, id \in RunIds : arun[i][id] = "none"
    BY DEF Init
  <2>3. \A i \in Positions, id \in RunIds : ~Needed(i, id) /\ ~Reusable(i, id)
    BY <2>2 DEF Needed, Reusable
  <2>4. task.at \notin {"fan", "merge"}
    BY DEF Init, NoTask
  <2> QED BY <2>1, <2>2, <2>3, <2>4 DEF WInv
<1>2. IInv /\ Alone /\ SInv /\ Uncancelled /\ WInv /\ [Next]_vars
        => IInv' /\ Alone' /\ SInv' /\ Uncancelled' /\ WInv'
  BY StepsWell, WorkerRests, RestsWell, StaysUncancelled, WorksWell
<1>3. WInv => WorkedOnce
  <2> SUFFICES ASSUME WInv, NEW i \in Positions
               PROVE  Cardinality({id \in RunIds : arun[i][id] = "completed"}) <= 1
    BY DEF WorkedOnce
  <2> DEFINE S == {id \in RunIds : arun[i][id] = "completed"}
  <2>1. \A d, e \in S : d = e
    BY DEF WInv, Needed
  <2>2. CASE S = {}
    BY <2>2, FS_EmptySet
  <2>3. CASE S # {}
    <3> PICK d : d \in S
      BY <2>3
    <3>1. S = {d}
      BY <2>1
    <3>2. Cardinality({d}) = 1
      BY FS_Singleton
    <3> QED BY <3>1, <3>2
  <2> QED BY <2>2, <2>3
<1> QED BY <1>1, <1>2, <1>3, PTL DEF Spec

-----------------------------------------------------------------------------
(* Types.                                                                  *)

\* The row of the task keeps its type: a row that waits has attempts left, and a
\* request is at one of its statements.
Rows ==
    /\ row \in [st : RowStates, tries : 0..Tries]
    /\ row.st = "waiting" => row.tries < Tries
    /\ client \in {"idle", "enqueue", "record", "failed", "done"}
    /\ retry \in {"idle", "enqueue", "reset", "done"}

\* What can be done with the row of a task.
LEMMA RowKept ==
    ASSUME Tries \in Nat \ {0}, Rows,
           \/ row' \in {row, added(row), Absent, returned(row, Tries)}
           \/ row.st = "waiting" /\ row' = taken(row)
    PROVE  /\ row' \in [st : RowStates, tries : 0..Tries]
           /\ row'.st = "waiting" => row'.tries < Tries
<1>1. CASE row' = row \/ row' = added(row) \/ row' = Absent
  BY <1>1 DEF Rows, added, Absent, RowStates
<1>2. CASE row' = returned(row, Tries)
  <2> PICK st \in {"waiting", "dead"} : st = IF row.tries < Tries THEN "waiting" ELSE "dead"
    BY Zenon
  <2>1. row' = [row EXCEPT !.st = st] /\ (st = "waiting" => row.tries < Tries)
    BY <1>2 DEF returned
  <2> QED BY <2>1 DEF Rows, RowStates
<1>3. CASE row.st = "waiting" /\ row' = taken(row)
  BY <1>3 DEF Rows, taken, RowStates
<1> QED BY <1>1, <1>2, <1>3

\* Every step keeps the rows.
LEMMA RowsKept ==
    ASSUME Tries \in Nat \ {0}, Rows, [Next]_vars
    PROVE  Rows'
<1>1. CASE createAgentTeamRun
  <2>1. row' \in {row, added(row)} /\ retry' = retry /\ client' \in {client, "enqueue", "record", "failed", "done"}
    BY <1>1 DEF createAgentTeamRun, CreateInsert, CreateEnqueue, CreateRecord, CreateRepeat
  <2> QED BY <2>1, RowKept DEF Rows
<1>2. CASE executePersistedAgentTeamRun
  <2>1. UNCHANGED <<client, retry>>
    BY <1>2
       DEF executePersistedAgentTeamRun, TaskTake, TaskCancelled, TaskStart, TaskGather,
           TaskMerge,
                TaskSupervised, TaskLast, TaskComplete, TaskCaught
  <2>2. \/ row' \in {row, Absent, returned(row, Tries)}
        \/ row.st = "waiting" /\ row' = taken(row)
    <3>1. CASE TaskTake \/ TaskCancelled \/ TaskComplete \/ TaskCaught
      BY <3>1 DEF TaskTake, TaskCancelled, TaskComplete, TaskCaught
    <3>2. CASE TaskStart \/ TaskGather \/ TaskMerge \/ TaskSupervised \/ TaskLast
      BY <3>2 DEF TaskStart, TaskGather, TaskMerge, TaskSupervised, TaskLast
    <3> QED BY <1>2, <3>1, <3>2 DEF executePersistedAgentTeamRun
  <2> QED BY <2>1, <2>2, RowKept DEF Rows
<1>3. CASE retryAgentTeamRun \/ resumeOwningTeamRun
  <2>1. row' \in {row, added(row)} /\ client' = client /\ retry' \in {retry, "enqueue", "reset", "done"}
    BY <1>3
       DEF retryAgentTeamRun, RetryRead, RetryEnqueue, RetryReset, resumeOwningTeamRun,
           ResumeFind,
         ResumeWake, ResumeEnqueue
  <2> QED BY <2>1, RowKept DEF Rows
<1>4. CASE cancelAgentTeamRun \/ (\E i \in Positions : \E id \in RunIds : ResumeRun(i, id)) \/ UNCHANGED vars
  <2>1. UNCHANGED <<row, client, retry>>
    BY <1>4 DEF cancelAgentTeamRun, CancelRead, CancelWrite, ResumeRun, vars
  <2> QED BY <2>1 DEF Rows
<1>5. CASE \E n \in Starts : \E l \in Lanes : Lane(n, l)
  <2>1. UNCHANGED <<row, client, retry>>
    BY <1>5, LaneLeaves
  <2> QED BY <2>1 DEF Rows
<1>6. CASE Crash
  <2>1. row' = returned(row, Tries) /\ UNCHANGED <<client, retry>>
    BY <1>6 DEF Crash
  <2> QED BY <2>1, RowKept DEF Rows
<1> QED BY <1>1, <1>2, <1>3, <1>4, <1>5, <1>6 DEF Next

\* The rows, lanes and requests keep their types: the attempts of a start and the
\* attempts of the task stay within their bounds, and a lane has a position of the
\* team, whatever is cancelled, retried, resumed or lost (executePersistedAgentTeamRun
\* counts the start it marks as running; graphile_worker counts what it takes).
THEOREM TypeCorrect ==
    ASSUME Numbers, Tries \in Nat \ {0}
    PROVE  Spec => []TypeOK
<1>1. Init => IInv /\ CancelOnce /\ AcceptedCancelWins /\ Rows
  <2>1. NoRequest \in CancelType
    BY DEF NoRequest, CancelType, TeamStates
  <2>2. Absent \in [st : RowStates, tries : 0..Tries] /\ Absent.st # "waiting"
    BY DEF Absent, RowStates
  <2> QED BY <2>1, <2>2, StartsWell DEF Init, CancelOnce, AcceptedCancelWins, NoRequest, NoTask, Rows
<1>2. IInv /\ CancelOnce /\ AcceptedCancelWins /\ Rows /\ [Next]_vars
        => IInv' /\ CancelOnce' /\ AcceptedCancelWins' /\ Rows'
  BY StepsWell, CancelKeeps, RowsKept
<1>3. IInv /\ CancelOnce /\ Rows => TypeOK
  <2> SUFFICES ASSUME IInv, CancelOnce, Rows PROVE TypeOK
    OBVIOUS
  <2>1. 0..(Size + 1) = Positions \cup {0}
    BY DEF Numbers, Positions
  <2> QED BY <2>1 DEF IInv, Types, CancelOnce, Rows, TypeOK, TeamType, StepType, TaskType, LaneType, ResumeType,
                   CancelType
<1> QED BY <1>1, <1>2, <1>3, PTL DEF Spec
=============================================================================
