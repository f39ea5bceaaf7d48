---------------------------- MODULE DebuggerProofs ----------------------------
(***************************************************************************)
(* Proofs about Debugger, for any set of places: GDB's breakpoints stay in *)
(* step with those of the storage, and a pending change is about           *)
(* breakpoints that are stored.                                            *)
(***************************************************************************)
EXTENDS Debugger, SequenceTheorems, TLAPS

Coping == admits \cap {"hasty", "refused", "outlived"} = {}

InSession == gdb \in {"loading", "loaded", "running", "stopped"}

(* What GDB has at a place of a change that is still to be made. *)
Before(ch, st, l) ==
  CASE ch.op = "add"    -> <<>>
    [] ch.op = "switch" -> <<Flip(st[l])>>
    [] OTHER            -> <<st[l]>>

(* Without GDB there is no session. *)
IdleWithoutGdb ==
  /\ debugState = "idle" => gdb = "none"
  /\ gdb = "none" => debugState = "idle" /\ out = <<>>

(* A change is pending in a session only that nothing has begun to end. *)
PendingSound ==
  "outlived" \notin admits /\ interrupt # NULL =>
    /\ debugState \in {"run requested", "running"}
    /\ ~Ending
    /\ \A l \in interrupt.on : stored[l] # "none"

(* GDB has not seen the pending change yet. *)
PendingUnmade ==
  Coping /\ interrupt # NULL =>
    \A l \in interrupt.on : inGdb[l] = Before(interrupt, stored, l)

IInv == TypeOK /\ IdleWithoutGdb /\ PendingSound /\ PendingUnmade /\ GdbInStep

-------------------------------------------------------------------------------
(* What is in the storage once more becomes a mark. *)
LEMMA MarksStayMarks ==
  ASSUME NEW st \in [Line -> Mark], NEW ch \in Change, NEW l \in Line
  PROVE  Target(ch, st, l) \in Mark /\ Flip(st[l]) \in Mark
BY DEF Target, Change, Mark, Flip

LEMMA PreparedType ==
  ASSUME stored \in [Line -> Mark], NEW ch \in Change
  PROVE  Prepared(ch) \in [Line -> Mark]
BY DEF Prepared, Change, Mark, Flip

(* One place: what the command that the change needs there leaves in GDB. *)
LEMMA OneBreakpoint ==
  ASSUME NEW m \in Mark, NEW n \in Mark
  PROVE  /\ Append(<<>>, m) = <<m>>
         /\ Tail(<<m>>) = <<>>
         /\ [<<m>> EXCEPT ![1] = n] = <<n>>
         /\ <<m>> # <<>>
OBVIOUS

(* A change keeps the types of what it writes. *)
LEMMA ApplyTypes ==
  ASSUME NEW st \in [Line -> Mark], NEW ch \in Change, NEW refused,
         shown \in [Line -> Mark], inGdb \in [Line -> Seq(Mark)],
         ApplyChange(ch, st, refused)
  PROVE  /\ stored' \in [Line -> Mark]
         /\ shown' \in [Line -> Mark]
         /\ inGdb' \in [Line -> Seq(Mark)]
<1> DEFINE done == {l \in Asked(ch, st) \ refused : ch.op = "add" \/ Modifiable(l)}
<1>1. ASSUME NEW l \in Line
      PROVE  (IF l \notin done THEN inGdb[l]
              ELSE IF ch.op = "add" THEN Append(inGdb[l], st[l])
              ELSE IF ch.op = "remove" THEN Tail(inGdb[l])
              ELSE [inGdb[l] EXCEPT ![1] = Target(ch, st, l)]) \in Seq(Mark)
  <2> HIDE DEF done
  <2>1. Target(ch, st, l) \in Mark
    BY MarksStayMarks
  <2>2. inGdb[l] \in Seq(Mark) /\ st[l] \in Mark
    OBVIOUS
  <2>3. Append(inGdb[l], st[l]) \in Seq(Mark)
    BY <2>2
  <2>4. l \in done /\ ch.op # "add" => inGdb[l] # <<>>
    BY DEF done, Modifiable
  <2>5. inGdb[l] # <<>> => Tail(inGdb[l]) \in Seq(Mark)
    BY <2>2
  <2>6. inGdb[l] # <<>> => [inGdb[l] EXCEPT ![1] = Target(ch, st, l)] \in Seq(Mark)
    BY <2>1, <2>2, ExceptSeq
  <2> QED
    BY <2>2, <2>3, <2>4, <2>5, <2>6
<1>2. inGdb' \in [Line -> Seq(Mark)]
  BY <1>1 DEF ApplyChange
<1>3. stored' \in [Line -> Mark] /\ shown' \in [Line -> Mark]
  BY MarksStayMarks DEF ApplyChange
<1> QED
  BY <1>2, <1>3

(* A change that GDB does not refuse leaves it in step with the storage, if  *)
(* it was in step elsewhere and has not seen the change yet.                 *)
LEMMA ApplyInStep ==
  ASSUME NEW st \in [Line -> Mark], NEW ch \in Change,
         \A l \in ch.on : st[l] # "none" /\ inGdb[l] = Before(ch, st, l),
         \A l \in Line \ ch.on : inGdb[l] = Backed(st[l]),
         ApplyChange(ch, st, {})
  PROVE  \A l \in Line : inGdb'[l] = Backed(stored'[l])
<1> SUFFICES ASSUME NEW l \in Line
             PROVE  inGdb'[l] = Backed(stored'[l])
  OBVIOUS
<1>1. st[l] \in Mark /\ Target(ch, st, l) \in Mark
  BY MarksStayMarks
<1>2. ch.op \in {"add", "remove", "switch", "enable", "disable"} /\ ch.on \subseteq Line
  BY DEF Change
<1>3. CASE l \notin Asked(ch, st)
  <2>1. inGdb'[l] = inGdb[l]
    BY <1>3 DEF ApplyChange
  <2>2. stored'[l] = st[l]
    BY <1>2, <1>3 DEF ApplyChange, Asked
  <2>3. l \in ch.on => inGdb[l] = <<st[l]>> /\ st[l] # "none"
    BY <1>2, <1>3 DEF Asked, Before
  <2> QED
    BY <2>1, <2>2, <2>3 DEF Backed
<1>4. CASE l \in Asked(ch, st) /\ ch.op = "add"
  <2>1. l \in ch.on /\ inGdb[l] = <<>> /\ st[l] # "none"
    BY <1>4 DEF Asked, Before
  <2>2. inGdb'[l] = Append(<<>>, st[l]) /\ stored'[l] = st[l]
    BY <1>4, <2>1 DEF ApplyChange, Target
  <2> QED
    BY <1>1, <2>1, <2>2, OneBreakpoint DEF Backed
<1>5. CASE l \in Asked(ch, st) /\ ch.op = "remove"
  <2>1. l \in ch.on /\ inGdb[l] = <<st[l]>>
    BY <1>5 DEF Asked, Before
  <2>2. Modifiable(l)
    BY <1>1, <2>1, OneBreakpoint DEF Modifiable
  <2>3. inGdb'[l] = Tail(<<st[l]>>) /\ stored'[l] = "none"
    BY <1>5, <2>1, <2>2 DEF ApplyChange, Target
  <2> QED
    BY <1>1, <2>3, OneBreakpoint DEF Backed
<1>6. CASE l \in Asked(ch, st) /\ ch.op \in {"switch", "enable", "disable"}
  <2>1. l \in ch.on
    BY <1>6 DEF Asked
  <2>2. PICK m \in Mark : inGdb[l] = <<m>>
    BY <1>1, <1>6, <2>1, MarksStayMarks DEF Before
  <2>3. Modifiable(l)
    BY <2>2, OneBreakpoint DEF Modifiable
  <2>4. inGdb'[l] = [<<m>> EXCEPT ![1] = Target(ch, st, l)]
    BY <1>6, <2>2, <2>3 DEF ApplyChange
  <2>5. stored'[l] = Target(ch, st, l)
    BY <1>6, <2>3 DEF ApplyChange
  <2>6. Target(ch, st, l) # "none"
    BY <1>6, <2>1 DEF Target
  <2> QED
    BY <1>1, <2>2, <2>4, <2>5, <2>6, OneBreakpoint DEF Backed
<1> QED
  BY <1>2, <1>3, <1>4, <1>5, <1>6
-------------------------------------------------------------------------------
(* The records GDB writes, one more or one less.                             *)

Record == {"started", "running", "stopped", "exited", "error"}

NoExit(s) == \A i \in 1..Len(s) : s[i] # "exited"

LEMMA Records ==
  ASSUME NEW s \in Seq(Record), NEW r \in Record
  PROVE  /\ Append(s, r) \in Seq(Record)
         /\ NoExit(s) /\ r # "exited" => NoExit(Append(s, r))
         /\ s # <<>> => /\ Head(s) \in Record
                        /\ Tail(s) \in Seq(Record)
                        /\ Append(Tail(s), r) \in Seq(Record)
                        /\ NoExit(s) => NoExit(Tail(s)) /\ Head(s) # "exited"
BY DEF NoExit

LEMMA TwoRecords ==
  ASSUME NEW s \in Seq(Record)
  PROVE  /\ s \o <<"started", "running">> \in Seq(Record)
         /\ NoExit(s) => NoExit(s \o <<"started", "running">>)
<1>1. <<"started", "running">> \in Seq(Record)
  BY DEF Record
<1>2. s \o <<"started", "running">> = Append(Append(s, "started"), "running")
  OBVIOUS
<1> QED
  BY <1>2, Records DEF Record

(* What a pending change says of the session. *)
LEMMA PendingMeans ==
  ASSUME IInv, "outlived" \notin admits, interrupt # NULL
  PROVE  /\ debugState \in {"run requested", "running"}
         /\ ~exitPending
         /\ gdb \notin {"none", "exiting"}
         /\ NoExit(out)
         /\ interrupt \in Change
BY DEF IInv, PendingSound, Ending, NoExit, IdleWithoutGdb, TypeOK

-------------------------------------------------------------------------------
LEMMA InitIInv == Init => IInv
<1> SUFFICES ASSUME Init PROVE IInv
  OBVIOUS
<1>1. <<>> \in Seq(Record)
  OBVIOUS
<1>2. [l \in Line |-> <<>>] \in [Line -> Seq(Mark)]
  OBVIOUS
<1>3. TypeOK
  BY <1>1, <1>2 DEF Init, TypeOK, Mark, Record
<1> QED
  BY <1>3 DEF Init, IInv, IdleWithoutGdb, PendingSound, PendingUnmade, GdbInStep

-------------------------------------------------------------------------------
(* The user's changes of breakpoints.                                        *)
LEMMA ChangePreserves ==
  ASSUME IInv, NEW ch \in Change, ChangeBreaks(ch)
  PROVE  IInv'
<1> USE DEF ChangeBreaks
<1> DEFINE st == Prepared(ch)
<1>1. st \in [Line -> Mark]
  BY PreparedType DEF IInv, TypeOK
<1>2. ch.op \in {"add", "remove", "switch", "enable", "disable"} /\ ch.on \subseteq Line
  BY DEF Change
<1>3. \A l \in ch.on : st[l] # "none"
  BY <1>2 DEF Prepared, Offered, Flip, IInv, TypeOK, Mark
<1>4. \A l \in ch.on : Backed(stored[l]) = Before(ch, st, l)
  BY <1>2 DEF Prepared, Offered, Flip, Backed, Before, IInv, TypeOK, Mark
<1>5. \A l \in Line \ ch.on : st[l] = stored[l]
  BY DEF Prepared
<1>6. CASE debugState = "idle"
  <2>1. stored' \in [Line -> Mark] /\ shown' = stored' /\ UNCHANGED <<sigint, interrupt, inGdb>>
    BY <1>1, <1>6, MarksStayMarks, SMTT(30) DEF IInv, TypeOK
  <2>2. interrupt # NULL => "outlived" \in admits
    BY <1>6, PendingMeans
  <2>3. gdb = "none"
    BY <1>6 DEF IInv, IdleWithoutGdb
  <2> QED
    BY <2>1, <2>2, <2>3 DEF IInv, TypeOK, IdleWithoutGdb, PendingSound, PendingUnmade,
                           GdbInStep, Coping
<1>7. CASE debugState = "stopped"
  <2>1. PICK refused \in Refusals(ch) : ApplyChange(ch, st, refused)
    BY <1>7
  <2>2. TypeOK'
    BY <1>1, <1>7, <2>1, ApplyTypes DEF IInv, TypeOK
  <2>3. interrupt # NULL => "outlived" \in admits
    BY <1>7, PendingMeans
  <2>4. GdbInStep'
    <3> SUFFICES ASSUME Coping
                 PROVE  \A l \in Line \ Pending' : inGdb'[l] = Backed(stored'[l])
      BY <1>7 DEF GdbInStep, Coping
    <3>1. interrupt = NULL /\ refused = {}
      BY <2>1, <2>3 DEF Coping, Refusals
    <3>2. \A l \in Line : inGdb[l] = Backed(stored[l])
      BY <1>7, <3>1 DEF Settled, IInv, GdbInStep, Coping, Pending
    <3>3. \A l \in Line : inGdb'[l] = Backed(stored'[l])
      BY <1>1, <1>2, <1>3, <1>4, <1>5, <2>1, <3>1, <3>2, ApplyInStep
    <3> QED
      BY <3>3
  <2> QED
    BY <1>7, <2>2, <2>3, <2>4 DEF IInv, IdleWithoutGdb, PendingSound, PendingUnmade, Coping
<1>8. CASE debugState = "stop requested"
  <2>1. interrupt # NULL => "outlived" \in admits
    BY <1>8, PendingMeans
  <2>2. "hasty" \in admits
    BY <1>8
  <2> QED
    BY <1>1, <1>8, <2>1, <2>2 DEF IInv, TypeOK, IdleWithoutGdb, PendingSound,
                                 PendingUnmade, GdbInStep, Coping
<1>9. CASE debugState \in {"run requested", "running"}
  <2>1. stored' = st /\ interrupt' = ch /\ UNCHANGED <<shown, inGdb>>
    BY <1>9
  <2>2. TypeOK'
    BY <1>1, <1>9, <2>1 DEF IInv, TypeOK, RequestInterrupt
  <2>3. PendingSound'
    BY <1>3, <1>9, <2>1 DEF PendingSound, Ending
  <2>4. Coping => /\ interrupt = NULL
                  /\ \A l \in Line : inGdb[l] = Backed(stored[l])
    <3> SUFFICES ASSUME Coping
                 PROVE  /\ interrupt = NULL
                        /\ \A l \in Line : inGdb[l] = Backed(stored[l])
      OBVIOUS
    <3>1. interrupt = NULL /\ ~Ending
      BY <1>9 DEF Coping
    <3>2. gdb \notin {"none", "exiting"}
      BY <1>9, <3>1 DEF Ending, IInv, IdleWithoutGdb
    <3> QED
      BY <3>1, <3>2 DEF IInv, GdbInStep, TypeOK, Coping, Pending
  <2>5. PendingUnmade'
    <3>1. Coping => \A l \in ch.on : inGdb[l] = Backed(stored[l])
      BY <1>2, <2>4
    <3>2. Coping => \A l \in ch.on : inGdb[l] = Before(ch, st, l)
      BY <1>4, <3>1, Zenon
    <3>3. Coping' <=> Coping
      BY DEF Coping
    <3>4. Coping => \A l \in ch.on : inGdb'[l] = Before(interrupt', stored', l)
      BY <2>1, <3>2, Zenon
    <3> HIDE DEF st
    <3> QED
      BY <2>1, <3>3, <3>4, Zenon DEF PendingUnmade
  <2>6. GdbInStep'
    <3>1. ch # NULL
      BY DebuggerAssumption DEF Change
    <3>2. Pending' = ch.on
      BY <2>1, <3>1 DEF Pending
    <3>3. Coping' => Coping
      BY DEF Coping
    <3>4. Coping => \A l \in Line \ ch.on : inGdb'[l] = Backed(stored'[l])
      BY <1>5, <2>1, <2>4
    <3> QED
      BY <3>2, <3>3, <3>4 DEF GdbInStep, Coping
  <2>7. IdleWithoutGdb'
    BY <1>9 DEF IInv, IdleWithoutGdb
  <2> QED
    BY <2>2, <2>3, <2>5, <2>6, <2>7 DEF IInv
<1> QED
  BY <1>6, <1>7, <1>8, <1>9

-------------------------------------------------------------------------------
(* The commands of the user.                                                 *)
LEMMA CommandPreserves ==
  ASSUME IInv, Run \/ Continue \/ Step \/ Restart \/ Stop
  PROVE  IInv'
<1>1. \A r \in Record : Append(out, r) \in Seq(Record)
  BY Records DEF IInv, TypeOK, Record
<1>2. out \o <<"started", "running">> \in Seq(Record)
  BY TwoRecords DEF IInv, TypeOK, Record
<1>3. interrupt # NULL => "outlived" \in admits
                          \/ debugState \in {"run requested", "running"}
  BY PendingMeans
<1>4. CASE Run
  <2>1. \A l \in Line : Backed(stored[l]) \in Seq(Mark)
    <3>1. \A m \in Mark : <<m>> \in Seq(Mark)
      OBVIOUS
    <3>2. <<>> \in Seq(Mark)
      OBVIOUS
    <3> QED
      BY <3>1, <3>2 DEF Backed, IInv, TypeOK
  <2>2. TypeOK'
    BY <1>4, <2>1 DEF Run, IInv, TypeOK
  <2> QED
    BY <1>3, <1>4, <2>2 DEF Run, IInv, IdleWithoutGdb, PendingSound, PendingUnmade,
                            GdbInStep, Coping, Pending
<1>5. CASE Continue \/ Step
  <2>1. TypeOK'
    BY <1>1, <1>5 DEF Continue, Step, Resume, IInv, TypeOK, Record
  <2>2. gdb \in {"loaded", "stopped"} /\ gdb' \in {"loaded", "running"}
        /\ debugState = "stopped" /\ debugState' \in {"stopped", "run requested"}
        /\ UNCHANGED <<admits, interrupt, stored, inGdb>>
    BY <1>5 DEF Continue, Step, Resume, Settled
  <2> QED
    BY <1>3, <2>1, <2>2 DEF IInv, IdleWithoutGdb, PendingSound, PendingUnmade,
                            GdbInStep, Coping, Pending
<1>6. CASE Restart
  <2>1. TypeOK'
    BY <1>1, <1>2, <1>6 DEF Restart, ExecRun, IInv, TypeOK, Record
  <2>2. gdb \in {"loaded", "stopped"} /\ gdb' \in {"loaded", "running"}
        /\ debugState = "stopped" /\ debugState' = "run requested"
        /\ UNCHANGED <<admits, interrupt, stored, inGdb>>
    BY <1>6 DEF Restart, ExecRun, Settled
  <2> QED
    BY <1>3, <2>1, <2>2 DEF IInv, IdleWithoutGdb, PendingSound, PendingUnmade,
                            GdbInStep, Coping, Pending
<1>7. CASE Stop
  <2>1. TypeOK'
    BY <1>7 DEF Stop, StopGdb, RequestInterrupt, IInv, TypeOK
  <2>2. interrupt # NULL => "outlived" \in admits
    BY <1>7 DEF Stop
  <2>3. /\ gdb' \in {gdb, "exiting"} /\ UNCHANGED <<admits, interrupt, stored, inGdb, out>>
        /\ debugState # "idle" /\ debugState' \in {debugState, "stop requested"}
    BY <1>7 DEF Stop, StopGdb
  <2> QED
    BY <2>1, <2>2, <2>3 DEF IInv, IdleWithoutGdb, PendingSound, PendingUnmade,
                            GdbInStep, Coping, Pending
<1> QED
  BY <1>4, <1>5, <1>6, <1>7

-------------------------------------------------------------------------------
(* GDB, the target and their records, but for a stop.                        *)
LEMMA GdbPreserves ==
  ASSUME IInv,
         \/ Loaded \/ TargetStops \/ SigintStops \/ TargetExits \/ GdbDies
         \/ gdb # "exiting" /\ (ReadStarted \/ ReadRunning \/ ReadExited)
  PROVE  IInv'
<1>1. out \in Seq(Record)
  BY DEF IInv, TypeOK, Record
<1>2. /\ Append(out, "stopped") \in Seq(Record) /\ Append(out, "error") \in Seq(Record)
      /\ Append(out, "exited") \in Seq(Record)
      /\ out \o <<"started", "running">> \in Seq(Record)
      /\ out # <<>> => Tail(out) \in Seq(Record)
  BY <1>1, Records, TwoRecords DEF Record
<1>3. TypeOK'
  <2>1. CASE Loaded
    BY <1>2, <2>1 DEF Loaded, ExecRun, StopGdb, IInv, TypeOK, Record
  <2>2. CASE TargetStops \/ SigintStops \/ TargetExits \/ GdbDies
    BY <1>2, <2>2 DEF TargetStops, SigintStops, TargetExits, GdbDies, IInv, TypeOK, Record
  <2>3. CASE ReadStarted \/ ReadRunning \/ ReadExited
    BY <1>2, <2>3 DEF ReadStarted, ReadRunning, ReadExited, IInv, TypeOK, Record
  <2> QED
    BY <2>1, <2>2, <2>3
<1>4. UNCHANGED <<admits, interrupt, exitPending, stored, inGdb>>
  BY DEF Loaded, TargetStops, SigintStops, TargetExits, GdbDies,
         ReadStarted, ReadRunning, ReadExited
<1>5. gdb # "none" /\ gdb # "exiting" /\ debugState # "idle" /\ debugState' # "idle"
      /\ gdb' # "none"
  BY DEF Loaded, ExecRun, StopGdb, TargetStops, SigintStops, TargetExits, GdbDies,
         ReadStarted, ReadRunning, ReadExited, IInv, IdleWithoutGdb, TypeOK
<1>6. PendingSound'
  <2> SUFFICES ASSUME "outlived" \notin admits, interrupt # NULL
               PROVE  debugState' \in {"run requested", "running"} /\ ~Ending'
    BY <1>4 DEF IInv, PendingSound
  <2>1. debugState \in {"run requested", "running"} /\ ~exitPending /\ NoExit(out)
    BY PendingMeans
  <2>2. NoExit(Append(out, "stopped")) /\ NoExit(Append(out, "error"))
        /\ NoExit(out \o <<"started", "running">>)
        /\ (out # <<>> => NoExit(Tail(out)) /\ Head(out) # "exited")
    BY <1>1, <2>1, Records, TwoRecords DEF Record
  <2>3. /\ NoExit(out')
        /\ gdb' # "exiting"
        /\ debugState' \in {"run requested", "running"}
    BY <1>5, <2>1, <2>2 DEF Loaded, ExecRun, TargetStops, SigintStops, TargetExits, GdbDies,
                      ReadStarted, ReadRunning, ReadExited
  <2> QED
    BY <1>4, <2>1, <2>3 DEF Ending, NoExit
<1>7. IdleWithoutGdb'
  BY <1>5 DEF IdleWithoutGdb
<1>8. PendingUnmade'
  BY <1>4 DEF IInv, PendingUnmade, Coping
<1>9. GdbInStep'
  BY <1>4, <1>5 DEF IInv, TypeOK, GdbInStep, Pending
<1> QED
  BY <1>3, <1>6, <1>7, <1>8, <1>9 DEF IInv

(* The session is over: nothing is pending that a fresh one would meet. *)
LEMMA ExitPreserves ==
  ASSUME IInv, GdbExited
  PROVE  IInv'
<1>1. [l \in Line |-> <<>>] \in [Line -> Seq(Mark)] /\ <<>> \in Seq(Record)
  OBVIOUS
<1>2. TypeOK'
  BY <1>1 DEF GdbExited, IInv, TypeOK, Record
<1>3. interrupt # NULL => "outlived" \in admits
  BY PendingMeans DEF GdbExited
<1> QED
  BY <1>2, <1>3 DEF GdbExited, IInv, IdleWithoutGdb, PendingSound, PendingUnmade,
                    GdbInStep, Coping

-------------------------------------------------------------------------------
(* The debugger stops: the pending change is made.                           *)
LEMMA StopPreserves ==
  ASSUME IInv, gdb # "exiting", ReadStopped \/ ReadError
  PROVE  IInv'
<1>1. /\ out # <<>> /\ out \in Seq(Record)
      /\ UNCHANGED <<admits, targetPid, sigint>>
      /\ \/ OnDebuggerStopped
         \/ /\ debugState = "stopped" /\ out' = Tail(out)
            /\ UNCHANGED <<debugState, gdb, interrupt, exitPending, stored, shown, inGdb>>
  BY DEF ReadStopped, ReadError, IInv, TypeOK, Record
<1>2. gdb # "none" /\ debugState # "idle" /\ InSession
  BY <1>1 DEF IInv, IdleWithoutGdb, TypeOK, InSession
<1>3. /\ Tail(out) \in Seq(Record)
      /\ Append(Tail(out), "error") \in Seq(Record)
      /\ Append(Tail(out), "running") \in Seq(Record)
  BY <1>1, Records DEF Record
<1>4. CASE UNCHANGED <<gdb, interrupt, exitPending, stored, shown, inGdb>>
           /\ debugState' = "stopped" /\ out' = Tail(out)
           /\ (interrupt # NULL => "outlived" \in admits)
  <2>1. TypeOK'
    BY <1>1, <1>3, <1>4 DEF IInv, TypeOK, Record
  <2> QED
    BY <1>1, <1>2, <1>4, <2>1 DEF IInv, IdleWithoutGdb, PendingSound, PendingUnmade, GdbInStep,
                            Coping, Pending
<1>5. CASE OnDebuggerStopped /\ exitPending
  <2>1. TypeOK'
    BY <1>1, <1>3, <1>5 DEF OnDebuggerStopped, IInv, TypeOK, Record
  <2>2. interrupt # NULL => "outlived" \in admits
    BY <1>5, PendingMeans
  <2> QED
    BY <1>1, <1>5, <2>1, <2>2 DEF OnDebuggerStopped, IInv, IdleWithoutGdb, PendingSound,
                            PendingUnmade, GdbInStep, Coping
<1>6. CASE OnDebuggerStopped /\ ~exitPending /\ interrupt # NULL
  <2>1. PICK refused \in Refusals(interrupt) : ApplyChange(interrupt, stored, refused)
    BY <1>6 DEF OnDebuggerStopped
  <2>2. /\ debugState' = "stopped" /\ interrupt' = NULL /\ exitPending' = exitPending
        /\ gdb' \in {gdb, "running"} /\ gdb' # "none"
        /\ out' \in {Append(Tail(out), "error"), Append(Tail(out), "running")}
    BY <1>2, <1>6 DEF OnDebuggerStopped
  <2>3. interrupt \in Change
    BY <1>6 DEF IInv, TypeOK
  <2>4. TypeOK'
    BY <1>1, <1>3, <2>1, <2>2, <2>3, ApplyTypes DEF IInv, TypeOK, Record
  <2>5. GdbInStep'
    <3> SUFFICES ASSUME Coping
                 PROVE  \A l \in Line : inGdb'[l] = Backed(stored'[l])
      BY <1>1 DEF GdbInStep, Coping
    <3>1. refused = {} /\ "outlived" \notin admits
      BY <2>1 DEF Coping, Refusals
    <3>2. \A l \in interrupt.on : stored[l] # "none" /\ inGdb[l] = Before(interrupt, stored, l)
      BY <1>6, <3>1 DEF IInv, PendingSound, PendingUnmade
    <3>3. \A l \in Line \ interrupt.on : inGdb[l] = Backed(stored[l])
      BY <1>2, <1>6 DEF IInv, GdbInStep, Coping, InSession, Pending
    <3>4. stored \in [Line -> Mark]
      BY DEF IInv, TypeOK
    <3> QED
      BY <2>1, <2>3, <3>1, <3>2, <3>3, <3>4, ApplyInStep
  <2> QED
    BY <2>2, <2>4, <2>5 DEF IInv, IdleWithoutGdb, PendingSound, PendingUnmade
<1>7. CASE OnDebuggerStopped /\ ~exitPending /\ interrupt = NULL
  BY <1>4, <1>7 DEF OnDebuggerStopped
<1>8. CASE /\ debugState = "stopped" /\ out' = Tail(out)
           /\ UNCHANGED <<debugState, gdb, interrupt, exitPending, stored, shown, inGdb>>
  BY <1>4, <1>8, PendingMeans
<1> QED
  BY <1>1, <1>5, <1>6, <1>7, <1>8

LEMMA NextIInv == IInv /\ [Next]_vars => IInv'
<1> SUFFICES ASSUME IInv, [Next]_vars
             PROVE  IInv'
  OBVIOUS
<1>1. CASE \E ch \in Change : ChangeBreaks(ch)
  BY <1>1, ChangePreserves
<1>2. CASE Run \/ Continue \/ Step \/ Restart \/ Stop
  BY <1>2, CommandPreserves
<1>3. CASE Loaded \/ TargetStops \/ SigintStops \/ TargetExits \/ GdbDies
  BY <1>3, GdbPreserves
<1>4. CASE ReadRecord
  BY <1>4, GdbPreserves, StopPreserves DEF ReadRecord
<1>5. CASE GdbExited
  BY <1>5, ExitPreserves
<1>6. CASE UNCHANGED vars
  <2>1. UNCHANGED <<admits, debugState, gdb, out, targetPid, sigint, interrupt,
                    exitPending, stored, shown, inGdb>>
    BY <1>6 DEF vars
  <2>2. TypeOK' /\ IdleWithoutGdb'
    BY <2>1 DEF IInv, TypeOK, IdleWithoutGdb
  <2>3. Ending' <=> Ending
    BY <2>1 DEF Ending
  <2>4. PendingSound'
    BY <2>1, <2>3 DEF IInv, PendingSound
  <2>5. PendingUnmade' /\ GdbInStep'
    BY <2>1 DEF IInv, PendingUnmade, GdbInStep, Coping, Pending
  <2> QED
    BY <2>2, <2>4, <2>5 DEF IInv
<1> QED
  BY <1>1, <1>2, <1>3, <1>4, <1>5, <1>6 DEF Next

-------------------------------------------------------------------------------
LEMMA SpecIInv == Spec => []IInv
<1>1. Init => IInv
  BY InitIInv
<1>2. IInv /\ [Next]_vars => IInv'
  BY NextIInv
<1> QED
  BY <1>1, <1>2, PTL DEF Spec

(* Every state of the debugger has its type. *)
THEOREM DebuggerTypeOK == Spec => []TypeOK
<1>1. IInv => TypeOK
  BY DEF IInv
<1> QED
  BY <1>1, SpecIInv, PTL

(* What the callback of a pending change gets at the stop is still in the    *)
(* storage of breakpoints, whatever the user, GDB and the target did since.  *)
THEOREM PendingStaysStored == Spec => []PendingInStore
<1>1. IInv => PendingInStore
  BY DEF IInv, PendingSound, PendingInStore, Pending
<1> QED
  BY <1>1, SpecIInv, PTL

(* Between a change and the stop that makes it, and ever after, GDB has the  *)
(* breakpoints of the storage: none is lost and none is made twice.          *)
THEOREM GdbStaysInStep == Spec => []GdbInStep
<1>1. IInv => GdbInStep
  BY DEF IInv
<1> QED
  BY <1>1, SpecIInv, PTL

-------------------------------------------------------------------------------
(* What is shown.                                                            *)

Foreseen == admits \cap {"hasty", "outlived"} = {}

Shows(m, l) == shown[l] = m \/ ("refused" \in admits /\ shown[l] = "none")

(* What is shown at a place of a change that is still to be made. *)
Former(ch, st, l) ==
  CASE ch.op = "add"    -> "none"
    [] ch.op = "switch" -> Flip(st[l])
    [] OTHER            -> st[l]

(* The pending change is not shown yet. *)
PendingUnshown ==
  Foreseen /\ interrupt # NULL =>
    \A l \in interrupt.on : Shows(Former(interrupt, stored, l), l)

ShownIInv == IInv /\ PendingUnshown /\ ShownIsStored

(* Made or refused, a change leaves what is shown as it is stored. *)
LEMMA ApplyShown ==
  ASSUME NEW st \in [Line -> Mark], NEW ch \in Change, NEW refused,
         refused # {} => "refused" \in admits,
         \A l \in ch.on : Shows(Former(ch, st, l), l),
         \A l \in Line \ ch.on : Shows(st[l], l),
         ApplyChange(ch, st, refused), UNCHANGED admits
  PROVE  \A l \in Line : Shows(stored[l], l)'
<1> SUFFICES ASSUME NEW l \in Line
             PROVE  \/ shown'[l] = stored'[l]
                    \/ "refused" \in admits /\ shown'[l] = "none"
  BY DEF Shows
<1> DEFINE done == {k \in Asked(ch, st) \ refused : ch.op = "add" \/ Modifiable(k)}
<1>1. /\ stored'[l] = IF l \in done THEN Target(ch, st, l)
                      ELSE IF ch.op = "switch" /\ l \in ch.on THEN Flip(st[l])
                      ELSE st[l]
      /\ shown'[l] = IF l \in done THEN Target(ch, st, l) ELSE shown[l]
  BY DEF ApplyChange
<1>2. ch.op = "add" /\ l \in ch.on /\ l \notin done => refused # {}
  BY DEF Asked
<1> HIDE DEF done
<1>3. CASE l \in done
  BY <1>1, <1>3
<1>4. CASE l \notin done /\ l \notin ch.on
  BY <1>1, <1>4 DEF Shows
<1>5. CASE l \notin done /\ l \in ch.on
  BY <1>1, <1>2, <1>5 DEF Shows, Former
<1> QED
  BY <1>3, <1>4, <1>5

(* Before a change that may be made nothing else is pending, and what it     *)
(* finds stored is shown.                                                    *)
LEMMA PreparedShown ==
  ASSUME ShownIInv, Foreseen, interrupt = NULL, NEW ch \in Change, Offered(ch)
  PROVE  /\ \A l \in ch.on : Shows(Former(ch, Prepared(ch), l), l)
         /\ \A l \in Line \ ch.on : Shows(Prepared(ch)[l], l)
<1>1. \A l \in Line : Shows(stored[l], l) /\ stored[l] \in Mark
  BY DEF ShownIInv, ShownIsStored, Foreseen, Pending, Shows, IInv, TypeOK
<1>2. ch.op \in {"add", "remove", "switch", "enable", "disable"} /\ ch.on \subseteq Line
  BY DEF Change
<1>3. ASSUME NEW l \in ch.on
      PROVE  Former(ch, Prepared(ch), l) = stored[l]
  <2>1. (stored[l] = "none") <=> (ch.op = "add")
    BY DEF Offered
  <2>2. stored[l] \in {"none", "on", "off"}
    BY <1>1, <1>2 DEF Mark
  <2>3. Prepared(ch)[l] = IF ch.op = "add" THEN "on"
                          ELSE IF ch.op = "switch" THEN Flip(stored[l]) ELSE stored[l]
    BY <1>2 DEF Prepared
  <2> QED
    BY <1>2, <2>1, <2>2, <2>3 DEF Former, Flip
<1>4. \A l \in Line \ ch.on : Prepared(ch)[l] = stored[l]
  BY DEF Prepared
<1> QED
  BY <1>1, <1>2, <1>3, <1>4

(* What leaves storage, display and pending change alone. *)
LEMMA ShownKept ==
  ASSUME ShownIInv, UNCHANGED <<admits, interrupt, stored, shown>>
  PROVE  PendingUnshown' /\ ShownIsStored'
BY DEF ShownIInv, PendingUnshown, ShownIsStored, Foreseen, Pending, Shows, Former, Flip

LEMMA ChangeShown ==
  ASSUME ShownIInv, NEW ch \in Change, ChangeBreaks(ch)
  PROVE  PendingUnshown' /\ ShownIsStored'
<1> SUFFICES ASSUME Foreseen
             PROVE  PendingUnshown' /\ ShownIsStored'
  BY DEF ChangeBreaks, Foreseen, PendingUnshown, ShownIsStored
<1>1. interrupt = NULL /\ debugState # "stop requested" /\ Offered(ch) /\ UNCHANGED admits
  BY DEF ChangeBreaks, Foreseen
<1>2. Prepared(ch) \in [Line -> Mark]
  BY PreparedType DEF ShownIInv, IInv, TypeOK
<1>3. /\ \A l \in ch.on : Shows(Former(ch, Prepared(ch), l), l)
      /\ \A l \in Line \ ch.on : Shows(Prepared(ch)[l], l)
  BY <1>1, PreparedShown
<1>4. CASE debugState = "idle"
  BY <1>1, <1>4 DEF ChangeBreaks, PendingUnshown, ShownIsStored
<1>5. CASE debugState = "stopped"
  <2>1. PICK refused \in Refusals(ch) : ApplyChange(ch, Prepared(ch), refused)
    BY <1>5 DEF ChangeBreaks
  <2>2. refused # {} => "refused" \in admits
    BY <2>1 DEF Refusals
  <2>3. \A l \in Line : Shows(stored[l], l)'
    BY <1>1, <1>2, <1>3, <2>1, <2>2, ApplyShown
  <2>4. interrupt' = NULL
    BY <1>1, <1>5 DEF ChangeBreaks
  <2> QED
    BY <1>1, <2>3, <2>4 DEF PendingUnshown, ShownIsStored, Shows
<1>6. CASE debugState \in {"run requested", "running"}
  <2>1. stored' = Prepared(ch) /\ interrupt' = ch /\ shown' = shown
    BY <1>6 DEF ChangeBreaks
  <2>2. ch # NULL
    BY DebuggerAssumption DEF Change
  <2>3. \A l \in ch.on : Shows(Former(interrupt, stored, l), l)'
    BY <1>1, <1>3, <2>1 DEF Shows, Former
  <2>4. \A l \in Line \ ch.on : Shows(stored[l], l)'
    BY <1>1, <1>3, <2>1 DEF Shows
  <2>5. Pending' = ch.on
    BY <2>1, <2>2 DEF Pending
  <2> QED
    BY <1>1, <2>1, <2>3, <2>4, <2>5 DEF PendingUnshown, ShownIsStored, Shows
<1> QED
  BY <1>1, <1>4, <1>5, <1>6 DEF ChangeBreaks

LEMMA StopShown ==
  ASSUME ShownIInv, OnDebuggerStopped, UNCHANGED admits
  PROVE  PendingUnshown' /\ ShownIsStored'
<1>1. CASE UNCHANGED <<interrupt, stored, shown>>
  BY <1>1, ShownKept
<1>2. CASE ~exitPending /\ interrupt # NULL
  <2> SUFFICES ASSUME Foreseen
               PROVE  PendingUnshown' /\ ShownIsStored'
    BY DEF Foreseen, PendingUnshown, ShownIsStored
  <2>1. PICK refused \in Refusals(interrupt) : ApplyChange(interrupt, stored, refused)
    BY <1>2 DEF OnDebuggerStopped
  <2>2. refused # {} => "refused" \in admits
    BY <2>1 DEF Refusals
  <2>3. interrupt \in Change /\ stored \in [Line -> Mark] /\ interrupt' = NULL
    BY <1>2 DEF ShownIInv, IInv, TypeOK, OnDebuggerStopped
  <2>4. /\ \A l \in interrupt.on : Shows(Former(interrupt, stored, l), l)
        /\ \A l \in Line \ interrupt.on : Shows(stored[l], l)
    BY <1>2 DEF ShownIInv, PendingUnshown, ShownIsStored, Foreseen, Pending, Shows
  <2>5. \A l \in Line : Shows(stored[l], l)'
    BY <2>1, <2>2, <2>3, <2>4, ApplyShown
  <2> QED
    BY <2>3, <2>5 DEF PendingUnshown, ShownIsStored, Shows
<1> QED
  BY <1>1, <1>2 DEF OnDebuggerStopped

(* The tree and the margins show what is stored: a change that waits for the *)
(* stop is shown when it is made, and a switch that GDB refuses is taken     *)
(* back on both sides.                                                       *)
THEOREM ShownStaysStored == Spec => []ShownIsStored
<1>1. Init => ShownIInv
  BY InitIInv DEF Init, ShownIInv, PendingUnshown, ShownIsStored
<1>2. ShownIInv /\ [Next]_vars => ShownIInv'
  <2> SUFFICES ASSUME ShownIInv, [Next]_vars
               PROVE  PendingUnshown' /\ ShownIsStored'
    BY NextIInv DEF ShownIInv
  <2>1. CASE \E ch \in Change : ChangeBreaks(ch)
    BY <2>1, ChangeShown
  <2>2. CASE OnDebuggerStopped /\ UNCHANGED admits
    BY <2>2, StopShown
  <2>3. CASE UNCHANGED <<admits, interrupt, stored, shown>>
    BY <2>3, ShownKept
  <2> QED
    BY <2>1, <2>2, <2>3
      DEF Next, Run, Continue, Step, Restart, Stop, Loaded, TargetStops, SigintStops,
          TargetExits, GdbDies, ReadRecord, ReadStarted, ReadRunning, ReadStopped, ReadExited,
          ReadError, GdbExited, vars
<1>3. ShownIInv => ShownIsStored
  BY DEF ShownIInv
<1> QED
  BY <1>1, <1>2, <1>3, PTL DEF Spec
=============================================================================
