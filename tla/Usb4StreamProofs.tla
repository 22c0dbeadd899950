-------------------------- MODULE Usb4StreamProofs --------------------------
(***************************************************************************)
(* Proofs about Usb4Stream, for every schedule, ring, set of devices and   *)
(* number of launches: types, why no frame is lost to a far side that has  *)
(* not opened, what the receipt may say of the opens, that the bench       *)
(* implements OneShot, why the two sides stay in step and never wait on    *)
(* each other, and why the receipt is true of the whole run.               *)
(***************************************************************************)
EXTENDS Usb4Stream, SequenceTheorems, TLAPS

-----------------------------------------------------------------------------
\* The schedule.

How == {"ask", "both", "push", "pull"}
TurnSet == [how : How, phase : SchedulePhase, frames : Nat]

\* The size a round takes its frames from is one of the sizes given.
LEMMA RoundIndex ==
  ASSUME NEW n \in Nat, NEW i \in Nat \ {0}, NEW k \in 1 .. n * i
  PROVE  1 + (k - 1) \div i \in 1 .. n
  <1> DEFINE d == (k - 1) \div i
  <1> DEFINE m == (k - 1) % i
  <1>1. k \in Nat /\ k - 1 \in Nat /\ n * i \in Nat
    OBVIOUS
  <1>2. d \in Nat /\ m \in 0 .. i - 1 /\ k - 1 = i * d + m
    BY <1>1
  <1>3. d < n
    <2>1. SUFFICES ASSUME d >= n PROVE FALSE
      BY <1>2
    <2>2. i * d >= i * n
      BY <1>2, <2>1
    <2>3. i * n = n * i
      OBVIOUS
    <2> HIDE DEF d, m
    <2> QED BY <1>1, <1>2, <2>2, <2>3
  <1> HIDE DEF d
  <1>4. 1 + d \in 1 .. n
    BY <1>2, <1>3
  <1> QED BY <1>4 DEF d

\* A pass over a list of sizes is a sequence of turns of those sizes.
LEMMA RoundsType ==
  ASSUME NEW S, NEW how, NEW ph, NEW sizes \in Seq(Nat),
         \A k \in 1 .. Len(sizes) : Turn(how, ph, sizes[k]) \in S
  PROVE  Rounds(how, ph, sizes) \in Seq(S)
  <1>1. Len(sizes) * Iters \in Nat
    BY SizesAssumption, LenProperties
  <1>2. \A k \in 1 .. Len(sizes) * Iters : Turn(how, ph, sizes[1 + (k - 1) \div Iters]) \in S
    <2> TAKE k \in 1 .. Len(sizes) * Iters
    <2>1. 1 + (k - 1) \div Iters \in 1 .. Len(sizes)
      BY RoundIndex, SizesAssumption, LenProperties
    <2> QED BY <2>1
  <1>3. Rounds(how, ph, sizes) \in [1 .. Len(sizes) * Iters -> S]
    BY <1>2 DEF Rounds
  <1> QED BY <1>1, <1>3, SeqDef

\* The turns before the throughput phase: their exchanges fit the ring.
Plain == {t \in TurnSet : /\ t.how \in {"ask", "both"} /\ t.frames # 0
                          /\ t.how = "both" => t.frames <= Ring}

\* The schedule is a sequence of turns, none of them empty; it opens with the handshake,
\* no exchange is larger than the ring, and no throughput turn is followed by one of its own
\* direction.
LEMMA TurnsShape ==
  /\ Turns \in Seq(TurnSet)
  /\ Len(Turns) \in Nat \ {0}
  /\ Turns[1] = Turn("ask", "handshake", 1)
  /\ \A k \in 1 .. Len(Turns) :
       /\ Turns[k].frames # 0
       /\ Turns[k].how = "both" => Turns[k].frames <= Ring
       /\ Turns[k].how \in {"push", "pull"} /\ k < Len(Turns) => Turns[k + 1].how # Turns[k].how
  <1> DEFINE first == <<Turn("ask", "handshake", 1)>>
             warm == Rounds("ask", "warmup", <<1>>)
             rtt == Rounds("ask", "rtt", RttFrames)
             exch == Rounds("both", "exchange", ExchangeFrames)
             early == first \o warm \o rtt \o exch
             last == <<Turn("push", "throughput", ThroughputFrames),
                       Turn("pull", "throughput", ThroughputFrames),
                       Turn("ask", "teardown", 1)>>
  <1>1. first \in Seq(Plain) /\ Len(first) = 1 /\ first[1] = Turn("ask", "handshake", 1)
    BY DEF Turn, TurnSet, How, SchedulePhase, Plain
  <1>2. warm \in Seq(Plain)
    <2>1. <<1>> \in Seq(Nat) /\ \A k \in 1 .. Len(<<1>>) : Turn("ask", "warmup", <<1>>[k]) \in Plain
      BY DEF Turn, TurnSet, How, SchedulePhase, Plain
    <2> HIDE DEF Plain
    <2> QED BY <2>1, RoundsType
  <1>3. rtt \in Seq(Plain)
    <2>1. RttFrames \in Seq(Nat)
      BY SizesAssumption
    <2>2. \A k \in 1 .. Len(RttFrames) : Turn("ask", "rtt", RttFrames[k]) \in Plain
      BY SizesAssumption DEF Turn, TurnSet, How, SchedulePhase, Plain
    <2> QED BY <2>1, <2>2, RoundsType
  <1>4. exch \in Seq(Plain)
    <2>1. ExchangeFrames \in Seq(Nat)
      BY SizesAssumption
    <2>2. \A k \in 1 .. Len(ExchangeFrames) : Turn("both", "exchange", ExchangeFrames[k]) \in Plain
      BY SizesAssumption DEF Turn, TurnSet, How, SchedulePhase, Plain
    <2> QED BY <2>1, <2>2, RoundsType
  <1>5. last \in Seq(TurnSet) /\ Len(last) = 3
    BY SizesAssumption DEF Turn, TurnSet, How, SchedulePhase
  <1>6. /\ \A k \in 1 .. 3 : last[k].frames # 0 /\ last[k].how # "both"
        /\ last[1].how = "push" /\ last[2].how = "pull" /\ last[3].how = "ask"
    BY SizesAssumption DEF Turn
  <1> HIDE DEF first, warm, rtt, exch, last
  <1>7. early \in Seq(Plain) /\ Len(early) \in Nat \ {0} /\ early[1] = Turn("ask", "handshake", 1)
    <2>1. first \o warm \in Seq(Plain) /\ Len(first \o warm) \in Nat \ {0}
          /\ (first \o warm)[1] = first[1]
      BY <1>1, <1>2, ConcatProperties, LenProperties
    <2>2. first \o warm \o rtt \in Seq(Plain) /\ Len(first \o warm \o rtt) \in Nat \ {0}
          /\ (first \o warm \o rtt)[1] = first[1]
      BY <2>1, <1>3, ConcatProperties, LenProperties
    <2> QED BY <1>1, <2>2, <1>4, ConcatProperties, LenProperties
  <1>8. Turns = early \o last
    BY DEF Turns, first, warm, rtt, exch, last
  <1> HIDE DEF early
  <1>9. early \in Seq(TurnSet) /\ \A k \in 1 .. Len(early) : early[k] \in Plain
    BY <1>7, ElementOfSeq DEF Plain
  <1>10. /\ Turns \in Seq(TurnSet) /\ Len(Turns) = Len(early) + 3
         /\ \A k \in 1 .. Len(early) : Turns[k] = early[k]
         /\ \A k \in 1 .. 3 : Turns[Len(early) + k] = last[k]
    <2>1. /\ early \o last \in Seq(TurnSet) /\ Len(early \o last) = Len(early) + Len(last)
          /\ \A k \in 1 .. Len(early) + Len(last) :
               (early \o last)[k] = IF k <= Len(early) THEN early[k] ELSE last[k - Len(early)]
      BY <1>5, <1>9, ConcatProperties
    <2>2. \A k \in 1 .. Len(early) : Turns[k] = early[k]
      BY <1>5, <1>7, <1>8, <2>1
    <2>3. ASSUME NEW k \in 1 .. 3 PROVE Turns[Len(early) + k] = last[k]
      <3>1. Len(early) + k \in 1 .. Len(early) + 3 /\ Len(early) + k - Len(early) = k
            /\ ~(Len(early) + k <= Len(early))
        BY <1>7
      <3> QED BY <1>5, <1>8, <2>1, <3>1
    <2> QED BY <1>5, <1>8, <2>1, <2>2, <2>3
  <1>11. ASSUME NEW k \in 1 .. Len(Turns)
         PROVE  /\ Turns[k].frames # 0
                /\ Turns[k].how = "both" => Turns[k].frames <= Ring
                /\ Turns[k].how \in {"push", "pull"} /\ k < Len(Turns)
                     => Turns[k + 1].how # Turns[k].how
    <2>1. CASE k <= Len(early)
      BY <1>7, <1>9, <1>10, <2>1 DEF Plain
    <2>2. CASE k > Len(early)
      <3>1. PICK j \in 1 .. 3 : k = Len(early) + j
        <4>1. k - Len(early) \in 1 .. 3 /\ k = Len(early) + (k - Len(early))
          BY <1>7, <1>10, <2>2
        <4> QED BY <4>1
      <3>2. Turns[k] = last[j] /\ (j < 3 => Turns[k + 1] = last[j + 1])
        <4>1. j < 3 => j + 1 \in 1 .. 3 /\ Len(early) + (j + 1) = k + 1
          BY <1>7, <3>1
        <4> QED BY <1>10, <3>1, <4>1
      <3>3. k < Len(Turns) => j < 3
        BY <1>7, <1>10, <3>1
      <3> QED BY <1>6, <3>2, <3>3
    <2> QED BY <2>1, <2>2, <1>7
  <1>12. 1 \in 1 .. Len(early)
    BY <1>7
  <1> QED BY <1>7, <1>10, <1>11, <1>12

LEMMA TurnsType ==
  /\ Turns \in Seq(TurnSet)
  /\ Len(Turns) \in Nat \ {0}
  /\ Turns[1] = Turn("ask", "handshake", 1)
  BY TurnsShape

\* An abort inside the schedule is typed with one of its phases.
LEMMA PhaseType == CursorType => CurrentPhase \in SchedulePhase
  <1> SUFFICES ASSUME CursorType, at["C"] <= Len(Turns)
               PROVE  Turns[at["C"]].phase \in SchedulePhase
    BY DEF CurrentPhase, SchedulePhase
  <1>1. at["C"] \in 1 .. Len(Turns)
    BY TurnsType DEF CursorType, Side
  <1>2. Turns[at["C"]] \in TurnSet
    BY <1>1, TurnsType, ElementOfSeq
  <1> QED BY <1>2 DEF TurnSet

-----------------------------------------------------------------------------
\* Types. An open takes the wire of a device node the process has resolved, so
\* the type of seat needs the resolutions to be there when the open is.

Resolved ==
  /\ pc["C"] \in {"reach", "probe", "mismatch", "launch", "barrier", "open"}
       => local \in Resolution
  /\ pc["P"] = "open" => probe.dev \in Device

TypeInv == TypeOK /\ Resolved

LEMMA ResolveType ==
  ASSUME WorldType, NEW s \in Side
  PROVE  Resolve(s) \in Resolution
  BY DEF WorldType, Resolve, Resolution, Hardware

\* What an open leaves: the wire of the node opened, and an empty ring.
LEMMA OpenType ==
  ASSUME WorldType, StreamType, UNCHANGED <<held, lost>>,
         NEW s \in Side, NEW dev \in Device, OpenDevice(s, dev)
  PROVE  StreamType'
  <1>1. hw[s].attach[dev] \in Wire
    BY DEF WorldType, Hardware
  <1>2. <<>> \in Seq(Frame)
    OBVIOUS
  <1> QED BY <1>1, <1>2 DEF StreamType, OpenDevice

LEMMA CloseType ==
  ASSUME StreamType, UNCHANGED <<seat, held, lost>>, NEW s \in Side, CloseDevice(s)
  PROVE  StreamType'
  <1>1. <<>> \in Seq(Frame)
    OBVIOUS
  <1> QED BY <1>1 DEF StreamType, CloseDevice

LEMMA AdvanceType ==
  ASSUME CursorType, NEW s \in Side, Advance(s)
  PROVE  CursorType'
  BY DEF CursorType, Advance, Side

LEMMA RaiseType ==
  ASSUME PlaceType, TimerType, UNCHANGED alarm, NEW s \in Side, Raise(s)
  PROVE  PlaceType' /\ TimerType'
  BY DEF PlaceType, TimerType, Raise, Go, CoordinatorPlace, PeerPlace, Ended, Side

\* The report C takes is one the pipe held or one the barrier kept.
LEMMA LastReportType ==
  ASSUME ControlType
  PROVE  LastReport \in Report \cup {NoReport}
  <1>1. CASE Newest = {}
    BY <1>1 DEF LastReport, ControlType
  <1>2. CASE Newest # {}
    <2> DEFINE k == CHOOSE j \in Newest : TRUE
    <2>1. k \in Newest
      BY <1>2
    <2> HIDE DEF k
    <2>2. k \in 1 .. Len(pipe) /\ pipe[k].line = "report"
      BY <2>1 DEF Newest
    <2>3. pipe[k] \in Report \cup {Marker}
      BY <2>2, ElementOfSeq DEF ControlType
    <2>4. pipe[k] \in Report
      BY <2>2, <2>3 DEF Marker
    <2> QED BY <1>2, <2>4 DEF LastReport, k
  <1> QED BY <1>1, <1>2

LEMMA InitType == Init => TypeInv
  <1> SUFFICES ASSUME Init PROVE TypeInv
    OBVIOUS
  <1>1. WorldType
    BY SizesAssumption DEF Init, WorldType
  <1>2. PlaceType /\ TimerType /\ CursorType
    BY DEF Init, PlaceType, TimerType, CursorType, CoordinatorPlace, PeerPlace, Ended, Side
  <1>3. StreamType
    <2>1. <<>> \in Seq(Frame)
      OBVIOUS
    <2> QED BY <2>1 DEF Init, StreamType
  <1>4. PlanType /\ Resolved
    BY DEF Init, PlanType, Resolved, Side
  <1>5. TypingType /\ DiskType
    BY DEF Init, TypingType, DiskType, Receipt, NoReceipt
  <1>6. ControlType
    <2>1. <<>> \in Seq(Report \cup {Marker})
      OBVIOUS
    <2> QED BY <2>1 DEF Init, ControlType
  <1> QED BY <1>1, <1>2, <1>3, <1>4, <1>5, <1>6 DEF TypeInv, TypeOK

LEMMA CServeType == TypeInv /\ CServe => TypeInv'
  <1> SUFFICES ASSUME TypeInv, CServe PROVE TypeInv'
    OBVIOUS
  <1> USE DEF TypeInv, TypeOK
  <1>1. PlaceType'
    BY DEF CServe, PlaceType, Go, CoordinatorPlace, PeerPlace, Ended, Side, Skip
  <1>2. TypingType'
    BY DEF CServe, TypingType, Skip, Receipt, NoReport, typing
  <1>3. PlanType'
    BY DEF CServe, PlanType
  <1>4. Resolved'
    BY DEF CServe, Resolved, PlaceType, Go, Skip, Raise, plan, Side
  <1> QED BY <1>1, <1>2, <1>3, <1>4
             DEF CServe, WorldType, TimerType, CursorType, StreamType, ControlType, DiskType,
                 world, stream, control, disk

LEMMA CJudgeType == TypeInv /\ CJudge => TypeInv'
  <1> SUFFICES ASSUME TypeInv, CJudge PROVE TypeInv'
    OBVIOUS
  <1> USE DEF TypeInv, TypeOK
  <1>1. PlaceType'
    BY DEF CJudge, PlaceType, Go, CoordinatorPlace, PeerPlace, Ended, Side, Skip
  <1>2. TypingType'
    BY DEF CJudge, TypingType, Skip, Receipt, NoReport, typing
  <1>3. PlanType'
    BY DEF CJudge, PlanType
  <1>4. Resolved'
    BY DEF CJudge, Resolved, PlaceType, Go, Skip, Raise, plan, Side
  <1> QED BY <1>1, <1>2, <1>3, <1>4
             DEF CJudge, WorldType, TimerType, CursorType, StreamType, ControlType, DiskType,
                 world, stream, control, disk

LEMMA CResolveType == TypeInv /\ CResolve => TypeInv'
  <1> SUFFICES ASSUME TypeInv, CResolve PROVE TypeInv'
    OBVIOUS
  <1> USE DEF TypeInv, TypeOK
  <1>1. PlaceType'
    BY DEF CResolve, PlaceType, Go, CoordinatorPlace, PeerPlace, Ended, Side, Skip
  <1>2. TypingType'
    BY DEF CResolve, TypingType, Skip, Receipt, NoReport, typing
  <1>3. PlanType'
    BY ResolveType DEF CResolve, PlanType, Side
  <1>4. WorldType'
    BY DEF CResolve, WorldType
  <1>5. Resolved'
    BY ResolveType DEF CResolve, Resolved, PlaceType, Go, Skip, Raise, plan, Side, Resolution
  <1> QED BY <1>1, <1>2, <1>3, <1>4, <1>5
             DEF CResolve, TimerType, CursorType, StreamType, ControlType, DiskType, stream,
                 control, disk

LEMMA CReachType == TypeInv /\ CReach => TypeInv'
  <1> SUFFICES ASSUME TypeInv, CReach PROVE TypeInv'
    OBVIOUS
  <1> USE DEF TypeInv, TypeOK
  <1>1. PlaceType'
    BY DEF CReach, PlaceType, Go, CoordinatorPlace, PeerPlace, Ended, Side, Skip
  <1>2. TypingType'
    BY DEF CReach, TypingType, Skip, Receipt, NoReport, typing
  <1>3. Resolved'
    BY DEF CReach, Resolved, PlaceType, Go, Skip, Raise, plan, Side
  <1> QED BY <1>1, <1>2, <1>3
             DEF CReach, WorldType, TimerType, CursorType, StreamType, PlanType, ControlType,
                 DiskType, world, stream, plan, control, disk

LEMMA CProbeType == TypeInv /\ CProbe => TypeInv'
  <1> SUFFICES ASSUME TypeInv, CProbe PROVE TypeInv'
    OBVIOUS
  <1> USE DEF TypeInv, TypeOK
  <1>1. PlaceType'
    BY DEF CProbe, PlaceType, Go, CoordinatorPlace, PeerPlace, Ended, Side, Skip
  <1>2. TypingType'
    BY DEF CProbe, TypingType, Skip, Receipt, NoReport, typing
  <1>3. PlanType'
    BY ResolveType DEF CProbe, PlanType, Side
  <1>4. WorldType'
    BY DEF CProbe, WorldType
  <1>5. Resolved'
    BY ResolveType DEF CProbe, Resolved, PlaceType, Go, Skip, Raise, plan, Side, Resolution
  <1> QED BY <1>1, <1>2, <1>3, <1>4, <1>5
             DEF CProbe, TimerType, CursorType, StreamType, ControlType, DiskType, stream,
                 control, disk

LEMMA CMismatchType == TypeInv /\ CMismatch => TypeInv'
  <1> SUFFICES ASSUME TypeInv, CMismatch PROVE TypeInv'
    OBVIOUS
  <1> USE DEF TypeInv, TypeOK
  <1>1. PlaceType'
    BY DEF CMismatch, PlaceType, Go, CoordinatorPlace, PeerPlace, Ended, Side, Skip
  <1>2. TypingType'
    BY DEF CMismatch, TypingType, Skip, Receipt, NoReport, typing
  <1>3. Resolved'
    BY DEF CMismatch, Resolved, PlaceType, Go, Skip, Raise, plan, Side
  <1> QED BY <1>1, <1>2, <1>3
             DEF CMismatch, WorldType, TimerType, CursorType, StreamType, PlanType, ControlType,
                 DiskType, world, stream, plan, control, disk

LEMMA CLaunchType == TypeInv /\ CLaunch => TypeInv'
  <1> SUFFICES ASSUME TypeInv, CLaunch PROVE TypeInv'
    OBVIOUS
  <1> USE DEF TypeInv, TypeOK
  <1>1. PlaceType'
    BY DEF CLaunch, PlaceType, Go, CoordinatorPlace, PeerPlace, Ended, Side, Raise
  <1>2. TimerType'
    BY DEF CLaunch, TimerType, Raise, Arm, Side
  <1>3. TypingType'
    BY DEF CLaunch, TypingType
  <1>4. ControlType'
    BY DEF CLaunch, ControlType
  <1>5. Resolved'
    BY DEF CLaunch, Resolved, PlaceType, Go, Skip, Raise, plan, Side
  <1> QED BY <1>1, <1>2, <1>3, <1>4, <1>5
             DEF CLaunch, WorldType, CursorType, StreamType, PlanType, DiskType, world, stream,
                 plan, disk

LEMMA CBarrierType == TypeInv /\ CBarrier => TypeInv'
  <1> SUFFICES ASSUME TypeInv, CBarrier PROVE TypeInv'
    OBVIOUS
  <1> USE DEF TypeInv, TypeOK
  <1>1. PlaceType'
    BY DEF CBarrier, PlaceType, Go, CoordinatorPlace, PeerPlace, Ended, Side, Raise
  <1>2. TimerType'
    BY DEF CBarrier, TimerType, Raise, Arm, Side
  <1>3. TypingType'
    BY DEF CBarrier, TypingType
  <1>4. ControlType'
    BY DEF CBarrier, ControlType
  <1>5. Resolved'
    BY DEF CBarrier, Resolved, PlaceType, Go, Skip, Raise, plan, Side
  <1> QED BY <1>1, <1>2, <1>3, <1>4, <1>5
             DEF CBarrier, WorldType, CursorType, StreamType, PlanType, DiskType, world, stream,
                 plan, disk

LEMMA COpenType == TypeInv /\ COpen => TypeInv'
  <1> SUFFICES ASSUME TypeInv, COpen PROVE TypeInv'
    OBVIOUS
  <1> USE DEF TypeInv, TypeOK
  <1>1. PlaceType'
    BY DEF COpen, OpenDevice, OpenRaises, PlaceType, Go, CoordinatorPlace, PeerPlace, Ended,
           Side, Raise
  <1>2. TimerType'
    BY DEF COpen, OpenRaises, TimerType, Raise, Arm, Side
  <1>3. TypingType'
    BY DEF COpen, TypingType
  <1>4. StreamType'
    <2>1. CASE pc["C"] = "open" /\ OpenDevice("C", local.dev) /\ UNCHANGED held
      BY <2>1, OpenType DEF COpen, Resolution, Resolved, Side
    <2>2. CASE held' = [held EXCEPT !["C"] = TRUE] /\ UNCHANGED <<seat, up, q>>
      BY <2>2 DEF COpen, StreamType, Side
    <2>3. CASE UNCHANGED <<seat, up, held, q>>
      BY <2>3 DEF COpen, StreamType
    <2> QED BY <2>1, <2>2, <2>3 DEF COpen
  <1>5. Resolved'
    BY DEF COpen, OpenDevice, OpenRaises, Resolved, PlaceType, Go, Skip, Raise, plan, Side
  <1> QED BY <1>1, <1>2, <1>3, <1>4, <1>5
             DEF COpen, WorldType, CursorType, PlanType, ControlType, DiskType, world, plan,
                 control, disk

LEMMA PResolveType == TypeInv /\ PResolve => TypeInv'
  <1> SUFFICES ASSUME TypeInv, PResolve PROVE TypeInv'
    OBVIOUS
  <1> USE DEF TypeInv, TypeOK
  <1>1. PlaceType'
    BY DEF PResolve, PIdle, PlaceType, Go, CoordinatorPlace, PeerPlace, Ended, Side, Raise
  <1>2. TimerType'
    BY DEF PResolve, PIdle, TimerType, Raise, Arm, Side
  <1>3. Resolved'
    BY ResolveType
       DEF PResolve, PIdle, Resolved, PlaceType, Go, Skip, Raise, plan, Side, Resolution
  <1> QED BY <1>1, <1>2, <1>3
             DEF PResolve, PIdle, WorldType, CursorType, StreamType, PlanType, TypingType,
                 ControlType, DiskType, world, stream, plan, typing, control, disk

LEMMA POpenType == TypeInv /\ POpen => TypeInv'
  <1> SUFFICES ASSUME TypeInv, POpen PROVE TypeInv'
    OBVIOUS
  <1> USE DEF TypeInv, TypeOK
  <1>1. PlaceType'
    BY DEF POpen, PIdle, OpenDevice, OpenRaises, PlaceType, Go, CoordinatorPlace, PeerPlace,
           Ended, Side, Raise
  <1>2. TimerType'
    BY DEF POpen, PIdle, OpenRaises, TimerType, Raise, Arm, Side
  <1>3. StreamType'
    <2>1. CASE pc["P"] = "open" /\ OpenDevice("P", probe.dev) /\ UNCHANGED held
      BY <2>1, OpenType DEF POpen, Resolved, Side
    <2>2. CASE held' = [held EXCEPT !["P"] = TRUE] /\ UNCHANGED <<seat, up, q>>
      BY <2>2 DEF POpen, StreamType, Side
    <2>3. CASE UNCHANGED <<seat, up, held, q>>
      BY <2>3 DEF POpen, StreamType
    <2> QED BY <2>1, <2>2, <2>3 DEF POpen
  <1>4. Resolved'
    BY DEF POpen, PIdle, OpenDevice, OpenRaises, Resolved, PlaceType, Go, Skip, Raise, plan, Side
  <1> QED BY <1>1, <1>2, <1>3, <1>4
             DEF POpen, PIdle, WorldType, CursorType, PlanType, TypingType, ControlType,
                 DiskType, world, plan, typing, control, disk

LEMMA PMarkerType == TypeInv /\ PMarker => TypeInv'
  <1> SUFFICES ASSUME TypeInv, PMarker PROVE TypeInv'
    OBVIOUS
  <1> USE DEF TypeInv, TypeOK
  <1>1. PlaceType'
    BY DEF PMarker, PIdle, PlaceType, Go, CoordinatorPlace, PeerPlace, Ended, Side, Raise
  <1>2. TimerType'
    BY DEF PMarker, PIdle, TimerType, Raise, Arm, Side
  <1>3. ControlType'
    <2>1. Append(pipe, Marker) \in Seq(Report \cup {Marker})
      BY DEF ControlType
    <2> QED BY <2>1 DEF PMarker, ControlType
  <1>4. Resolved'
    BY DEF PMarker, PIdle, Resolved, PlaceType, Go, Raise, plan, Side
  <1> QED BY <1>1, <1>2, <1>3, <1>4
             DEF PMarker, PIdle, WorldType, CursorType, StreamType, PlanType, TypingType,
                 DiskType, world, stream, plan, typing, disk

LEMMA PReportType == TypeInv /\ PReport => TypeInv'
  <1> SUFFICES ASSUME TypeInv, PReport PROVE TypeInv'
    OBVIOUS
  <1> USE DEF TypeInv, TypeOK
  <1>1. PlaceType'
    BY DEF PReport, PlaceType, Go, PeerPlace, Side
  <1>2. ControlType'
    <2> DEFINE r == [line |-> "report", outcome |-> IF failed["P"] THEN "aborted" ELSE "ok",
                     opens |-> IF held["P"] THEN 1 ELSE 0]
    <2>1. r \in Report
      BY DEF Report
    <2> HIDE DEF r
    <2>2. Append(pipe, r) \in Seq(Report \cup {Marker})
      BY <2>1 DEF ControlType
    <2>3. pipe' = IF ssh THEN Append(pipe, r) ELSE pipe
      BY DEF PReport, r
    <2> QED BY <2>2, <2>3 DEF PReport, ControlType
  <1>3. Resolved'
    BY DEF PReport, PIdle, Resolved, PlaceType, Go, plan, Side
  <1>4. StreamType'
    BY CloseType DEF PReport, Side
  <1> QED BY <1>1, <1>2, <1>3, <1>4 DEF PReport, PIdle, WorldType, TimerType, CursorType,
             PlanType, TypingType, DiskType, world, plan, typing, disk

LEMMA CReapType == TypeInv /\ CReap => TypeInv'
  <1> SUFFICES ASSUME TypeInv, CReap PROVE TypeInv'
    OBVIOUS
  <1> USE DEF TypeInv, TypeOK
  <1>1. PlaceType'
    BY DEF CReap, PlaceType, Go, CoordinatorPlace, Side
  <1>2. TypingType'
    <2>1. LastReport \in Report \cup {NoReport}
      BY LastReportType
    <2>2. phase \in {"none", "startup", "peer-open-barrier", "open", "peer"} \cup SchedulePhase
      BY DEF TypingType
    <2>3. verdict' \in Receipt
      BY <2>1, <2>2 DEF CReap, Outcome, Receipt, Report, NoReport
    <2> QED BY <2>3 DEF CReap, TypingType
  <1>3. ControlType'
    BY DEF CReap, ControlType
  <1>4. Resolved'
    BY DEF CReap, Resolved, PlaceType, Go, plan, Side
  <1> QED BY <1>1, <1>2, <1>3, <1>4 DEF CReap, WorldType, TimerType, CursorType, StreamType,
             PlanType, DiskType, world, stream, plan, disk

LEMMA CWriteType == TypeInv /\ CWrite => TypeInv'
  <1> SUFFICES ASSUME TypeInv, CWrite PROVE TypeInv'
    OBVIOUS
  <1> USE DEF TypeInv, TypeOK
  <1>1. PlaceType'
    BY DEF CWrite, PlaceType, Go, CoordinatorPlace, Ended, Side
  <1>2. DiskType'
    BY DEF CWrite, DiskType, TypingType, Torn, Receipt
  <1>3. Resolved'
    BY DEF CWrite, Resolved, PlaceType, Go, plan, Side
  <1>4. StreamType'
    <2>1. CASE UNCHANGED <<up, q>>
      BY <2>1 DEF CWrite, StreamType
    <2>2. CASE CloseDevice("C")
      BY <2>2, CloseType DEF CWrite, Side
    <2> QED BY <2>1, <2>2 DEF CWrite
  <1> QED BY <1>1, <1>2, <1>3, <1>4 DEF CWrite, WorldType, TimerType, CursorType,
             PlanType, TypingType, ControlType, world, plan, typing, control

LEMMA CStartType == TypeInv /\ CStart => TypeInv'
  <1> SUFFICES ASSUME TypeInv, CStart PROVE TypeInv'
    OBVIOUS
  <1> USE DEF TypeInv, TypeOK
  <1>1. WorldType' /\ DiskType'
    BY DEF CStart, FreshRun, WorldType, DiskType, world
  <1>2. CASE receipt # NoReceipt /\ Go("C", "exit")
             /\ UNCHANGED <<moved, alarm, at, half, done, failed, stream, plan, typing, control>>
    <2>1. PlaceType'
      BY <1>2 DEF PlaceType, Go, CoordinatorPlace, Ended, Side
    <2>2. Resolved'
      BY <1>2 DEF Resolved, PlaceType, Go, plan, Side
    <2> QED BY <1>1, <1>2, <2>1, <2>2 DEF TimerType, CursorType, StreamType,
               PlanType, TypingType, ControlType, stream, plan, typing, control
  <1>3. CASE FreshRun
    <2>1. PlaceType' /\ TimerType' /\ CursorType' /\ Resolved'
      BY <1>3
         DEF FreshRun, PlaceType, TimerType, CursorType, Resolved, CoordinatorPlace, PeerPlace,
             Side
    <2>2. StreamType'
      <3>1. <<>> \in Seq(Frame)
        OBVIOUS
      <3> QED BY <1>3, <3>1 DEF FreshRun, StreamType
    <2>3. PlanType'
      BY <1>3 DEF FreshRun, PlanType
    <2>4. TypingType'
      BY <1>3 DEF FreshRun, TypingType, Receipt, NoReceipt
    <2>5. ControlType'
      <3>1. <<>> \in Seq(Report \cup {Marker})
        OBVIOUS
      <3> QED BY <1>3, <3>1 DEF FreshRun, ControlType
    <2> QED BY <1>1, <2>1, <2>2, <2>3, <2>4, <2>5
  <1> QED BY <1>2, <1>3 DEF CStart

\* A frame written or read leaves the rings sequences of frames.
LEMMA WriteFrameType ==
  ASSUME TypeInv, NEW s \in Side, WriteFrame(s)
  PROVE  TypeInv'
  <1> USE DEF TypeInv, TypeOK
  <1>1. PlaceType' /\ TimerType'
    BY RaiseType DEF WriteFrame, RaiseInSchedule, PlaceType, TimerType
  <1>2. CursorType'
    BY AdvanceType DEF WriteFrame, RaiseInSchedule, CursorType
  <1>3. StreamType'
    <2>1. <<at[s], done[s]>> \in Frame
      BY DEF CursorType, Frame, Side
    <2>2. Append(q[Other(s)], <<at[s], done[s]>>) \in Seq(Frame)
      BY <2>1 DEF StreamType, Other, Side
    <2> QED BY <2>2 DEF WriteFrame, RaiseInSchedule, StreamType
  <1>4. TypingType'
    BY PhaseType DEF WriteFrame, RaiseInSchedule, TypingType
  <1>5. Resolved'
    BY DEF WriteFrame, RaiseInSchedule, Raise, Go, Resolved, PlaceType, plan, Side
  <1> QED BY <1>1, <1>2, <1>3, <1>4, <1>5
             DEF WriteFrame, WorldType, PlanType, ControlType, DiskType, world, plan, control,
                 disk

LEMMA ReadFrameType ==
  ASSUME TypeInv, NEW s \in Side, ReadFrame(s)
  PROVE  TypeInv'
  <1> USE DEF TypeInv, TypeOK
  <1>1. PlaceType' /\ TimerType'
    BY RaiseType DEF ReadFrame, RaiseInSchedule, PlaceType, TimerType
  <1>2. CursorType'
    BY AdvanceType DEF ReadFrame, RaiseInSchedule, CursorType
  <1>3. StreamType'
    <2>1. q[s] # <<>> => Tail(q[s]) \in Seq(Frame)
      BY DEF StreamType
    <2> QED BY <2>1 DEF ReadFrame, RaiseInSchedule, StreamType
  <1>4. TypingType'
    BY PhaseType DEF ReadFrame, RaiseInSchedule, TypingType
  <1>5. Resolved'
    BY DEF ReadFrame, RaiseInSchedule, Raise, Go, Resolved, PlaceType, plan, Side
  <1> QED BY <1>1, <1>2, <1>3, <1>4, <1>5
             DEF ReadFrame, WorldType, PlanType, ControlType, DiskType, world, plan, control,
                 disk

LEMMA FinishType ==
  ASSUME TypeInv, NEW s \in Side, Finish(s)
  PROVE  TypeInv'
  <1> USE DEF TypeInv, TypeOK
  <1>1. PlaceType'
    BY DEF Finish, PlaceType, Go, CoordinatorPlace, PeerPlace, Side
  <1>2. Resolved'
    BY DEF Finish, Go, Resolved, PlaceType, plan, Side
  <1> QED BY <1>1, <1>2
             DEF Finish, WorldType, TimerType, CursorType, StreamType, PlanType, TypingType,
                 ControlType, DiskType, world, stream, plan, typing, control, disk

LEMMA LeaveType ==
  ASSUME TypeInv, NEW s \in Side, Leave(s)
  PROVE  TypeInv'
  <1> USE DEF TypeInv, TypeOK
  <1>1. CASE GlobalAlarm(s)
    <2>1. PlaceType' /\ TimerType' /\ Resolved'
      BY <1>1 DEF GlobalAlarm, RaiseInSchedule, Raise, Go, Arm, PlaceType, TimerType, Resolved,
                  CoordinatorPlace, PeerPlace, plan, Side
    <2>2. TypingType'
      BY <1>1, PhaseType DEF GlobalAlarm, RaiseInSchedule, TypingType
    <2> QED BY <1>1, <2>1, <2>2
               DEF GlobalAlarm, RaiseInSchedule, WorldType, CursorType, StreamType, PlanType,
                   ControlType, DiskType, world, plan, control, disk
  <1>2. CASE LateAlarm(s)
    <2>1. PlaceType' /\ TimerType' /\ Resolved'
      BY <1>2
         DEF LateAlarm, Go, Arm, PlaceType, TimerType, Resolved, CoordinatorPlace, PeerPlace,
             Ended, plan, Side
    <2>2. StreamType'
      BY <1>2, CloseType DEF LateAlarm
    <2> QED BY <1>2, <2>1, <2>2 DEF LateAlarm, WorldType, CursorType, PlanType, TypingType,
               ControlType, DiskType, world, plan, typing, control, disk
  <1>3. CASE Settle(s)
    <2>1. PlaceType' /\ TimerType' /\ Resolved'
      BY <1>3
         DEF Settle, Go, Arm, PlaceType, TimerType, Resolved, CoordinatorPlace, PeerPlace, plan,
             Side
    <2>2. StreamType'
      <3>1. CASE CloseDevice(s)
        BY <1>3, <3>1, CloseType DEF Settle
      <3>2. CASE UNCHANGED <<up, q>>
        BY <1>3, <3>2 DEF Settle, StreamType
      <3> QED BY <1>3, <3>1, <3>2 DEF Settle
    <2>3. ControlType'
      BY <1>3 DEF Settle, ControlType
    <2> QED BY <1>3, <2>1, <2>2, <2>3 DEF Settle, WorldType, CursorType, PlanType, TypingType,
               DiskType, world, plan, typing, disk
  <1> QED BY <1>1, <1>2, <1>3 DEF Leave

LEMMA EnvironmentType == TypeInv /\ Environment => TypeInv'
  <1> SUFFICES ASSUME TypeInv, Environment PROVE TypeInv'
    OBVIOUS
  <1> USE DEF TypeInv, TypeOK
  <1>1. ASSUME NEW s \in Side, Move(s) PROVE TypeInv'
    <2>1. WorldType'
      BY <1>1 DEF Move, WorldType
    <2>2. Resolved'
      BY <1>1 DEF Move, Resolved, procs, plan
    <2> QED BY <1>1, <2>1, <2>2
               DEF Move, PlaceType, TimerType, CursorType, StreamType, PlanType, TypingType,
                   ControlType, DiskType, procs, stream, plan, typing, control, disk
  <1>2. CASE SshDrops
    <2>1. ControlType'
      BY <1>2 DEF SshDrops, ControlType
    <2>2. Resolved'
      BY <1>2 DEF SshDrops, Resolved, procs, plan
    <2> QED BY <1>2, <2>1, <2>2
               DEF SshDrops, WorldType, PlaceType, TimerType, CursorType, StreamType, PlanType,
                   TypingType, DiskType, world, procs, stream, plan, typing, disk
  <1>3. ASSUME NEW s \in Side, Killed(s) PROVE TypeInv'
    <2>1. PlaceType' /\ TimerType' /\ Resolved'
      BY <1>3
         DEF Killed, Go, Arm, PlaceType, TimerType, Resolved, CoordinatorPlace, PeerPlace, Ended,
             plan, Side
    <2>2. StreamType'
      BY <1>3, CloseType DEF Killed, Side
    <2> QED BY <1>3, <2>1, <2>2 DEF Killed, WorldType, CursorType, PlanType, TypingType,
               ControlType, DiskType, world, plan, typing, control, disk
  <1> QED BY <1>1, <1>2, <1>3, CStartType DEF Environment

LEMMA StutterType == TypeInv /\ UNCHANGED vars => TypeInv'
  BY DEF TypeInv, TypeOK, WorldType, PlaceType, TimerType, CursorType, StreamType, PlanType,
         TypingType, ControlType, DiskType, Resolved, vars, world, procs, stream, plan, typing,
         control, disk

LEMMA StepType == TypeInv /\ [Next]_vars => TypeInv'
  <1> SUFFICES ASSUME TypeInv, [Next]_vars PROVE TypeInv'
    OBVIOUS
  <1>1. ASSUME NEW s \in Side, Schedule(s) PROVE TypeInv'
    BY <1>1, WriteFrameType, ReadFrameType, FinishType DEF Schedule
  <1>2. CASE Coordinator
    BY <1>1, <1>2, LeaveType, CServeType, CJudgeType, CResolveType, CReachType, CProbeType,
       CMismatchType, CLaunchType, CBarrierType, COpenType, CReapType, CWriteType
       DEF Coordinator, Side
  <1>3. CASE Peer
    BY <1>1, <1>3, LeaveType, PResolveType, POpenType, PMarkerType, PReportType DEF Peer, Side
  <1> QED BY <1>2, <1>3, EnvironmentType, StutterType DEF Next

\* Every receipt, line and place stays one the run can be in, whatever the
\* schedule: in particular the open always names a device that was resolved.
THEOREM TypeCorrect == Spec => []TypeOK
  <1>1. TypeInv => TypeOK
    BY DEF TypeInv
  <1> QED BY <1>1, InitType, StepType, PTL DEF Spec

-----------------------------------------------------------------------------
\* The open barrier, as a chain of facts: the marker is evidence of the peer's
\* open; the coordinator opens on that evidence alone; and the peer, which
\* opens first, only writes once it has read something the coordinator wrote.

BeforeLaunch == {"serve", "judge", "resolve", "reach", "probe", "mismatch", "launch"}

AtStart(s) == at[s] = 1 /\ half[s] = 1 /\ done[s] = 0

MarkerIsEvidence ==
  /\ pc["P"] \in {"opened", "marker", "sched"} => seat["P"] # NoWire
  /\ \A k \in 1 .. Len(pipe) : pipe[k] = Marker => seat["P"] # NoWire
  /\ pc["C"] \in {"open", "opened", "sched"} => seat["P"] # NoWire

PeerSpeaksSecond ==
  /\ pc["C"] \in BeforeLaunch => pc["P"] = "none"
  /\ pc["P"] \in {"none", "resolve", "open", "opened", "marker"} => AtStart("P")
  /\ pc["C"] \in {"opened", "sched"} => seat["C"] # NoWire
  /\ q["P"] # <<>> => seat["C"] # NoWire
  /\ pc["P"] = "sched" /\ seat["C"] = NoWire => AtStart("P")

OrderInv == MarkerIsEvidence /\ PeerSpeaksSecond /\ NoEarlyLoss

\* What a verdict about to be banked, or a receipt banked, says of the opens.
Quiet == pc["P"] = "none" /\ \A s \in Side : seat[s] = NoWire
EarlyPhase == {"startup", "peer-open-barrier"}
Early(r) == r.outcome = "aborted" /\ r.phase \in EarlyPhase
Late(r) == r.outcome = "aborted" /\ r.phase \in SchedulePhase \cup {"peer"}

HonestInv ==
  /\ pc["C"] \in BeforeLaunch => Quiet
  /\ pc["C"] \in BeforeLaunch \cup {"barrier", "open"} => seat["C"] = NoWire
  /\ pc["C"] \in {"opened", "sched"} => seat["C"] # NoWire
  /\ pc["C"] \in {"unwind", "reap"} /\ failed["C"] /\ phase \in EarlyPhase
       => seat["C"] = NoWire
  /\ pc["C"] \in {"unwind", "reap"} /\ (failed["C"] => phase \in SchedulePhase)
       => seat["C"] # NoWire
  /\ pc["C"] \in BeforeLaunch \cup {"barrier", "open", "opened", "sched"} => ~failed["C"]
  /\ verdict.outcome = "skipped" => Quiet /\ pc["C"] \in Ended \cup {"write", "writing"}
  /\ Early(verdict) => seat["C"] = NoWire /\ pc["C"] \in Ended \cup {"write", "writing"}
  /\ Late(verdict) => seat["C"] # NoWire /\ pc["C"] \in Ended \cup {"write", "writing"}
  /\ receipt.outcome = "skipped" => Quiet /\ pc["C"] \in Ended
  /\ Early(receipt) => seat["C"] = NoWire /\ pc["C"] \in Ended
  /\ Late(receipt) => seat["C"] # NoWire /\ pc["C"] \in Ended

-----------------------------------------------------------------------------
\* The order of the opens.

USE DEF Side, Other, Go, TypeInv, TypeOK, PlaceType, CursorType, StreamType, ControlType,
        world, procs, stream, plan, typing, control, disk, BeforeLaunch

\* An open leaves the side on a wire, whatever the hardware has done since.
LEMMA OpenSeats ==
  ASSUME WorldType, StreamType, NEW s \in Side, NEW dev \in Device, OpenDevice(s, dev)
  PROVE  seat'[s] # NoWire /\ \A r \in Side : r # s => seat'[r] = seat[r] /\ q'[r] = q[r]
  BY SizesAssumption DEF OpenDevice, WorldType, Hardware

\* The peer's first move is a read.
LEMMA PeerListensFirst ==
  ASSUME AtStart("P")
  PROVE  Doing("P") = "read"
  BY TurnsType DEF Doing, Halves, PeerHalves, Turn, AtStart

LEMMA InitOrder == Init => OrderInv
  BY DEF Init, OrderInv, MarkerIsEvidence, PeerSpeaksSecond, NoEarlyLoss, AtStart

\* Up to the launch, and in its accounting, the coordinator moves nothing that
\* the order of the opens depends on.
LEMMA PlanningOrder ==
  TypeInv /\ OrderInv /\ (CServe \/ CJudge \/ CResolve \/ CReach \/ CProbe \/ CMismatch \/ CReap \/ CWrite)
    => OrderInv'
  <1> SUFFICES ASSUME TypeInv, OrderInv,
                      CServe \/ CJudge \/ CResolve \/ CReach \/ CProbe \/ CMismatch \/ CReap \/ CWrite
               PROVE  OrderInv'
    OBVIOUS
  <1> USE DEF OrderInv, MarkerIsEvidence, PeerSpeaksSecond, NoEarlyLoss, AtStart
  <1>1. CASE CServe
    BY <1>1 DEF CServe, Skip
  <1>2. CASE CJudge
    BY <1>2 DEF CJudge, Skip
  <1>3. CASE CResolve
    BY <1>3 DEF CResolve, Skip
  <1>4. CASE CReach
    BY <1>4 DEF CReach, Skip
  <1>5. CASE CProbe
    BY <1>5 DEF CProbe, Skip
  <1>6. CASE CMismatch
    BY <1>6 DEF CMismatch, Skip
  <1>7. CASE CReap
    BY <1>7 DEF CReap
  <1>8. CASE CWrite
    BY <1>8 DEF CWrite, CloseDevice
  <1> QED BY <1>1, <1>2, <1>3, <1>4, <1>5, <1>6, <1>7, <1>8

LEMMA CLaunchOrder == TypeInv /\ OrderInv /\ CLaunch => OrderInv'
  BY DEF CLaunch, Raise, OrderInv, MarkerIsEvidence, PeerSpeaksSecond, NoEarlyLoss, AtStart

\* The barrier lets the coordinator through on the marker alone.
LEMMA CBarrierOrder == TypeInv /\ OrderInv /\ CBarrier => OrderInv'
  <1> SUFFICES ASSUME TypeInv, OrderInv, CBarrier PROVE OrderInv'
    OBVIOUS
  <1> USE DEF OrderInv, MarkerIsEvidence
  <1>1. pipe # <<>> =>
          /\ Head(pipe) = pipe[1] /\ 1 \in 1 .. Len(pipe)
          /\ Tail(pipe) \in Seq(Report \cup {Marker})
          /\ \A k \in 1 .. Len(Tail(pipe)) : k + 1 \in 1 .. Len(pipe) /\ Tail(pipe)[k] = pipe[k + 1]
    OBVIOUS
  <1>2. MarkerIsEvidence'
    <2>1. UNCHANGED seat
      BY DEF CBarrier
    <2>2. \A k \in 1 .. Len(pipe') : pipe'[k] = Marker => seat["P"] # NoWire
      <3>1. pipe' = pipe \/ (pipe # <<>> /\ pipe' = Tail(pipe))
        BY DEF CBarrier
      <3>2. CASE pipe' = pipe
        BY <3>2
      <3>3. CASE pipe # <<>> /\ pipe' = Tail(pipe)
        <4>1. \A k \in 1 .. Len(pipe) : pipe[k] = Marker => seat["P"] # NoWire
          OBVIOUS
        <4>2. \A k \in 1 .. Len(pipe') : k + 1 \in 1 .. Len(pipe) /\ pipe'[k] = pipe[k + 1]
          BY ONLY <1>1, <3>3
        <4> QED BY ONLY <4>1, <4>2
      <3> QED BY <3>1, <3>2, <3>3
    <2>3. pc'["P"] = pc["P"] /\ (pc'["C"] \in {"open", "opened", "sched"} => seat["P"] # NoWire)
      BY <1>1 DEF CBarrier, Raise
    <2> QED BY <2>1, <2>2, <2>3
  <1>3. PeerSpeaksSecond' /\ NoEarlyLoss'
    BY <1>1 DEF CBarrier, Raise, PeerSpeaksSecond, NoEarlyLoss, AtStart
  <1> QED BY <1>2, <1>3

LEMMA COpenOrder == TypeInv /\ OrderInv /\ COpen => OrderInv'
  <1> SUFFICES ASSUME TypeInv, OrderInv, COpen PROVE OrderInv'
    OBVIOUS
  <1>2. CASE OpenDevice("C", local.dev)
    <2>1. pc["C"] = "open" /\ pc' = [pc EXCEPT !["C"] = "opened"]
      BY <1>2 DEF COpen, OpenDevice, OpenRaises, Raise
    <2>2. local.dev \in Device
      BY <2>1 DEF Resolved, Resolution
    <2>3. seat'["C"] # NoWire /\ seat'["P"] = seat["P"] /\ q'["P"] = q["P"]
      BY <1>2, <2>2, OpenSeats
    <2> QED BY <2>1, <2>3
               DEF COpen, OrderInv, MarkerIsEvidence, PeerSpeaksSecond, NoEarlyLoss, AtStart
  <1>3. CASE ~OpenDevice("C", local.dev)
    BY <1>3 DEF COpen, OpenRaises, Raise, OrderInv, MarkerIsEvidence, PeerSpeaksSecond,
                NoEarlyLoss, AtStart
  <1> QED BY <1>2, <1>3

LEMMA PeerOrder == TypeInv /\ OrderInv /\ (PResolve \/ POpen \/ PMarker \/ PReport) => OrderInv'
  <1> SUFFICES ASSUME TypeInv, OrderInv, PResolve \/ POpen \/ PMarker \/ PReport
               PROVE  OrderInv'
    OBVIOUS
  <1> USE DEF OrderInv, MarkerIsEvidence, PeerSpeaksSecond, NoEarlyLoss, AtStart
  <1>1. CASE PResolve
    BY <1>1 DEF PResolve, PIdle, Raise
  <1>2. CASE POpen
    <2>2. CASE OpenDevice("P", probe.dev)
      <3>2. pc["P"] = "open" /\ pc' = [pc EXCEPT !["P"] = "opened"]
        BY <1>2, <2>2 DEF POpen, OpenDevice, OpenRaises, Raise
      <3>3. probe.dev \in Device
        BY <3>2 DEF Resolved
      <3>1. seat'["P"] # NoWire /\ seat'["C"] = seat["C"] /\ q'["P"] = <<>>
        BY <2>2, <3>3, OpenSeats DEF OpenDevice
      <3> QED BY <1>2, <3>1, <3>2 DEF POpen, PIdle
    <2>3. CASE ~OpenDevice("P", probe.dev)
      BY <1>2, <2>3 DEF POpen, PIdle, OpenRaises, Raise
    <2> QED BY <2>2, <2>3
  <1>3. CASE PMarker
    <2>1. \A k \in 1 .. Len(pipe') : pipe'[k] = Marker => seat["P"] # NoWire
      BY <1>3 DEF PMarker
    <2> QED BY <1>3, <2>1 DEF PMarker, PIdle, Raise
  <1>4. CASE PReport
    <2> DEFINE r == [line |-> "report", outcome |-> IF failed["P"] THEN "aborted" ELSE "ok",
                     opens |-> IF held["P"] THEN 1 ELSE 0]
    <2>1. r # Marker
      BY DEF Marker
    <2> HIDE DEF r
    <2>2. pipe' = IF ssh THEN Append(pipe, r) ELSE pipe
      BY <1>4 DEF PReport, r
    <2>3. \A k \in 1 .. Len(pipe') : pipe'[k] = Marker => seat["P"] # NoWire
      BY <2>1, <2>2
    <2> QED BY <1>4, <2>3 DEF PReport, PIdle, CloseDevice
  <1> QED BY <1>1, <1>2, <1>3, <1>4

\* A frame is written to a far side that has opened, the coordinator's by the
\* barrier and the peer's because it has read before.
LEMMA WriteFrameOrder ==
  ASSUME TypeInv, OrderInv, NEW s \in Side, WriteFrame(s)
  PROVE  OrderInv'
  <1> USE DEF OrderInv, MarkerIsEvidence, PeerSpeaksSecond
  <1>1. seat[Other(s)] # NoWire
    <2>1. CASE s = "C"
      BY <2>1 DEF WriteFrame, InSchedule
    <2>2. CASE s = "P"
      BY <2>2, PeerListensFirst DEF WriteFrame, InSchedule
    <2> QED BY <2>1, <2>2
  <1>2. NoEarlyLoss'
    BY <1>1 DEF WriteFrame, FarEnd, NoEarlyLoss, RaiseInSchedule
  <1>3. MarkerIsEvidence'
    BY DEF WriteFrame, InSchedule, RaiseInSchedule, Raise
  <1>4. PeerSpeaksSecond'
    <2>1. CASE s = "C"
      BY <2>1 DEF WriteFrame, InSchedule, RaiseInSchedule, Raise, Advance, AtStart
    <2>2. CASE s = "P"
      BY <1>1, <2>2 DEF WriteFrame, InSchedule, RaiseInSchedule, Raise, Advance, AtStart
    <2> QED BY <2>1, <2>2
  <1> QED BY <1>2, <1>3, <1>4

LEMMA ReadFrameOrder ==
  ASSUME TypeInv, OrderInv, NEW s \in Side, ReadFrame(s)
  PROVE  OrderInv'
  <1> USE DEF OrderInv, MarkerIsEvidence, PeerSpeaksSecond
  <1>1. NoEarlyLoss'
    BY DEF ReadFrame, NoEarlyLoss, RaiseInSchedule
  <1>2. MarkerIsEvidence'
    BY DEF ReadFrame, InSchedule, RaiseInSchedule, Raise
  <1>3. PeerSpeaksSecond'
    <2>1. CASE s = "C"
      BY <2>1 DEF ReadFrame, InSchedule, RaiseInSchedule, Raise, Advance, AtStart
    <2>2. CASE s = "P" /\ q["P"] # <<>>
      BY <2>2 DEF ReadFrame, InSchedule, RaiseInSchedule, Raise, Advance, AtStart
    <2>3. CASE s = "P" /\ q["P"] = <<>>
      BY <2>3 DEF ReadFrame, InSchedule, RaiseInSchedule, Raise, Advance, AtStart
    <2> QED BY <2>1, <2>2, <2>3
  <1> QED BY <1>1, <1>2, <1>3

LEMMA LeaveOrder ==
  ASSUME TypeInv, OrderInv, NEW s \in Side, Finish(s) \/ Leave(s)
  PROVE  OrderInv'
  <1> USE DEF OrderInv, MarkerIsEvidence, PeerSpeaksSecond, NoEarlyLoss, AtStart
  <1>1. CASE Finish(s)
    BY <1>1 DEF Finish
  <1>2. CASE GlobalAlarm(s)
    BY <1>2 DEF GlobalAlarm, RaiseInSchedule, Raise
  <1>3. CASE LateAlarm(s)
    BY <1>3 DEF LateAlarm, CloseDevice, Ended
  <1>4. CASE Settle(s)
    BY <1>4 DEF Settle, CloseDevice
  <1> QED BY <1>1, <1>2, <1>3, <1>4 DEF Leave

LEMMA EnvironmentOrder == TypeInv /\ OrderInv /\ Environment => OrderInv'
  <1> SUFFICES ASSUME TypeInv, OrderInv, Environment PROVE OrderInv'
    OBVIOUS
  <1> USE DEF OrderInv, MarkerIsEvidence, PeerSpeaksSecond, NoEarlyLoss, AtStart
  <1>1. CASE CStart
    BY <1>1 DEF CStart, FreshRun, MayStart, Ended
  <1>2. CASE \E s \in Side : Move(s)
    <2>1. UNCHANGED <<procs, stream, plan, typing, control, disk>>
      BY <1>2 DEF Move
    <2> QED BY <2>1
  <1>3. CASE SshDrops
    BY <1>3 DEF SshDrops
  <1>4. ASSUME NEW s \in Side, Killed(s) PROVE OrderInv'
    BY <1>4 DEF Killed, CloseDevice, Ended
  <1> QED BY <1>1, <1>2, <1>3, <1>4 DEF Environment

LEMMA StepOrder == TypeInv /\ OrderInv /\ [Next]_vars => OrderInv'
  <1> SUFFICES ASSUME TypeInv, OrderInv, [Next]_vars PROVE OrderInv'
    OBVIOUS
  <1>1. ASSUME NEW s \in Side, Schedule(s) PROVE OrderInv'
    BY <1>1, WriteFrameOrder, ReadFrameOrder, LeaveOrder DEF Schedule
  <1>2. CASE Coordinator
    BY <1>1, <1>2, PlanningOrder, CLaunchOrder, CBarrierOrder, COpenOrder, LeaveOrder
       DEF Coordinator
  <1>3. CASE Peer
    BY <1>1, <1>3, PeerOrder, LeaveOrder DEF Peer
  <1>4. CASE UNCHANGED vars
    BY <1>4 DEF vars, OrderInv, MarkerIsEvidence, PeerSpeaksSecond, NoEarlyLoss, AtStart
  <1> QED BY <1>2, <1>3, <1>4, EnvironmentOrder DEF Next

\* No frame of the handshake, or of any other phase, falls into the launch gap.
THEOREM NothingLostEarly == Spec => []NoEarlyLoss
  <1>1. Init => TypeInv /\ OrderInv
    BY InitType, InitOrder
  <1>2. TypeInv /\ OrderInv /\ [Next]_vars => TypeInv' /\ OrderInv'
    BY StepType, StepOrder
  <1>3. OrderInv => NoEarlyLoss
    BY DEF OrderInv
  <1> QED BY <1>1, <1>2, <1>3, PTL DEF Spec
-----------------------------------------------------------------------------
\* The receipt's honesty.

LEMMA InitHonest == Init => HonestInv
  BY DEF Init, HonestInv, Quiet, Early, Late, EarlyPhase, NoReceipt

LEMMA PlanningHonest ==
  TypeInv /\ HonestInv /\ (CServe \/ CJudge \/ CResolve \/ CReach \/ CProbe \/ CMismatch)
    => HonestInv'
  <1> SUFFICES ASSUME TypeInv, HonestInv,
                      CServe \/ CJudge \/ CResolve \/ CReach \/ CProbe \/ CMismatch
               PROVE  HonestInv'
    OBVIOUS
  <1> USE DEF HonestInv, Quiet, Early, Late, EarlyPhase, SchedulePhase, Ended, Skip
  <1>1. CASE CServe
    BY <1>1 DEF CServe
  <1>2. CASE CJudge
    BY <1>2 DEF CJudge
  <1>3. CASE CResolve
    BY <1>3 DEF CResolve
  <1>4. CASE CReach
    BY <1>4 DEF CReach
  <1>5. CASE CProbe
    BY <1>5 DEF CProbe
  <1>6. CASE CMismatch
    BY <1>6 DEF CMismatch
  <1> QED BY <1>1, <1>2, <1>3, <1>4, <1>5, <1>6

\* From the launch to the receipt: a phase outside the schedule is only typed
\* while the coordinator's device is unopened.
LEMMA RunningHonest ==
  TypeInv /\ HonestInv /\ (CLaunch \/ CBarrier \/ COpen \/ CReap \/ CWrite) => HonestInv'
  <1> SUFFICES ASSUME TypeInv, HonestInv, CLaunch \/ CBarrier \/ COpen \/ CReap \/ CWrite
               PROVE  HonestInv'
    OBVIOUS
  <1> USE DEF HonestInv, Quiet, Early, Late, EarlyPhase, SchedulePhase, Ended
  <1>1. CASE CLaunch
    BY <1>1 DEF CLaunch, Raise, TimerType
  <1>2. CASE CBarrier
    BY <1>2 DEF CBarrier, Raise, TimerType
  <1>3. CASE COpen
    <2>1. CASE OpenDevice("C", local.dev)
      <3>2. pc["C"] = "open" /\ pc' = [pc EXCEPT !["C"] = "opened"] /\ UNCHANGED failed
        BY <1>3, <2>1 DEF COpen, OpenDevice, OpenRaises, Raise
      <3>3. local.dev \in Device
        BY <3>2 DEF Resolved, Resolution
      <3>1. seat'["C"] # NoWire /\ seat'["P"] = seat["P"]
        BY <2>1, <3>3, OpenSeats
      <3> QED BY <1>3, <3>1, <3>2 DEF COpen
    <2>2. CASE ~OpenDevice("C", local.dev)
      BY <1>3, <2>2 DEF COpen, OpenRaises, Raise, TimerType
    <2> QED BY <2>1, <2>2
  <1>4. CASE CReap
    <2>1. PICK r : verdict' = Outcome(r)
      BY <1>4 DEF CReap
    <2>2. CASE failed["C"]
      <3>1. verdict'.outcome = "aborted" /\ verdict'.phase = phase
        BY <2>1, <2>2 DEF Outcome
      <3>2. phase # "peer"
        BY DEF TypingType
      <3> QED BY <1>4, <2>2, <3>1, <3>2 DEF CReap
    <2>3. CASE ~failed["C"]
      <3>1. /\ verdict'.outcome \in {"ok", "aborted"}
            /\ verdict'.outcome = "aborted" => verdict'.phase = "peer"
        BY <2>1, <2>3 DEF Outcome
      <3> QED BY <1>4, <2>3, <3>1 DEF CReap
    <2> QED BY <2>2, <2>3
  <1>5. CASE CWrite
    BY <1>5 DEF CWrite, Torn
  <1> QED BY <1>1, <1>2, <1>3, <1>4, <1>5

LEMMA PeerHonest == TypeInv /\ HonestInv /\ (PResolve \/ POpen \/ PMarker \/ PReport) => HonestInv'
  <1> SUFFICES ASSUME TypeInv, HonestInv, PResolve \/ POpen \/ PMarker \/ PReport
               PROVE  HonestInv'
    OBVIOUS
  <1> USE DEF HonestInv, Quiet, Early, Late, EarlyPhase, SchedulePhase, Ended, PIdle, TimerType
  <1>1. CASE PResolve
    BY <1>1 DEF PResolve, Raise
  <1>2. CASE POpen
    BY <1>2 DEF POpen, OpenDevice, OpenRaises, Raise
  <1>3. CASE PMarker
    BY <1>3 DEF PMarker, Raise
  <1>4. CASE PReport
    BY <1>4 DEF PReport
  <1> QED BY <1>1, <1>2, <1>3, <1>4

LEMMA ScheduleHonest ==
  ASSUME TypeInv, HonestInv, NEW s \in Side, Schedule(s)
  PROVE  HonestInv'
  <1> USE DEF HonestInv, Quiet, Early, Late, EarlyPhase, SchedulePhase, Ended, TimerType
  <1>1. CurrentPhase \in SchedulePhase
    BY PhaseType
  <1>2. CASE WriteFrame(s)
    BY <1>1, <1>2 DEF WriteFrame, InSchedule, RaiseInSchedule, Raise
  <1>3. CASE ReadFrame(s)
    BY <1>1, <1>3 DEF ReadFrame, InSchedule, RaiseInSchedule, Raise
  <1>4. CASE Finish(s)
    BY <1>4 DEF Finish
  <1> QED BY <1>2, <1>3, <1>4 DEF Schedule

LEMMA LeaveHonest ==
  ASSUME TypeInv, HonestInv, NEW s \in Side, Leave(s)
  PROVE  HonestInv'
  <1> USE DEF HonestInv, Quiet, Early, Late, EarlyPhase, SchedulePhase, Ended, TimerType
  <1>1. CurrentPhase \in SchedulePhase
    BY PhaseType
  <1>2. CASE GlobalAlarm(s)
    BY <1>1, <1>2 DEF GlobalAlarm, RaiseInSchedule, Raise
  <1>3. CASE LateAlarm(s)
    BY <1>3 DEF LateAlarm
  <1>4. CASE Settle(s)
    BY <1>4 DEF Settle
  <1> QED BY <1>2, <1>3, <1>4 DEF Leave

LEMMA EnvironmentHonest == TypeInv /\ HonestInv /\ Environment => HonestInv'
  <1> SUFFICES ASSUME TypeInv, HonestInv, Environment PROVE HonestInv'
    OBVIOUS
  <1> USE DEF HonestInv, Quiet, Early, Late, EarlyPhase, SchedulePhase, Ended
  <1>1. CASE CStart
    BY <1>1 DEF CStart, FreshRun, MayStart, NoReceipt
  <1>2. CASE \E s \in Side : Move(s)
    <2>1. UNCHANGED <<procs, stream, plan, typing, control, disk>>
      BY <1>2 DEF Move
    <2> QED BY <2>1
  <1>3. CASE SshDrops
    BY <1>3 DEF SshDrops
  <1>4. ASSUME NEW s \in Side, Killed(s) PROVE HonestInv'
    BY <1>4 DEF Killed
  <1> QED BY <1>1, <1>2, <1>3, <1>4 DEF Environment

LEMMA StepHonest == TypeInv /\ HonestInv /\ [Next]_vars => HonestInv'
  <1> SUFFICES ASSUME TypeInv, HonestInv, [Next]_vars PROVE HonestInv'
    OBVIOUS
  <1>1. CASE Coordinator
    BY <1>1, PlanningHonest, RunningHonest, ScheduleHonest, LeaveHonest DEF Coordinator
  <1>2. CASE Peer
    BY <1>2, PeerHonest, ScheduleHonest, LeaveHonest DEF Peer
  <1>3. CASE UNCHANGED vars
    BY <1>3 DEF vars, HonestInv, Quiet, Early, Late
  <1> QED BY <1>1, <1>2, <1>3, EnvironmentHonest DEF Next

-----------------------------------------------------------------------------
(***************************************************************************)
(* The bench is one shot: every behaviour of Usb4Stream is one of OneShot. *)
(***************************************************************************)

\* Nothing is banked before the receipt is written, and what is about to be banked is
\* the outcome of a run that has opened what the outcome says.
BothOpened == seat["C"] # NoWire /\ seat["P"] # NoWire

OnceInv ==
  /\ pc["C"] \notin Ended \cup {"writing"} => receipt = NoReceipt
  /\ pc["C"] = "writing" => receipt = Torn
  /\ pc["C"] \in {"write", "writing"} => verdict.outcome \in {"skipped", "aborted", "ok"}
  /\ pc["C"] \in {"unwind", "reap"} /\ ~failed["C"] => BothOpened
  /\ verdict.outcome = "ok" => BothOpened
  /\ receipt.outcome = "ok" => BothOpened
  /\ pc["P"] \in {"none", "resolve", "open"} => seat["P"] = NoWire

Inv == TypeInv /\ OrderInv /\ HonestInv /\ OnceInv

-----------------------------------------------------------------------------
\* OnceInv is inductive, given the invariants it stands on.

LEMMA InitOnce == Init => OnceInv
  BY DEF Init, OnceInv, NoReceipt, Ended

LEMMA PlanningOnce ==
  Inv /\ (CServe \/ CJudge \/ CResolve \/ CReach \/ CProbe \/ CMismatch) => OnceInv'
  <1> SUFFICES ASSUME Inv, CServe \/ CJudge \/ CResolve \/ CReach \/ CProbe \/ CMismatch
               PROVE  OnceInv'
    OBVIOUS
  <1> USE DEF Inv, OnceInv, BothOpened, Ended, Skip
  <1>1. CASE CServe
    BY <1>1 DEF CServe
  <1>2. CASE CJudge
    BY <1>2 DEF CJudge
  <1>3. CASE CResolve
    BY <1>3 DEF CResolve
  <1>4. CASE CReach
    BY <1>4 DEF CReach
  <1>5. CASE CProbe
    BY <1>5 DEF CProbe
  <1>6. CASE CMismatch
    BY <1>6 DEF CMismatch
  <1> QED BY <1>1, <1>2, <1>3, <1>4, <1>5, <1>6

\* The schedule is entered with both devices open, so a coordinator that leaves it
\* without an exception has opened both.
LEMMA RunningOnce ==
  Inv /\ (CLaunch \/ CBarrier \/ COpen \/ CReap \/ CWrite) => OnceInv'
  <1> SUFFICES ASSUME Inv, CLaunch \/ CBarrier \/ COpen \/ CReap \/ CWrite
               PROVE  OnceInv'
    OBVIOUS
  <1> USE DEF Inv, OnceInv, BothOpened, Ended
  <1>1. CASE CLaunch
    BY <1>1 DEF CLaunch, Raise, TimerType, HonestInv, Quiet
  <1>2. CASE CBarrier
    BY <1>2 DEF CBarrier, Raise, TimerType
  <1>3. CASE COpen
    <2>1. seat' = seat \/ (seat'["C"] # NoWire /\ seat'["P"] = seat["P"])
      BY <1>3, OpenSeats DEF COpen, Resolved, Resolution
    <2> QED BY <1>3, <2>1 DEF COpen, OpenDevice, OpenRaises, Raise, TimerType
  <1>4. CASE CReap
    BY <1>4 DEF CReap, Outcome, NoReport
  <1>5. CASE CWrite
    BY <1>5 DEF CWrite, Torn
  <1> QED BY <1>1, <1>2, <1>3, <1>4, <1>5

LEMMA PeerOnce == Inv /\ (PResolve \/ POpen \/ PMarker \/ PReport) => OnceInv'
  <1> SUFFICES ASSUME Inv, PResolve \/ POpen \/ PMarker \/ PReport
               PROVE  OnceInv'
    OBVIOUS
  <1> USE DEF Inv, OnceInv, BothOpened, Ended, PIdle, TimerType
  <1>1. CASE PResolve
    BY <1>1 DEF PResolve, Raise
  <1>2. CASE POpen
    <2>1. seat' = seat \/ (seat'["P"] # NoWire /\ seat'["C"] = seat["C"])
      BY <1>2, OpenSeats DEF POpen, Resolved
    <2> QED BY <1>2, <2>1 DEF POpen, OpenDevice, OpenRaises, Raise
  <1>3. CASE PMarker
    BY <1>3 DEF PMarker, Raise
  <1>4. CASE PReport
    BY <1>4 DEF PReport
  <1> QED BY <1>1, <1>2, <1>3, <1>4

LEMMA ScheduleOnce ==
  ASSUME Inv, NEW s \in Side, Schedule(s) \/ Leave(s)
  PROVE  OnceInv'
  <1> USE DEF Inv, OnceInv, BothOpened, Ended, TimerType
  <1>1. CASE WriteFrame(s)
    BY <1>1 DEF WriteFrame, InSchedule, RaiseInSchedule, Raise
  <1>2. CASE ReadFrame(s)
    BY <1>2 DEF ReadFrame, InSchedule, RaiseInSchedule, Raise
  <1>3. CASE Finish(s)
    BY <1>3 DEF Finish, OrderInv, MarkerIsEvidence, PeerSpeaksSecond
  <1>4. CASE GlobalAlarm(s)
    BY <1>4 DEF GlobalAlarm, RaiseInSchedule, Raise
  <1>5. CASE LateAlarm(s)
    BY <1>5 DEF LateAlarm
  <1>6. CASE Settle(s)
    BY <1>6 DEF Settle
  <1> QED BY <1>1, <1>2, <1>3, <1>4, <1>5, <1>6 DEF Schedule, Leave

LEMMA EnvironmentOnce == Inv /\ Environment => OnceInv'
  <1> SUFFICES ASSUME Inv, Environment PROVE OnceInv'
    OBVIOUS
  <1> USE DEF Inv, OnceInv, BothOpened, Ended
  <1>1. CASE CStart
    BY <1>1 DEF CStart, FreshRun, MayStart, NoReceipt
  <1>2. CASE \E s \in Side : Move(s)
    <2>1. UNCHANGED <<procs, stream, plan, typing, control, disk>>
      BY <1>2 DEF Move
    <2> QED BY <2>1
  <1>3. CASE SshDrops
    BY <1>3 DEF SshDrops
  <1>4. ASSUME NEW s \in Side, Killed(s) PROVE OnceInv'
    BY <1>4 DEF Killed
  <1> QED BY <1>1, <1>2, <1>3, <1>4 DEF Environment

LEMMA StepOnce == Inv /\ [Next]_vars => OnceInv'
  <1> SUFFICES ASSUME Inv, [Next]_vars PROVE OnceInv'
    OBVIOUS
  <1>1. CASE Coordinator
    BY <1>1, PlanningOnce, RunningOnce, ScheduleOnce DEF Coordinator
  <1>2. CASE Peer
    BY <1>2, PeerOnce, ScheduleOnce DEF Peer
  <1>3. CASE UNCHANGED vars
    BY <1>3 DEF vars, Inv, OnceInv, BothOpened
  <1> QED BY <1>1, <1>2, <1>3, EnvironmentOnce DEF Next

LEMMA StepInv == Inv /\ [Next]_vars => Inv'
  BY StepType, StepOrder, StepHonest, StepOnce DEF Inv

-----------------------------------------------------------------------------
\* Every step is one of the abstract steps or none.

Running == pc["C"] \notin Ended
Opens == {s \in Side : seat[s] # NoWire}

\* Most steps are none, or the end of a run that banks nothing.
LEMMA QuietStep ==
  ASSUME UNCHANGED <<seat, receipt>>, Running' => Running
  PROVE  [Shot!Next]_(Shot!vars)
  <1>1. Opens' = Opens BY DEF Opens
  <1>2. CASE Running' = Running
    BY <1>1, <1>2 DEF Shot!vars, Running, Opens
  <1>3. CASE Running /\ ~Running'
    BY <1>1, <1>3 DEF Shot!Next, Shot!Abandon, Running, Opens
  <1> QED BY <1>2, <1>3 DEF Running

LEMMA OpenStep ==
  ASSUME Inv, COpen \/ POpen
  PROVE  [Shot!Next]_(Shot!vars)
  <1> USE DEF Inv
  <1>1. CASE COpen /\ seat' # seat
    <2>1. seat'["C"] # NoWire /\ seat'["P"] = seat["P"]
      BY <1>1, OpenSeats DEF COpen, Resolved, Resolution
    <2>2. seat["C"] = NoWire /\ seat["P"] # NoWire
      BY <1>1 DEF COpen, OpenDevice, HonestInv, OrderInv, MarkerIsEvidence
    <2>3. Opens = {"P"} /\ Opens' = {"P", "C"}
      BY <2>1, <2>2 DEF Opens
    <2>4. receipt = NoReceipt /\ receipt' = receipt /\ Running /\ Running'
      BY <1>1 DEF COpen, OpenDevice, OpenRaises, OnceInv, Ended, Running, Raise
    <2> QED BY <2>3, <2>4 DEF Shot!Next, Shot!OpenCoordinator, Running, Opens, NoReceipt
  <1>2. CASE POpen /\ seat' # seat
    <2>1. seat'["P"] # NoWire /\ seat'["C"] = seat["C"]
      BY <1>2, OpenSeats DEF POpen, Resolved
    <2>2. seat["P"] = NoWire /\ receipt.outcome \notin {"skipped", "ok"}
      BY <1>2 DEF POpen, OnceInv, BothOpened, HonestInv, Quiet
    <2>3. "P" \notin Opens /\ Opens' = Opens \cup {"P"}
      BY <2>1, <2>2 DEF Opens
    <2>4. receipt' = receipt /\ Running' = Running
      BY <1>2 DEF POpen, PIdle, OpenDevice, OpenRaises, Running, Raise
    <2> QED BY <2>2, <2>3, <2>4 DEF Shot!Next, Shot!OpenWorker, Running, Opens
  <1>3. CASE seat' = seat
    <2>1. receipt' = receipt /\ Running' = Running
      BY DEF COpen, POpen, PIdle, OpenDevice, OpenRaises, Running, Raise, Ended
    <2> QED BY <1>3, <2>1, QuietStep
  <1> QED BY <1>1, <1>2, <1>3

LEMMA WriteStep ==
  ASSUME Inv, CWrite
  PROVE  [Shot!Next]_(Shot!vars)
  <1> USE DEF Inv
  <1>1. Opens' = Opens
    BY DEF CWrite, Opens
  <1>2. CASE pc["C"] = "write"
    <2>1. receipt = NoReceipt /\ receipt' = Torn /\ Running /\ Running'
      BY <1>2 DEF CWrite, OnceInv, Ended, Running
    <2> QED BY <1>1, <2>1 DEF Shot!Next, Shot!Truncate, Running, Opens, NoReceipt, Torn
  <1>3. CASE pc["C"] = "writing"
    <2>1. receipt = Torn /\ receipt' = verdict /\ Running /\ ~Running'
      BY <1>3 DEF CWrite, OnceInv, Ended, Running
    <2>2. verdict.outcome = "skipped" => Opens = {}
      BY DEF HonestInv, Quiet, Opens
    <2>3. verdict.outcome = "ok" => Opens = {"P", "C"}
      BY DEF OnceInv, BothOpened, Opens
    <2>4. verdict.outcome \in {"skipped", "aborted", "ok"}
      BY <1>3 DEF OnceInv
    <2> QED BY <1>1, <2>1, <2>2, <2>3, <2>4 DEF Shot!Next, Shot!Bank, Running, Opens, Torn
  <1> QED BY <1>2, <1>3 DEF CWrite

\* A launch begins a run only where nothing is banked.
LEMMA StartStep ==
  ASSUME Inv, CStart
  PROVE  [Shot!Next]_(Shot!vars)
  <1>1. CASE receipt # NoReceipt
    <2>1. UNCHANGED <<seat, receipt>> /\ ~Running /\ ~Running'
      BY <1>1 DEF CStart, MayStart, Running, Ended, Inv
    <2> QED BY <2>1, QuietStep
  <1>2. CASE receipt = NoReceipt
    <2>1. ~Running /\ Running' /\ receipt' = receipt /\ Opens' = {}
      BY <1>2 DEF CStart, FreshRun, MayStart, Running, Ended, Opens
    <2> QED BY <1>2, <2>1 DEF Shot!Next, Shot!Begin, Running, Opens, NoReceipt
  <1> QED BY <1>1, <1>2

\* In the schedule and on the way out of it no device is opened and nothing banked.
LEMMA ScheduleStep ==
  ASSUME Inv, NEW s \in Side, Schedule(s) \/ Leave(s)
  PROVE  [Shot!Next]_(Shot!vars)
  <1> USE DEF Inv
  <1>1. UNCHANGED <<seat, receipt>>
    BY DEF Schedule, WriteFrame, ReadFrame, Finish, Leave, GlobalAlarm, LateAlarm, Settle
  <1>2. Running' => Running
    BY DEF Running, Ended, Schedule, WriteFrame, ReadFrame, Finish, Leave, GlobalAlarm,
           LateAlarm, Settle, InSchedule, RaiseInSchedule, Raise
  <1> QED BY <1>1, <1>2, QuietStep

LEMMA ShotStep ==
  ASSUME Inv, [Next]_vars
  PROVE  [Shot!Next]_(Shot!vars)
  <1> USE DEF Inv
  <1>1. CASE CServe \/ CJudge \/ CResolve \/ CReach \/ CProbe \/ CMismatch
    <2>1. UNCHANGED <<seat, receipt>> /\ Running
      BY <1>1 DEF CServe, CJudge, CResolve, CReach, CProbe, CMismatch, Running, Ended
    <2> QED BY <2>1, QuietStep
  <1>2. CASE CLaunch \/ CBarrier \/ CReap
    <2>1. UNCHANGED <<seat, receipt>> /\ Running
      BY <1>2 DEF CLaunch, CBarrier, CReap, Running, Ended
    <2> QED BY <2>1, QuietStep
  <1>3. CASE PResolve \/ PMarker \/ PReport
    <2>1. UNCHANGED <<seat, receipt>> /\ Running' = Running
      BY <1>3 DEF PResolve, PMarker, PReport, PIdle, Raise, Running
    <2> QED BY <2>1, QuietStep
  <1>4. CASE (\E s \in Side : Move(s)) \/ SshDrops
    <2>1. UNCHANGED <<procs, stream, disk>>
      BY <1>4 DEF Move, SshDrops
    <2>2. UNCHANGED <<seat, receipt>> /\ Running' = Running
      BY <2>1 DEF Running
    <2> QED BY <2>2, QuietStep
  <1>5. ASSUME NEW s \in Side, Killed(s) PROVE [Shot!Next]_(Shot!vars)
    <2>1. UNCHANGED <<seat, receipt>> /\ (Running' => Running)
      BY <1>5 DEF Killed, Running, Ended
    <2> QED BY <2>1, QuietStep
  <1>6. CASE UNCHANGED vars
    <2>1. UNCHANGED <<seat, receipt>> /\ Running' = Running
      BY <1>6 DEF vars, Running
    <2> QED BY <2>1, QuietStep
  <1> QED BY <1>1, <1>2, <1>3, <1>4, <1>5, <1>6, OpenStep, WriteStep, StartStep, ScheduleStep
          DEF Next, Coordinator, Peer, Environment

\* The coordinator, the peer, the device and the harness together do what OneShot says of
\* each launch: its opens, the order of them and the one receipt, and no further launch past
\* the guard once anything is banked. It does not say that a device is opened once over all
\* launches: StormFree, which a run refutes, says that.
THEOREM BenchIsOneShot == Spec => ImplementsOneShot
  <1>1. Init => Inv /\ Shot!Init
    BY InitType, InitOrder, InitHonest, InitOnce
       DEF Inv, Init, Shot!Init, Ended, NoReceipt
  <1>2. Inv /\ [Next]_vars => Inv'
    BY StepInv
  <1>3. Inv /\ [Next]_vars => [Shot!Next]_(Shot!vars)
    BY ShotStep
  <1> QED BY <1>1, <1>2, <1>3, PTL DEF Spec, ImplementsOneShot, Shot!Spec
-----------------------------------------------------------------------------
\* What is on the wire. In each direction the frames are written, and read, in
\* one order, the flow; the frames waiting in a ring are the stretch of it from the one its
\* reader is due to read up to the one its writer is due to write.

\* Frames go from w to the other side in a turn of this kind.
Carries(w, how) == how \in IF w = "C" THEN {"ask", "both", "push"} ELSE {"ask", "both", "pull"}

\* The first turn, from k on, that carries frames out of w: no two in a row carry none.
Landing(w, k) == IF k <= Len(Turns) /\ ~Carries(w, Turns[k].how) THEN k + 1 ELSE k

\* The frame that follows frame p in the flow out of w.
After(w, p) ==
  IF p[2] + 1 < Turns[p[1]].frames THEN <<p[1], p[2] + 1>> ELSE <<Landing(w, p[1] + 1), 0>>

\* What side s does with the frames out of w.
Io(s, w) == IF s = w THEN "write" ELSE "read"

\* The frame of the flow out of w that a side at turn a, half h and frame d is due to move.
DueAt(s, w, a, h, d) ==
  IF a > Len(Turns) THEN <<a, 0>>
  ELSE IF Halves(s, Turns[a].how)[h] = Io(s, w) THEN <<a, d>>
  ELSE IF h = 1 /\ Len(Halves(s, Turns[a].how)) = 2 THEN <<a, 0>>
  ELSE <<Landing(w, a + 1), 0>>

Due(s, w) == DueAt(s, w, at[s], half[s], done[s])

CursorOK(s) ==
  at[s] <= Len(Turns) => /\ half[s] \in 1 .. Len(Halves(s, Turns[at[s]].how))
                         /\ done[s] < Turns[at[s]].frames

\* The frames of u are those of the flow from r up to, not including, p; and those of p's
\* own turn are counted by how far p is in it.
Chain(w, u, r, p) ==
  /\ u = <<>> => r = p
  /\ u # <<>> => u[1] = r /\ After(w, u[Len(u)]) = p
  /\ \A i \in 1 .. Len(u) - 1 : u[i + 1] = After(w, u[i])
  /\ \A i \in 1 .. Len(u) :
       u[i][1] < p[1] \/ (u[i][1] = p[1] /\ u[i][2] + Len(u) + 1 = p[2] + i)

HIDE DEF TypeInv, TypeOK, PlaceType, CursorType, StreamType, ControlType

\* The halves of the two schedules mirror each other.
LEMMA HalvesTable ==
  ASSUME NEW s \in Side, NEW w \in Side, NEW how \in How
  PROVE  /\ Len(Halves(s, how)) \in {1, 2}
         /\ Halves(s, how)[1] \in {"write", "read"}
         /\ Len(Halves(s, how)) = 2 =>
              Carries(w, how) /\ Halves(s, how)[2] \in {"write", "read"} \ {Halves(s, how)[1]}
         /\ Len(Halves(s, how)) = 1 => (Carries(w, how) <=> Halves(s, how)[1] = Io(s, w))
  <1> USE DEF Halves, CoordinatorHalves, PeerHalves, Carries, Io
  <1>1. CASE how = "ask"
    BY <1>1
  <1>2. CASE how = "both"
    BY <1>2
  <1>3. CASE how = "push"
    <2>1. CASE s = "C"
      BY <1>3, <2>1
    <2>2. CASE s = "P"
      BY <1>3, <2>2
    <2> QED BY <2>1, <2>2
  <1>4. CASE how = "pull"
    <2>1. CASE s = "C"
      BY <1>4, <2>1
    <2>2. CASE s = "P"
      BY <1>4, <2>2
    <2> QED BY <2>1, <2>2
  <1> QED BY <1>1, <1>2, <1>3, <1>4 DEF How

LEMMA TurnHow ==
  ASSUME NEW k \in 1 .. Len(Turns)
  PROVE  Turns[k].how \in How /\ Turns[k].frames \in Nat
  <1>1. Turns[k] \in TurnSet
    BY TurnsShape, ElementOfSeq
  <1> QED BY <1>1 DEF TurnSet

\* A turn that carries nothing out of w is followed by one that does, or by none.
LEMMA LandingCarries ==
  ASSUME NEW w \in Side, NEW k \in 1 .. Len(Turns) + 1
  PROVE  /\ Landing(w, k) \in {k, k + 1}
         /\ k <= Len(Turns) /\ ~Carries(w, Turns[k].how) =>
              Landing(w, k) = k + 1 /\ Landing(w, k + 1) = k + 1
  <1>1. Landing(w, k) \in {k, k + 1}
    BY DEF Landing
  <1>2. ASSUME k <= Len(Turns), ~Carries(w, Turns[k].how)
        PROVE  Landing(w, k) = k + 1 /\ Landing(w, k + 1) = k + 1
    <2>1. k \in 1 .. Len(Turns) /\ (k < Len(Turns) => k + 1 \in 1 .. Len(Turns)) /\ k \in Nat
      BY <1>2, TurnsShape
    <2>2. Turns[k].how \in How /\ (k < Len(Turns) => Turns[k + 1].how \in How)
      BY <2>1, TurnHow
    <2>3. Turns[k].how = IF w = "C" THEN "pull" ELSE "push"
      BY <1>2, <2>2 DEF Carries, How
    <2>4. k < Len(Turns) => Turns[k + 1].how # Turns[k].how
      BY <2>1, <2>3, TurnsShape
    <2>5. k < Len(Turns) => Carries(w, Turns[k + 1].how)
      BY <2>2, <2>3, <2>4 DEF Carries, How
    <2>6. Landing(w, k) = k + 1
      BY <1>2 DEF Landing
    <2>7. k + 1 <= Len(Turns) => k < Len(Turns)
      BY <2>1, TurnsShape
    <2> QED BY <2>5, <2>6, <2>7 DEF Landing
  <1> QED BY <1>1, <1>2

\* At the start of a turn both sides are due the next frame of each flow.
LEMMA DueFresh ==
  ASSUME NEW s \in Side, NEW w \in Side, NEW a \in 1 .. Len(Turns) + 1
  PROVE  DueAt(s, w, a, 1, 0) = <<Landing(w, a), 0>>
  <1>1. CASE a > Len(Turns)
    BY <1>1 DEF DueAt, Landing
  <1>2. CASE a <= Len(Turns)
    <2> DEFINE how == Turns[a].how
               halves == Halves(s, Turns[a].how)
    <2>1. a \in 1 .. Len(Turns)
      BY <1>2, TurnsShape
    <2>2. how \in How
      BY <2>1, TurnHow
    <2>3. Carries(w, how) => Landing(w, a) = a
      BY DEF Landing
    <2>4. ~Carries(w, how) => Landing(w, a) = a + 1 /\ Landing(w, a + 1) = a + 1
      BY <1>2, LandingCarries
    <2>5. ~(a > Len(Turns))
      BY <2>1, TurnsShape
    <2>6. /\ Len(halves) \in {1, 2}
          /\ Len(halves) = 2 => Carries(w, how)
          /\ Len(halves) = 1 => (Carries(w, how) <=> halves[1] = Io(s, w))
      BY <2>2, HalvesTable
    <2> HIDE DEF halves
    <2>7. DueAt(s, w, a, 1, 0) = IF halves[1] = Io(s, w) THEN <<a, 0>>
                                 ELSE IF Len(halves) = 2 THEN <<a, 0>>
                                 ELSE <<Landing(w, a + 1), 0>>
      BY <2>5 DEF DueAt, halves
    <2> HIDE DEF how
    <2> QED BY <2>3, <2>4, <2>6, <2>7
  <1> QED BY <1>1, <1>2, TurnsShape

\* A side is never due a frame of a turn it has left.
LEMMA DueAhead ==
  ASSUME CursorType, NEW s \in Side, NEW w \in Side
  PROVE  Due(s, w) \in Frame /\ Due(s, w)[1] >= at[s]
  <1>1. at[s] \in Nat \ {0} /\ done[s] \in Nat
    BY DEF CursorType
  <1>2. Landing(w, at[s] + 1) \in {at[s] + 1, at[s] + 2}
    BY <1>1 DEF Landing
  <1> QED BY <1>1, <1>2 DEF Due, DueAt, Frame

-----------------------------------------------------------------------------
\* A chain grows at its writer's end and shrinks at its reader's.

LEMMA AfterAhead ==
  ASSUME NEW w \in Side, NEW p \in Frame
  PROVE  \/ After(w, p) = <<p[1], p[2] + 1>>
         \/ After(w, p) \in Frame /\ After(w, p)[1] > p[1]
  <1>1. p[1] \in Nat /\ p[2] \in Nat
    BY DEF Frame
  <1>2. Landing(w, p[1] + 1) \in {p[1] + 1, p[1] + 2}
    BY <1>1 DEF Landing
  <1> QED BY <1>1, <1>2 DEF After, Frame

LEMMA ChainAppend ==
  ASSUME NEW w \in Side, NEW u \in Seq(Frame), NEW r, NEW p \in Frame, Chain(w, u, r, p)
  PROVE  Chain(w, Append(u, p), r, After(w, p))
  <1> DEFINE v == Append(u, p)
             n == Len(u)
  <1>1. /\ v \in Seq(Frame) /\ v # <<>> /\ Len(v) = n + 1 /\ n \in Nat
        /\ v[n + 1] = p
        /\ \A i \in 1 .. n : v[i] = u[i] /\ u[i][1] \in Nat /\ u[i][2] \in Nat
    <2>1. \A i \in 1 .. n : u[i] \in Frame
      BY ElementOfSeq
    <2> QED BY <2>1, AppendProperties, LenProperties DEF Frame
  <1>2. p[1] \in Nat /\ p[2] \in Nat
    BY DEF Frame
  <1>3. u = <<>> <=> n = 0
    BY EmptySeq
  <1> HIDE DEF v, n
  <1>4. v[1] = r
    <2>1. CASE n = 0
      BY <1>1, <1>3, <2>1 DEF Chain
    <2>2. CASE n # 0
      BY <1>1, <1>3, <2>2 DEF Chain
    <2> QED BY <2>1, <2>2
  <1>5. ASSUME NEW i \in 1 .. Len(v) - 1 PROVE v[i + 1] = After(w, v[i])
    <2>1. CASE i = n
      BY <1>1, <1>3, <1>5, <2>1 DEF Chain, n
    <2>2. CASE i # n
      <3>1. i \in 1 .. n - 1 /\ i \in 1 .. n /\ i + 1 \in 1 .. n
        BY <1>1, <1>5, <2>2
      <3> QED BY <1>1, <3>1 DEF Chain, n
    <2> QED BY <2>1, <2>2
  <1>6. ASSUME NEW i \in 1 .. Len(v)
        PROVE  \/ v[i][1] < After(w, p)[1]
               \/ v[i][1] = After(w, p)[1] /\ v[i][2] + Len(v) + 1 = After(w, p)[2] + i
    <2>1. CASE i = n + 1
      BY <1>1, <1>2, <2>1, AfterAhead DEF Frame
    <2>2. CASE i # n + 1
      <3>1. i \in 1 .. n
        BY <1>1, <1>6, <2>2
      <3>2. u[i][1] < p[1] \/ (u[i][1] = p[1] /\ u[i][2] + n + 1 = p[2] + i)
        BY <3>1 DEF Chain, n
      <3>3. v[i] = u[i] /\ u[i][1] \in Nat /\ u[i][2] \in Nat
        BY <1>1, <3>1
      <3>4. CASE After(w, p) = <<p[1], p[2] + 1>>
        <4>1. After(w, p)[1] = p[1] /\ After(w, p)[2] = p[2] + 1
          BY <3>4
        <4>2. i \in Nat /\ n \in Nat /\ Len(v) = n + 1
          BY <1>1, <3>1
        <4>3. CASE u[i][1] < p[1]
          BY <3>3, <4>1, <4>3
        <4>4. CASE u[i][1] = p[1] /\ u[i][2] + n + 1 = p[2] + i
          <5> DEFINE a == u[i][2]
                     b == p[2]
          <5>1. a \in Nat /\ b \in Nat /\ a + n + 1 = b + i
            BY <1>2, <3>3, <4>4
          <5> HIDE DEF a, b
          <5>2. a + (n + 1) + 1 = (b + 1) + i
            BY <4>2, <5>1
          <5> QED BY <3>3, <4>1, <4>2, <4>4, <5>2 DEF a, b
        <4> QED BY <3>2, <4>3, <4>4
      <3>5. CASE After(w, p) \in Frame /\ After(w, p)[1] > p[1]
        BY <1>2, <3>2, <3>3, <3>5 DEF Frame
      <3> QED BY <3>4, <3>5, AfterAhead
    <2> QED BY <2>1, <2>2
  <1>7. After(w, v[Len(v)]) = After(w, p)
    BY <1>1
  <1>8. Chain(w, v, r, After(w, p))
    BY <1>1, <1>4, <1>5, <1>6, <1>7 DEF Chain
  <1> QED BY <1>8 DEF v

LEMMA ChainTail ==
  ASSUME NEW w \in Side, NEW u \in Seq(Frame), NEW r, NEW p \in Frame, Chain(w, u, r, p),
         u # <<>>
  PROVE  Head(u) = r /\ Chain(w, Tail(u), After(w, r), p)
  <1> DEFINE v == Tail(u)
             n == Len(u)
  <1>1. /\ v \in Seq(Frame) /\ Len(v) = n - 1 /\ n \in Nat \ {0}
        /\ \A i \in 1 .. n - 1 : v[i] = u[i + 1]
        /\ \A i \in 1 .. n : u[i][1] \in Nat /\ u[i][2] \in Nat
    <2>1. \A i \in 1 .. n : u[i] \in Frame
      BY ElementOfSeq
    <2> QED BY <2>1, HeadTailProperties, LenProperties, EmptySeq DEF Frame
  <1>2. Head(u) = r /\ u[1] = r
    BY DEF Chain
  <1>3. p[1] \in Nat /\ p[2] \in Nat
    BY DEF Frame
  <1>4. v = <<>> <=> n = 1
    <2>1. v = <<>> <=> Len(v) = 0
      BY <1>1, EmptySeq
    <2> QED BY <1>1, <2>1
  <1>5. n = 1 => After(w, r) = p
    BY <1>2 DEF Chain, n
  <1>6. n # 1 => v[1] = After(w, r) /\ After(w, v[Len(v)]) = p
    <2> SUFFICES ASSUME n # 1 PROVE v[1] = After(w, r) /\ After(w, v[Len(v)]) = p
      OBVIOUS
    <2>1. 1 \in 1 .. n - 1 /\ n - 1 \in 1 .. n - 1 /\ n - 1 + 1 = n
      BY <1>1
    <2> QED BY <1>1, <1>2, <2>1 DEF Chain, n
  <1> HIDE DEF v
  <1>7. ASSUME NEW i \in 1 .. Len(v) - 1 PROVE v[i + 1] = After(w, v[i])
    <2>1. i \in 1 .. n - 1 /\ i + 1 \in 1 .. n - 1
      BY <1>1, <1>7
    <2> QED BY <1>1, <2>1 DEF Chain
  <1>8. ASSUME NEW i \in 1 .. Len(v)
        PROVE  v[i][1] < p[1] \/ (v[i][1] = p[1] /\ v[i][2] + Len(v) + 1 = p[2] + i)
    <2>1. i \in 1 .. n - 1 /\ i + 1 \in 1 .. n
      BY <1>1, <1>8
    <2>2. \/ u[i + 1][1] < p[1]
          \/ u[i + 1][1] = p[1] /\ u[i + 1][2] + n + 1 = p[2] + (i + 1)
      BY <2>1 DEF Chain
    <2>3. v[i] = u[i + 1] /\ u[i + 1][1] \in Nat /\ u[i + 1][2] \in Nat
      BY <1>1, <2>1
    <2> HIDE DEF n
    <2>4. v[i][1] = u[i + 1][1] /\ v[i][2] = u[i + 1][2] /\ i \in Nat
      BY <2>1, <2>3
    <2>5. n \in Nat \ {0} /\ Len(v) = n - 1
      BY <1>1
    <2>6. CASE u[i + 1][1] < p[1]
      BY <2>4, <2>6
    <2>7. CASE u[i + 1][1] = p[1] /\ u[i + 1][2] + n + 1 = p[2] + (i + 1)
      <3> DEFINE a == u[i + 1][2]
                 b == p[2]
      <3>1. a \in Nat /\ b \in Nat /\ a + n + 1 = b + (i + 1)
        BY <1>3, <2>3, <2>7
      <3> HIDE DEF a, b
      <3>2. a + (n - 1) + 1 = b + i
        BY <2>4, <2>5, <3>1
      <3> QED BY <2>4, <2>5, <2>7, <3>2 DEF a, b
    <2> QED BY <2>2, <2>6, <2>7
  <1> QED BY <1>2, <1>4, <1>5, <1>6, <1>7, <1>8 DEF Chain, v

-----------------------------------------------------------------------------
\* A side that moves a frame goes one further in that frame's flow, and no further in the
\* other.

LEMMA Forward ==
  ASSUME CursorType, NEW s \in Side, NEW w \in Side, CursorOK(s), at[s] <= Len(Turns), Advance(s)
  PROVE  /\ CursorOK(s)'
         /\ Doing(s) = Io(s, w) =>
              Due(s, w) = <<at[s], done[s]>> /\ Due(s, w)' = After(w, <<at[s], done[s]>>)
         /\ Doing(s) # Io(s, w) => Due(s, w)' = Due(s, w)
  <1> DEFINE a == at[s]
             h == half[s]
             d == done[s]
             halves == Halves(s, Turns[a].how)
             frames == Turns[a].frames
  <1>1. /\ a \in 1 .. Len(Turns) /\ h \in 1 .. Len(halves) /\ d \in Nat /\ d < frames
        /\ frames \in Nat /\ Turns[a].how \in How
    <2>1. a \in 1 .. Len(Turns)
      BY TurnsShape DEF CursorType
    <2> QED BY <2>1, TurnHow DEF CursorType, CursorOK
  <1>2. /\ Len(halves) \in {1, 2}
        /\ Len(halves) = 2 => /\ halves[1] \in {"write", "read"}
                              /\ halves[2] \in {"write", "read"} \ {halves[1]}
    BY <1>1, HalvesTable
  <1>3. ~(a > Len(Turns)) /\ a + 1 \in 1 .. Len(Turns) + 1 /\ a \in Nat
    BY <1>1, TurnsShape
  <1>4. Doing(s) = halves[h] /\ Io(s, w) \in {"write", "read"}
    BY DEF Doing, Io
  <1>5. Due(s, w) = IF halves[h] = Io(s, w) THEN <<a, d>>
                    ELSE IF h = 1 /\ Len(halves) = 2 THEN <<a, 0>>
                    ELSE <<Landing(w, a + 1), 0>>
    BY <1>3 DEF Due, DueAt
  <1>6. After(w, <<a, d>>) = IF d + 1 < frames THEN <<a, d + 1>> ELSE <<Landing(w, a + 1), 0>>
    BY DEF After
  <1>7. Due(s, w)' = DueAt(s, w, at'[s], half'[s], done'[s])
    BY DEF Due, DueAt, Landing
  <1>8. /\ done'[s] = IF d + 1 = frames THEN 0 ELSE d + 1
        /\ half'[s] = IF d + 1 # frames THEN h ELSE IF h = Len(halves) THEN 1 ELSE h + 1
        /\ at'[s] = IF d + 1 = frames /\ h = Len(halves) THEN a + 1 ELSE a
    BY DEF Advance, CursorType
  <1>9. ASSUME NEW j \in 1 .. Len(halves), NEW e \in Nat
        PROVE  DueAt(s, w, a, j, e) = IF halves[j] = Io(s, w) THEN <<a, e>>
                                      ELSE IF j = 1 /\ Len(halves) = 2 THEN <<a, 0>>
                                      ELSE <<Landing(w, a + 1), 0>>
    BY <1>3 DEF DueAt
  <1>10. DueAt(s, w, a + 1, 1, 0) = <<Landing(w, a + 1), 0>>
    BY <1>3, DueFresh
  <1>11. CursorOK(s)' <=>
           (at'[s] <= Len(Turns) => /\ half'[s] \in 1 .. Len(Halves(s, Turns[at'[s]].how))
                                    /\ done'[s] < Turns[at'[s]].frames)
    BY DEF CursorOK
  <1>12. a + 1 <= Len(Turns) =>
           1 \in 1 .. Len(Halves(s, Turns[a + 1].how)) /\ 0 < Turns[a + 1].frames
    <2> SUFFICES ASSUME a + 1 <= Len(Turns)
                 PROVE  1 \in 1 .. Len(Halves(s, Turns[a + 1].how)) /\ 0 < Turns[a + 1].frames
      OBVIOUS
    <2>1. a + 1 \in 1 .. Len(Turns)
      BY <1>3, TurnsShape
    <2>2. Turns[a + 1].how \in How /\ Turns[a + 1].frames \in Nat \ {0}
      BY <2>1, TurnHow, TurnsShape
    <2> QED BY <2>2, HalvesTable
  <1> HIDE DEF a, h, d, halves, frames
  <1>13. CASE d + 1 # frames
    <2>1. at'[s] = a /\ half'[s] = h /\ done'[s] = d + 1 /\ d + 1 \in Nat /\ d + 1 < frames
      BY <1>1, <1>8, <1>13
    <2>2. CursorOK(s)'
      BY <1>1, <1>11, <2>1 DEF halves, frames
    <2> QED BY <1>1, <1>4, <1>5, <1>6, <1>7, <1>9, <2>1, <2>2 DEF a, d
  <1>14. CASE d + 1 = frames /\ h # Len(halves)
    <2>1. h = 1 /\ Len(halves) = 2 /\ h + 1 = 2 /\ 2 \in 1 .. Len(halves)
      <3>1. CASE Len(halves) = 1
        BY <1>1, <1>14, <3>1
      <3>2. CASE Len(halves) = 2
        BY <1>1, <1>14, <3>2
      <3> QED BY <1>2, <3>1, <3>2
    <2>2. at'[s] = a /\ half'[s] = 2 /\ done'[s] = 0 /\ ~(d + 1 < frames) /\ 0 < frames
      BY <1>1, <1>8, <1>14, <2>1
    <2>3. CursorOK(s)'
      BY <1>11, <2>1, <2>2 DEF halves, frames
    <2>4. Due(s, w)' = IF halves[2] = Io(s, w) THEN <<a, 0>> ELSE <<Landing(w, a + 1), 0>>
      BY <1>7, <1>9, <2>1, <2>2
    <2> QED BY <1>2, <1>4, <1>5, <1>6, <2>1, <2>2, <2>3, <2>4 DEF a, d
  <1>15. CASE d + 1 = frames /\ h = Len(halves)
    <2>1. at'[s] = a + 1 /\ half'[s] = 1 /\ done'[s] = 0 /\ ~(d + 1 < frames)
      BY <1>1, <1>8, <1>15
    <2>2. CursorOK(s)'
      BY <1>11, <1>12, <2>1
    <2>3. Due(s, w)' = <<Landing(w, a + 1), 0>>
      BY <1>7, <1>10, <2>1
    <2>4. ~(h = 1 /\ Len(halves) = 2)
      <3>1. 1 # 2
        OBVIOUS
      <3> QED BY <1>15, <3>1, Zenon
    <2> QED BY <1>4, <1>5, <1>6, <2>1, <2>2, <2>3, <2>4 DEF a, d
  <1> QED BY <1>13, <1>14, <1>15

\* Nothing moves for the side that is not concerned.
LEMMA Still ==
  ASSUME NEW s \in Side, at'[s] = at[s], half'[s] = half[s], done'[s] = done[s]
  PROVE  /\ CursorOK(s)' <=> CursorOK(s)
         /\ \A w \in Side : Due(s, w)' = Due(s, w)
  BY DEF CursorOK, Due, DueAt, Landing

-----------------------------------------------------------------------------
\* The flow invariant: the two sides are on one wire before anything is read, and on it each
\* ring holds a chain.

Flow(w) == Chain(w, q[Other(w)], Due(Other(w), w), Due(w, w))

OpenPlace == {"opened", "marker", "sched"}

OpenedInOrder ==
  /\ \A s \in Side : pc[s] \in OpenPlace => up[s]
  /\ \A s \in Side : up[s] => seat[s] # NoWire
  /\ pc["P"] \in {"none", "resolve", "open"} => seat["P"] = NoWire
  /\ seat["P"] = NoWire => seat["C"] = NoWire
  /\ seat["C"] = NoWire => AtStart("C") /\ AtStart("P") /\ q["P"] = <<>>

OneWireRead ==
  /\ \A s \in Side : ~up[s] => q[s] = <<>>
  /\ seat["C"] # seat["P"] => \A s \in Side : q[s] = <<>>
  /\ at["C"] > 1 => seat["C"] = seat["P"]

FlowInv ==
  /\ \A s \in Side : CursorOK(s)
  /\ OpenedInOrder /\ OneWireRead
  /\ seat["C"] = seat["P"] => \A w \in Side : up[Other(w)] => Flow(w)

LEMMA InitFlow == Init => FlowInv
  <1> SUFFICES ASSUME Init PROVE FlowInv
    OBVIOUS
  <1>1. \A s \in Side : CursorOK(s)
    <2>1. 1 \in 1 .. Len(Turns)
      BY TurnsShape
    <2>2. Turns[1].how = "ask" /\ Turns[1].frames = 1
      BY TurnsShape DEF Turn
    <2> QED BY <2>2 DEF Init, CursorOK, Halves, CoordinatorHalves, PeerHalves
  <1>2. OpenedInOrder /\ OneWireRead
    BY DEF Init, OpenedInOrder, OneWireRead, AtStart, OpenPlace
  <1> QED BY <1>1, <1>2 DEF Init, FlowInv

\* A step that moves neither the frames nor the opens keeps the invariant as long as it puts
\* no unopened side where one has to be open.
LEMMA Untouched ==
  ASSUME FlowInv, UNCHANGED <<at, half, done, seat, up, q>>,
         \A s \in Side : pc'[s] \in OpenPlace => up[s],
         pc'["P"] \in {"none", "resolve", "open"} => seat["P"] = NoWire
  PROVE  FlowInv'
  <1>1. \A s \in Side : CursorOK(s)' /\ \A w \in Side : Due(s, w)' = Due(s, w)
    BY Still DEF FlowInv
  <1>2. \A w \in Side : Flow(w) => Flow(w)'
    BY <1>1 DEF Flow, Chain, After, Landing
  <1>3. OpenedInOrder' /\ OneWireRead'
    BY DEF FlowInv, OpenedInOrder, OneWireRead, AtStart
  <1> QED BY <1>1, <1>2, <1>3 DEF FlowInv

LEMMA FlowTypes == TypeInv => PlaceType /\ CursorType /\ StreamType /\ WorldType /\ ControlType
  BY DEF TypeInv, TypeOK

\* The coordinator's planning, its launch, its barrier and its accounting.
LEMMA PlanningFlow ==
  ASSUME TypeInv, OrderInv, FlowInv,
         \/ CServe \/ CJudge \/ CResolve \/ CReach \/ CProbe \/ CMismatch
         \/ CLaunch \/ CBarrier \/ CReap \/ (CWrite /\ UNCHANGED <<up, q>>)
  PROVE  FlowInv'
  <1>1. PlaceType
    BY FlowTypes
  <1>2. pc["C"] = "launch" => seat["P"] = NoWire
    BY DEF OrderInv, PeerSpeaksSecond, FlowInv, OpenedInOrder
  <1> DEFINE Rest == /\ UNCHANGED <<at, half, done, seat, up, q>>
                     /\ pc'["C"] \notin OpenPlace
                     /\ pc'["P"] = pc["P"] \/ (pc'["P"] = "resolve" /\ seat["P"] = NoWire)
  <1>3. Rest
    <2> USE DEF PlaceType, OpenPlace, Skip, Raise
    <2>1. CASE CServe
      BY <1>1, <2>1 DEF CServe
    <2>2. CASE CJudge
      BY <1>1, <2>2 DEF CJudge
    <2>3. CASE CResolve
      BY <1>1, <2>3 DEF CResolve
    <2>4. CASE CReach
      BY <1>1, <2>4 DEF CReach
    <2>5. CASE CProbe
      BY <1>1, <2>5 DEF CProbe
    <2>6. CASE CMismatch
      BY <1>1, <2>6 DEF CMismatch
    <2>7. CASE CLaunch
      BY <1>1, <1>2, <2>7 DEF CLaunch
    <2>8. CASE CBarrier
      BY <1>1, <2>8 DEF CBarrier
    <2>9. CASE CReap
      BY <1>1, <2>9 DEF CReap
    <2>10. CASE CWrite /\ UNCHANGED <<up, q>>
      BY <1>1, <2>10 DEF CWrite
    <2> QED BY <2>1, <2>2, <2>3, <2>4, <2>5, <2>6, <2>7, <2>8, <2>9, <2>10
  <1>4. \A s \in Side : pc'[s] \in OpenPlace => up[s]
    BY <1>3 DEF FlowInv, OpenedInOrder, OpenPlace
  <1>5. pc'["P"] \in {"none", "resolve", "open"} => seat["P"] = NoWire
    BY <1>3 DEF FlowInv, OpenedInOrder
  <1> QED BY <1>3, <1>4, <1>5, Untouched

\* The peer's resolution, its marker and its report, and what happens outside: the hardware
\* only moves under a side that has not opened, and an early exit is of an ended run.
LEMMA AroundFlow ==
  ASSUME TypeInv, FlowInv,
         \/ PResolve \/ PMarker \/ SshDrops
         \/ (\E s \in Side : Move(s)) \/ (\E s \in Side : Finish(s)) \/ UNCHANGED vars
  PROVE  FlowInv'
  <1>1. PlaceType
    BY FlowTypes
  <1> DEFINE Rest == /\ UNCHANGED <<at, half, done, seat, up, q>>
                     /\ \A s \in Side : pc'[s] \in OpenPlace => pc[s] \in OpenPlace
                     /\ pc'["P"] \in {"none", "resolve", "open"} =>
                          pc["P"] \in {"none", "resolve", "open"}
  <1>2. Rest
    <2> USE DEF PlaceType, OpenPlace, Raise, PIdle
    <2>1. CASE PResolve
      BY <1>1, <2>1 DEF PResolve
    <2>2. CASE PMarker
      BY <1>1, <2>2 DEF PMarker
    <2>4. CASE SshDrops
      BY <2>4 DEF SshDrops
    <2>5. CASE \E s \in Side : Move(s)
      BY <2>5 DEF Move
    <2>6. CASE \E s \in Side : Finish(s)
      BY <1>1, <2>6 DEF Finish
    <2>7. CASE UNCHANGED vars
      BY <2>7 DEF vars
    <2> QED BY <2>1, <2>2, <2>4, <2>5, <2>6, <2>7
  <1> QED BY <1>2, Untouched DEF FlowInv, OpenedInOrder

LEMMA CStartFlow == TypeInv /\ FlowInv /\ CStart => FlowInv'
  <1> SUFFICES ASSUME TypeInv, FlowInv, CStart PROVE FlowInv'
    OBVIOUS
  <1>1. CASE Go("C", "exit") /\ UNCHANGED <<at, half, done, seat, up, q>>
    <2>1. PlaceType
      BY FlowTypes
    <2> QED BY <1>1, <2>1, Untouched DEF FlowInv, OpenedInOrder, OpenPlace, PlaceType
  <1>2. CASE FreshRun
    <2>1. \A s \in Side : CursorOK(s)'
      <3>1. Turns[1].how = "ask" /\ Turns[1].frames = 1
        BY TurnsShape DEF Turn
      <3> QED BY <1>2, <3>1 DEF FreshRun, CursorOK, Halves, CoordinatorHalves, PeerHalves
    <2>2. OpenedInOrder' /\ OneWireRead' /\ \A s \in Side : ~up'[s]
      BY <1>2 DEF FreshRun, OpenedInOrder, OpenPlace, OneWireRead, AtStart
    <2> QED BY <2>1, <2>2 DEF FlowInv
  <1> QED BY <1>1, <1>2 DEF CStart, stream

\* A close empties the ring it closes, and leaves the other as it is.
LEMMA CloseFlow ==
  ASSUME TypeInv, FlowInv, NEW s \in Side, CloseDevice(s), UNCHANGED <<at, half, done, seat>>,
         pc'[s] \notin OpenPlace \cup {"none", "resolve", "open"}, pc'[Other(s)] = pc[Other(s)]
  PROVE  FlowInv'
  <1>1. StreamType
    BY FlowTypes
  <1>2. /\ ~up'[s] /\ q'[s] = <<>>
        /\ up'[Other(s)] = up[Other(s)] /\ q'[Other(s)] = q[Other(s)]
    BY <1>1 DEF CloseDevice, StreamType
  <1>3. \A r \in Side : CursorOK(r)' /\ \A w \in Side : Due(r, w)' = Due(r, w)
    BY Still DEF FlowInv
  <1>4. Flow(s) => Flow(s)'
    BY <1>2, <1>3 DEF Flow, Chain, After, Landing
  <1>5. OpenedInOrder'
    BY <1>2 DEF FlowInv, OpenedInOrder, AtStart
  <1>6. OneWireRead'
    BY <1>2 DEF FlowInv, OneWireRead
  <1>7. ASSUME seat'["C"] = seat'["P"], NEW w \in Side, up'[Other(w)] PROVE Flow(w)'
    BY <1>2, <1>4, <1>7 DEF FlowInv
  <1> QED BY <1>3, <1>5, <1>6, <1>7 DEF FlowInv

LEMMA LeaveFlow ==
  ASSUME TypeInv, FlowInv,
         \/ \E s \in Side : Leave(s) \/ Killed(s)
         \/ CWrite /\ CloseDevice("C")
         \/ PReport
  PROVE  FlowInv'
  <1>1. PlaceType
    BY FlowTypes
  <1>2. ASSUME NEW s \in Side, GlobalAlarm(s) PROVE FlowInv'
    <2>1. /\ UNCHANGED <<at, half, done, seat, up, q>>
          /\ \A r \in Side : pc'[r] = pc[r] \/ pc'[r] = "unwind"
      BY <1>1, <1>2 DEF GlobalAlarm, RaiseInSchedule, Raise, PlaceType
    <2> QED BY <2>1, Untouched DEF FlowInv, OpenedInOrder, OpenPlace
  <1>3. ASSUME NEW s \in Side, CloseDevice(s), LateAlarm(s) \/ Settle(s) \/ Killed(s)
        PROVE  FlowInv'
    <2>1. /\ CloseDevice(s) /\ UNCHANGED <<at, half, done, seat>>
          /\ pc'[s] \in {"uncaught", "exit", "reap", "report", "killed"}
          /\ pc'[Other(s)] = pc[Other(s)]
      BY <1>1, <1>3 DEF LateAlarm, Settle, Killed, PlaceType
    <2> QED BY <2>1, CloseFlow DEF OpenPlace
  <1>4. ASSUME NEW s \in Side, Settle(s), UNCHANGED <<up, q>> PROVE FlowInv'
    <2>1. UNCHANGED <<at, half, done, seat, up, q>> /\ pc'[s] \in {"reap", "report"}
          /\ pc'[Other(s)] = pc[Other(s)]
      BY <1>1, <1>4 DEF Settle, PlaceType
    <2> QED BY <2>1, Untouched DEF FlowInv, OpenedInOrder, OpenPlace
  <1>5. CASE CWrite /\ CloseDevice("C")
    <2>1. /\ UNCHANGED <<at, half, done, seat>>
          /\ pc'["C"] \in {"writing", "exit"} /\ pc'["P"] = pc["P"]
      BY <1>1, <1>5 DEF CWrite, PlaceType
    <2> QED BY <1>5, <2>1, CloseFlow DEF OpenPlace
  <1>6. CASE PReport
    <2>1. /\ CloseDevice("P") /\ UNCHANGED <<at, half, done, seat>>
          /\ pc'["P"] = "exit" /\ pc'["C"] = pc["C"]
      BY <1>1, <1>6 DEF PReport, PlaceType
    <2> QED BY <2>1, CloseFlow DEF OpenPlace
  <1>7. \A s \in Side : LateAlarm(s) \/ Killed(s) => CloseDevice(s)
    BY DEF LateAlarm, Killed
  <1>8. \A s \in Side : Settle(s) => CloseDevice(s) \/ UNCHANGED <<up, q>>
    BY DEF Settle
  <1> QED BY <1>2, <1>3, <1>4, <1>5, <1>6, <1>7, <1>8 DEF Leave

\* The two opens: the second finds nothing on the wire and both sides at their start.
LEMMA OpenFlow ==
  ASSUME TypeInv, OrderInv, HonestInv, FlowInv, COpen \/ POpen
  PROVE  FlowInv'
  <1>1. PlaceType /\ StreamType /\ WorldType
    BY FlowTypes
  <1> USE DEF PlaceType, StreamType
  <1>2. ASSUME NEW s \in Side, Raise(s), UNCHANGED <<at, half, done, seat, up, q>> PROVE FlowInv'
    BY <1>1, <1>2, Untouched DEF FlowInv, OpenedInOrder, OpenPlace, Raise
  <1>3. ASSUME NEW dev \in Device, OpenDevice("C", dev), pc["C"] = "open", Go("C", "opened"),
               UNCHANGED <<at, half, done>>
        PROVE  FlowInv'
    <2>1. seat["C"] = NoWire /\ seat["P"] # NoWire
      BY <1>3 DEF HonestInv, OrderInv, MarkerIsEvidence
    <2>2. seat'["C"] # NoWire /\ seat'["P"] = seat["P"] /\ q'["P"] = q["P"]
      BY <1>1, <1>3, OpenSeats
    <2>3. up'["C"] /\ up'["P"] = up["P"] /\ q'["C"] = <<>>
      BY <1>1, <1>3 DEF OpenDevice
    <2>4. AtStart("C") /\ AtStart("P") /\ q["P"] = <<>>
      BY <2>1 DEF FlowInv, OpenedInOrder
    <2>5. \A r \in Side : CursorOK(r)' /\ \A w \in Side : Due(r, w)' = Due(r, w)
      BY <1>3, Still DEF FlowInv
    <2>6. \A r, w \in Side : Due(r, w) = <<Landing(w, 1), 0>>
      <3>1. 1 \in 1 .. Len(Turns) + 1
        BY TurnsShape
      <3> QED BY <2>4, <3>1, DueFresh DEF Due, AtStart
    <2>7. OpenedInOrder' /\ OneWireRead'
      BY <1>1, <1>3, <2>1, <2>2, <2>3, <2>4
         DEF FlowInv, OpenedInOrder, OpenPlace, OneWireRead, AtStart
    <2>8. \A w \in Side : Flow(w)'
      BY <2>2, <2>3, <2>4, <2>5, <2>6 DEF Flow, Chain
    <2> QED BY <2>5, <2>7, <2>8 DEF FlowInv
  <1>4. ASSUME NEW dev \in Device, OpenDevice("P", dev), pc["P"] = "open", Go("P", "opened"),
               UNCHANGED <<at, half, done>>
        PROVE  FlowInv'
    <2>1. seat["P"] = NoWire /\ seat["C"] = NoWire /\ ~up["C"] /\ q["C"] = <<>>
      BY <1>4 DEF FlowInv, OpenedInOrder, OneWireRead
    <2>2. seat'["P"] # NoWire /\ seat'["C"] = NoWire /\ q'["C"] = <<>>
      BY <1>1, <1>4, <2>1, OpenSeats
    <2>3. up'["P"] /\ up'["C"] = up["C"] /\ q'["P"] = <<>>
      BY <1>1, <1>4 DEF OpenDevice
    <2>4. \A r \in Side : CursorOK(r)'
      BY <1>4, Still DEF FlowInv
    <2>5. OpenedInOrder' /\ OneWireRead'
      BY <1>1, <1>4, <2>1, <2>2, <2>3
         DEF FlowInv, OpenedInOrder, OpenPlace, OneWireRead, AtStart
    <2> QED BY <2>2, <2>4, <2>5 DEF FlowInv
  <1>5. ASSUME NEW s \in Side, pc[s] = "opened", Go(s, "sched") \/ (s = "P" /\ Go(s, "marker")),
               UNCHANGED <<at, half, done, seat, up, q>>
        PROVE  FlowInv'
    BY <1>1, <1>5, Untouched DEF FlowInv, OpenedInOrder, OpenPlace
  <1>6. CASE COpen
    <2>1. pc["C"] = "open" => local.dev \in Device
      BY <1>6 DEF COpen, TypeInv, Resolved, Resolution
    <2> QED BY <1>2, <1>3, <1>5, <1>6, <2>1 DEF COpen, OpenDevice, OpenRaises
  <1>7. CASE POpen
    <2>1. pc["P"] = "open" => probe.dev \in Device
      BY <1>7 DEF POpen, TypeInv, Resolved
    <2> QED BY <1>2, <1>4, <1>5, <1>7, <2>1 DEF POpen, OpenDevice, OpenRaises
  <1> QED BY <1>6, <1>7

\* What one side's move of a frame means for both flows.
LEMMA Moved ==
  ASSUME TypeInv, FlowInv, NEW s \in Side, InSchedule(s), Advance(s)
  PROVE  /\ \A r \in Side : CursorOK(r)'
         /\ \A w \in Side : Due(Other(s), w)' = Due(Other(s), w)
         /\ \A w \in Side : Doing(s) = Io(s, w) =>
              Due(s, w) = <<at[s], done[s]>> /\ Due(s, w)' = After(w, <<at[s], done[s]>>)
         /\ \A w \in Side : Doing(s) # Io(s, w) => Due(s, w)' = Due(s, w)
  <1>1. CursorType /\ CursorOK(s) /\ at[s] <= Len(Turns)
    BY FlowTypes DEF FlowInv, InSchedule
  <1>2. /\ at'[Other(s)] = at[Other(s)] /\ half'[Other(s)] = half[Other(s)]
        /\ done'[Other(s)] = done[Other(s)]
    BY <1>1 DEF Advance, CursorType
  <1>3. CursorOK(s)' /\ CursorOK(Other(s))'
    BY <1>1, <1>2, Forward, Still DEF FlowInv
  <1>4. \A w \in Side : Due(Other(s), w)' = Due(Other(s), w)
    BY <1>2, Still
  <1> QED BY <1>1, <1>3, <1>4, Forward

LEMMA FlowNext ==
  ASSUME NEW w \in Side
  PROVE  Flow(w)' <=> Chain(w, q'[Other(w)], Due(Other(w), w)', Due(w, w)')
  BY DEF Flow, Chain, After, Landing

LEMMA OpenFarEnd ==
  ASSUME NEW s \in Side, FarEnd(s) = "open"
  PROVE  seat[Other(s)] = seat[s] /\ up[Other(s)]
  <1>1. seat[Other(s)] # NoWire
    BY DEF FarEnd
  <1>2. seat[Other(s)] = seat[s]
    BY <1>1 DEF FarEnd
  <1>3. up[Other(s)]
    BY <1>1, <1>2 DEF FarEnd
  <1> QED BY <1>2, <1>3

\* A frame joins the flow out of its writer as the one the writer was due to write.
LEMMA WriteFlow ==
  ASSUME TypeInv, OrderInv, FlowInv, NEW s \in Side, WriteFrame(s)
  PROVE  FlowInv'
  <1> DEFINE t == Other(s)
             p == <<at[s], done[s]>>
  <1>1. PlaceType /\ StreamType /\ CursorType
    BY FlowTypes
  <1>2. up[s] /\ seat[s] # NoWire
    BY DEF WriteFrame, InSchedule, FlowInv, OpenedInOrder, OpenPlace
  <1>3. CASE RaiseInSchedule(s)
    BY <1>1, <1>3, Untouched
       DEF WriteFrame, RaiseInSchedule, Raise, FlowInv, OpenedInOrder, OpenPlace, PlaceType
  <1>4. CASE Advance(s) /\ FarEnd(s) = "open" /\ q' = [q EXCEPT ![t] = Append(@, p)]
             /\ UNCHANGED pc
    <2>1. seat[t] = seat[s] /\ up[t]
      BY <1>4, OpenFarEnd
    <2>2. q'[t] = Append(q[t], p) /\ q'[s] = q[s] /\ UNCHANGED <<seat, up>>
      BY <1>1, <1>4 DEF WriteFrame, StreamType
    <2>3. Doing(s) = "write" /\ InSchedule(s)
      BY DEF WriteFrame
    <2>4. q[t] \in Seq(Frame) /\ p \in Frame
      BY <1>1 DEF StreamType, CursorType, Frame
    <2>5. Flow(s) /\ Flow(t)
      BY <1>2, <2>1 DEF FlowInv
    <2>6. Due(s, s) = p /\ Due(s, s)' = After(s, p) /\ Due(t, s)' = Due(t, s)
      BY <1>4, <2>3, Moved DEF Io
    <2>7. Due(s, t)' = Due(s, t) /\ Due(t, t)' = Due(t, t)
      BY <1>4, <2>3, Moved DEF Io
    <2>8. Chain(s, Append(q[t], p), Due(t, s), After(s, p))
      BY <2>4, <2>5, <2>6, ChainAppend DEF Flow
    <2>9. Flow(s)' /\ Flow(t)'
      <3>1. Flow(s)'
        BY <2>2, <2>6, <2>8, FlowNext
      <3>2. Other(t) = s
        OBVIOUS
      <3>3. Flow(t)'
        BY <2>2, <2>5, <2>7, <3>2, FlowNext DEF Flow
      <3> QED BY <3>1, <3>3
    <2>10. \A r \in Side : CursorOK(r)'
      BY <1>4, <2>3, Moved
    <2>11. OpenedInOrder' /\ OneWireRead'
      BY <1>2, <1>4, <2>1, <2>2 DEF FlowInv, OpenedInOrder, OneWireRead
    <2> QED BY <2>9, <2>10, <2>11 DEF FlowInv
  <1>5. CASE Advance(s) /\ FarEnd(s) \in {"unopened", "elsewhere"} /\ UNCHANGED <<pc, q>>
    <2>1. seat[t] # seat[s]
      BY <1>2, <1>5 DEF FarEnd
    <2>2. UNCHANGED <<seat, up>> /\ Doing(s) = "write" /\ InSchedule(s)
      BY DEF WriteFrame
    <2>3. seat["C"] # NoWire
      <3>1. CASE s = "P" /\ seat["C"] = NoWire
        BY <2>2, <3>1, PeerListensFirst DEF FlowInv, OpenedInOrder
      <3> QED BY <1>2, <3>1
    <2>4. ~(at'["C"] > 1)
      <3>1. at["C"] = 1
        BY <1>1, <2>1 DEF FlowInv, OneWireRead, CursorType
      <3>2. CASE s = "C"
        <4>1. Halves("C", Turns[1].how) = <<"write", "read">>
          BY TurnsShape DEF Turn, Halves, CoordinatorHalves
        <4>2. half["C"] = 1
          BY <2>2, <3>1, <3>2, <4>1, TurnsShape DEF Doing, FlowInv, CursorOK
        <4> QED BY <1>1, <1>5, <3>1, <3>2, <4>1, <4>2 DEF Advance, CursorType
      <3>3. CASE s = "P"
        BY <1>1, <1>5, <3>1, <3>3 DEF Advance, CursorType
      <3> QED BY <3>2, <3>3
    <2>5. \A r \in Side : CursorOK(r)'
      BY <1>5, <2>2, Moved
    <2>6. OpenedInOrder' /\ OneWireRead'
      BY <1>5, <2>2, <2>3, <2>4 DEF FlowInv, OpenedInOrder, OneWireRead
    <2> QED BY <2>1, <2>2, <2>5, <2>6 DEF FlowInv
  <1> QED BY <1>3, <1>4, <1>5 DEF WriteFrame

\* A frame leaves it as the one its reader was due to read.
LEMMA ReadFlow ==
  ASSUME TypeInv, FlowInv, NEW s \in Side, ReadFrame(s)
  PROVE  FlowInv'
  <1> DEFINE t == Other(s)
             p == <<at[s], done[s]>>
  <1>1. PlaceType /\ StreamType /\ CursorType
    BY FlowTypes
  <1>2. CASE RaiseInSchedule(s)
    BY <1>1, <1>2, Untouched
       DEF ReadFrame, RaiseInSchedule, Raise, FlowInv, OpenedInOrder, OpenPlace, PlaceType
  <1>3. CASE Advance(s) /\ q[s] # <<>> /\ q' = [q EXCEPT ![s] = Tail(@)] /\ UNCHANGED pc
    <2>1. seat["C"] = seat["P"] /\ up[s] /\ seat[s] # NoWire
      BY <1>3 DEF FlowInv, OpenedInOrder, OneWireRead
    <2>2. q'[s] = Tail(q[s]) /\ q'[t] = q[t] /\ UNCHANGED <<seat, up>>
      BY <1>1, <1>3 DEF ReadFrame, StreamType
    <2>3. Doing(s) = "read" /\ InSchedule(s)
      BY DEF ReadFrame
    <2>4. q[s] \in Seq(Frame) /\ Due(t, t) \in Frame
      BY <1>1, DueAhead DEF StreamType
    <2>5. Flow(t) /\ (up[t] => Flow(s))
      BY <2>1 DEF FlowInv
    <2>6. Due(s, t) = p /\ Due(s, t)' = After(t, p) /\ Due(t, t)' = Due(t, t)
      BY <1>3, <2>3, Moved DEF Io
    <2>7. Due(s, s)' = Due(s, s) /\ Due(t, s)' = Due(t, s)
      BY <1>3, <2>3, Moved DEF Io
    <2>8. Chain(t, Tail(q[s]), After(t, p), Due(t, t))
      BY <1>3, <2>4, <2>5, <2>6, ChainTail DEF Flow
    <2>9. Flow(t)' /\ (up[t] => Flow(s)')
      <3>1. Other(t) = s
        OBVIOUS
      <3>2. Flow(t)'
        BY <2>2, <2>6, <2>8, <3>1, FlowNext
      <3>3. up[t] => Flow(s)'
        BY <2>2, <2>5, <2>7, FlowNext DEF Flow
      <3> QED BY <3>2, <3>3
    <2>10. \A r \in Side : CursorOK(r)'
      BY <1>3, <2>3, Moved
    <2>11. OpenedInOrder' /\ OneWireRead'
      BY <1>3, <2>1, <2>2 DEF FlowInv, OpenedInOrder, OneWireRead
    <2> QED BY <2>2, <2>9, <2>10, <2>11 DEF FlowInv
  <1> QED BY <1>2, <1>3 DEF ReadFrame

LEMMA StepFlow ==
  TypeInv /\ OrderInv /\ HonestInv /\ FlowInv /\ [Next]_vars => FlowInv'
  <1> SUFFICES ASSUME TypeInv, OrderInv, HonestInv, FlowInv, [Next]_vars PROVE FlowInv'
    OBVIOUS
  <1>1. ASSUME NEW s \in Side, Schedule(s) PROVE FlowInv'
    BY <1>1, WriteFlow, ReadFlow, AroundFlow DEF Schedule
  <1>2. CASE Coordinator
    BY <1>1, <1>2, PlanningFlow, OpenFlow, LeaveFlow DEF Coordinator, CWrite
  <1>3. CASE Peer
    BY <1>1, <1>3, AroundFlow, OpenFlow, LeaveFlow DEF Peer
  <1>4. CASE Environment
    BY <1>4, CStartFlow, AroundFlow, LeaveFlow DEF Environment
  <1> QED BY <1>2, <1>3, <1>4, AroundFlow DEF Next

\* What is read is what is due, so it is what the reader takes it for.
LEMMA ChainsStayInTurn == TypeInv /\ FlowInv => FramesStayInTurn
  <1> SUFFICES ASSUME TypeInv, FlowInv,
                      NEW s \in Side, InSchedule(s), Doing(s) = "read", q[s] # <<>>
               PROVE  Head(q[s]) = <<at[s], done[s]>>
    BY DEF FramesStayInTurn
  <1> DEFINE t == Other(s)
  <1>1. StreamType /\ CursorType
    BY FlowTypes
  <1>2. seat["C"] = seat["P"] /\ up[s]
    BY DEF FlowInv, OneWireRead
  <1>3. Chain(t, q[s], Due(s, t), Due(t, t))
    BY <1>2 DEF FlowInv, Flow
  <1>4. Head(q[s]) = Due(s, t)
    BY <1>1, <1>3, DueAhead, ChainTail DEF StreamType
  <1>5. at[s] \in 1 .. Len(Turns)
    BY <1>1, TurnsShape DEF InSchedule, CursorType
  <1>6. Due(s, t) = <<at[s], done[s]>>
    BY <1>5, TurnsShape DEF Due, DueAt, Doing, Io, InSchedule
  <1> QED BY <1>4, <1>6

\* Two readers would both be due the frame the other has yet to write, which puts each ahead of
\* the other; two writers are in one exchange, and there the ring holds all of it.
LEMMA ChainsNeverDeadlock == TypeInv /\ FlowInv => NoWireDeadlock
  <1> SUFFICES ASSUME TypeInv, FlowInv, seat["C"] = seat["P"], Blocked("C"), Blocked("P")
               PROVE  FALSE
    BY DEF NoWireDeadlock
  <1>1. CursorType /\ StreamType
    BY FlowTypes
  <1>2. up["C"] /\ up["P"] /\ Flow("C") /\ Flow("P")
    BY DEF Blocked, InSchedule, FlowInv, OpenedInOrder, OpenPlace
  <1>3. \A s \in Side : /\ at[s] \in 1 .. Len(Turns) /\ done[s] \in Nat
                        /\ done[s] < Turns[at[s]].frames
                        /\ Turns[at[s]].how \in How /\ Turns[at[s]].frames \in Nat
    <2> TAKE s \in Side
    <2>1. at[s] \in 1 .. Len(Turns) /\ done[s] \in Nat
      BY <1>1, TurnsShape DEF Blocked, InSchedule, CursorType
    <2> QED BY <2>1, TurnHow, TurnsShape DEF FlowInv, CursorOK
  <1>4. \A s \in Side : Doing(s) \in {"write", "read"}
    <2> TAKE s \in Side
    <2>1. half[s] \in 1 .. Len(Halves(s, Turns[at[s]].how))
      BY <1>3, TurnsShape DEF FlowInv, CursorOK
    <2>2. Turns[at[s]].how \in How
      BY <1>3
    <2> QED BY <2>1, <2>2, HalvesTable DEF Doing
  <1>5. \A s, w \in Side : Due(s, w) \in Frame /\ Due(s, w)[1] >= at[s]
    BY <1>1, DueAhead
  <1>6. \A s, w \in Side : Doing(s) = Io(s, w) => Due(s, w) = <<at[s], done[s]>>
    BY <1>3, TurnsShape DEF Due, DueAt, Doing
  <1>7. \A s, w \in Side :
          Doing(s) # Io(s, w) /\ Due(s, w)[1] = at[s] =>
            /\ half[s] = 1 /\ Len(Halves(s, Turns[at[s]].how)) = 2
            /\ Due(s, w) = <<at[s], 0>>
    <2> TAKE s \in Side, w \in Side
    <2>1. Landing(w, at[s] + 1) \in {at[s] + 1, at[s] + 2} /\ at[s] \in Nat /\ ~(at[s] > Len(Turns))
      BY <1>3, TurnsShape DEF Landing
    <2> QED BY <2>1 DEF Due, DueAt, Doing
  <1>8. CASE Doing("C") = "write" /\ Doing("P") = "write"
    <2>1. Len(q["P"]) = Ring /\ Len(q["C"]) = Ring
      BY <1>8 DEF Blocked
    <2>2. 1 \in 1 .. Ring /\ Ring \in Nat
      BY SizesAssumption
    <2>3. q["P"] # <<>> /\ q["C"] # <<>>
      BY <1>1, <2>1, <2>2, EmptySeq
    <2>4. Due("C", "C") = <<at["C"], done["C"]>> /\ Due("P", "P") = <<at["P"], done["P"]>>
      BY <1>6, <1>8 DEF Io
    <2>5. /\ Due("P", "C")[1] < at["C"] \/ (Due("P", "C")[1] = at["C"]
               /\ Due("P", "C")[2] + Ring + 1 = done["C"] + 1)
          /\ Due("C", "P")[1] < at["P"] \/ (Due("C", "P")[1] = at["P"]
               /\ Due("C", "P")[2] + Ring + 1 = done["P"] + 1)
      BY <1>2, <2>1, <2>2, <2>3, <2>4 DEF Flow, Chain
    <2>6. at["C"] = at["P"] /\ Due("P", "C")[1] = at["P"]
      <3>1. /\ at["C"] \in Nat /\ Due("C", "P")[1] \in Nat /\ Due("C", "P")[1] >= at["C"]
            /\ at["P"] \in Nat /\ Due("P", "C")[1] \in Nat /\ Due("P", "C")[1] >= at["P"]
        BY <1>3, <1>5 DEF Frame
      <3>2. Due("P", "C")[1] <= at["C"] /\ Due("C", "P")[1] <= at["P"]
        BY <2>5, <3>1
      <3> QED BY <3>1, <3>2
    <2>7. half["P"] = 1 /\ Len(Halves("P", Turns[at["P"]].how)) = 2
          /\ Due("P", "C") = <<at["P"], 0>>
      BY <1>7, <1>8, <2>6 DEF Io
    <2>8. Turns[at["P"]].how = "both"
      BY <1>3, <1>8, <2>7 DEF Doing, Halves, PeerHalves, How
    <2>9. done["C"] = Ring
      BY <1>3, <2>2, <2>5, <2>6, <2>7
    <2> QED BY <1>3, <2>2, <2>6, <2>8, <2>9, TurnsShape
  <1>9. CASE Doing("C") = "read" /\ Doing("P") = "read"
    <2>1. q["P"] = <<>> /\ q["C"] = <<>>
      BY <1>9 DEF Blocked
    <2>2. Due("P", "C") = Due("C", "C") /\ Due("C", "P") = Due("P", "P")
      BY <1>2, <2>1 DEF Flow, Chain
    <2>3. Due("C", "P") = <<at["C"], done["C"]>> /\ Due("P", "C") = <<at["P"], done["P"]>>
      BY <1>6, <1>9 DEF Io
    <2>4. at["P"] = at["C"] /\ Due("C", "C")[1] = at["C"]
      BY <1>3, <1>5, <2>2, <2>3
    <2>5. half["C"] = 1 /\ Len(Halves("C", Turns[at["C"]].how)) = 2
      BY <1>7, <1>9, <2>4 DEF Io
    <2> QED BY <1>3, <1>9, <2>5 DEF Doing, Halves, CoordinatorHalves, How
  <1>10. CASE Doing("C") # Doing("P")
    <2>1. ASSUME NEW s \in Side, Doing(s) = "write", Doing(Other(s)) = "read" PROVE FALSE
      BY <1>1, <2>1, SizesAssumption, EmptySeq DEF Blocked
    <2> QED BY <1>4, <1>10, <2>1
  <1> QED BY <1>4, <1>8, <1>9, <1>10

-----------------------------------------------------------------------------
\* What the receipt says of the whole run. A side gets past its schedule without an exception
\* only at its end, so a report that says "ok", wherever it is on its way, is of a peer that
\* ran everything and is gone; and every close is behind a process that has left its schedule.

\* Where a process may have its device open, or have lost the descriptor of it.
MayHold == {"opened", "marker", "sched", "unwind", "reap", "report", "write", "writing"}

Through == pc["P"] = "exit" /\ at["P"] > Len(Turns)
Banking == Ended \cup {"write", "writing"}

RanInv ==
  /\ \A s \in Side : pc[s] \in {"unwind", "reap", "report"} /\ ~failed[s] => at[s] > Len(Turns)
  /\ \A s \in Side : pc[s] \notin MayHold => ~up[s]
  /\ \A k \in 1 .. Len(pipe) : pipe[k].outcome = "ok" => Through
  /\ stash.outcome = "ok" => Through
  /\ verdict.outcome = "ok" => Through /\ at["C"] > Len(Turns) /\ pc["C"] \in Banking
  /\ receipt.outcome = "ok" => Through /\ at["C"] > Len(Turns) /\ pc["C"] \in Ended

LEMMA RanTypes == TypeInv => PlaceType /\ TimerType /\ StreamType /\ CursorType /\ ControlType
  BY DEF TypeInv, TypeOK

LEMMA InitRan == Init => RanInv
  BY DEF Init, RanInv, NoReceipt, NoReport

LEMMA PlanningRan ==
  ASSUME TypeInv, OrderInv, RanInv,
         \/ CServe \/ CJudge \/ CResolve \/ CReach \/ CProbe \/ CMismatch
         \/ CLaunch \/ CWrite
  PROVE  RanInv'
  <1>1. PlaceType /\ TimerType /\ (pc["C"] \in BeforeLaunch => pc["P"] = "none")
    BY RanTypes DEF OrderInv, PeerSpeaksSecond
  <1> USE <1>1 DEF RanInv, Through, MayHold, Banking, Ended, PlaceType, TimerType, Skip, Raise
  <1>2. CASE CServe
    BY <1>2 DEF CServe
  <1>3. CASE CJudge
    BY <1>3 DEF CJudge
  <1>4. CASE CResolve
    BY <1>4 DEF CResolve
  <1>5. CASE CReach
    BY <1>5 DEF CReach
  <1>6. CASE CProbe
    BY <1>6 DEF CProbe
  <1>7. CASE CMismatch
    BY <1>7 DEF CMismatch
  <1>8. CASE CLaunch
    BY <1>8 DEF CLaunch
  <1>9. CASE CWrite
    BY <1>9, RanTypes DEF CWrite, CloseDevice, StreamType, Torn
  <1> QED BY <1>2, <1>3, <1>4, <1>5, <1>6, <1>7, <1>8, <1>9

\* What the barrier takes off the pipe was on it.
LEMMA PipeTail ==
  ASSUME ControlType, pipe # <<>>
  PROVE  /\ 1 \in 1 .. Len(pipe) /\ Head(pipe) = pipe[1] /\ pipe[1] \in Report \cup {Marker}
         /\ Tail(pipe) \in Seq(Report \cup {Marker}) /\ Len(Tail(pipe)) = Len(pipe) - 1
         /\ \A k \in 1 .. Len(Tail(pipe)) : k + 1 \in 1 .. Len(pipe) /\ Tail(pipe)[k] = pipe[k + 1]
  <1>1. Len(pipe) \in Nat \ {0}
    BY EmptySeq, LenProperties DEF ControlType
  <1> QED BY <1>1, HeadTailProperties, ElementOfSeq DEF ControlType

LEMMA BarrierRan == TypeInv /\ RanInv /\ CBarrier => RanInv'
  <1> SUFFICES ASSUME TypeInv, RanInv, CBarrier PROVE RanInv'
    OBVIOUS
  <1>1. PlaceType /\ TimerType /\ ControlType
    BY RanTypes
  <1> USE DEF RanInv, Through, MayHold, Banking, Ended, PlaceType, TimerType, Raise
  <1>2. CASE pipe # <<>> /\ pipe' = Tail(pipe)
    <2>1. \A k \in 1 .. Len(pipe') : pipe'[k].outcome = "ok" => Through
      BY <1>1, <1>2, PipeTail
    <2>2. Head(pipe).outcome = "ok" => Through
      BY <1>1, <1>2, PipeTail
    <2> QED BY <1>1, <1>2, <2>1, <2>2 DEF CBarrier
  <1>3. CASE UNCHANGED <<pipe, stash>>
    BY <1>1, <1>3 DEF CBarrier
  <1> QED BY <1>2, <1>3 DEF CBarrier

LEMMA LastReportRan == TypeInv /\ RanInv /\ LastReport.outcome = "ok" => Through
  <1> SUFFICES ASSUME TypeInv, RanInv, LastReport.outcome = "ok" PROVE Through
    OBVIOUS
  <1>1. CASE Newest = {}
    BY <1>1 DEF LastReport, RanInv
  <1>2. CASE Newest # {}
    <2> DEFINE k == CHOOSE j \in Newest : TRUE
    <2>1. k \in Newest
      BY <1>2
    <2> HIDE DEF k
    <2>2. k \in 1 .. Len(pipe)
      BY <2>1 DEF Newest
    <2>3. pipe[k].outcome = "ok"
      BY <1>2 DEF LastReport, k
    <2> QED BY <2>2, <2>3 DEF RanInv
  <1> QED BY <1>1, <1>2

LEMMA ReapRan == TypeInv /\ RanInv /\ CReap => RanInv'
  <1> SUFFICES ASSUME TypeInv, RanInv, CReap PROVE RanInv'
    OBVIOUS
  <1>1. PlaceType /\ TimerType
    BY RanTypes
  <1>2. verdict'.outcome = "ok" => ~failed["C"] /\ Through
    BY LastReportRan DEF CReap, Outcome, NoReport
  <1>3. Through' <=> Through
    BY <1>1 DEF CReap, Through, PlaceType
  <1> QED BY <1>1, <1>2, <1>3 DEF CReap, RanInv, MayHold, Banking, Ended, PlaceType, TimerType

LEMMA OpenRan == TypeInv /\ RanInv /\ (COpen \/ POpen) => RanInv'
  <1> SUFFICES ASSUME TypeInv, RanInv, COpen \/ POpen PROVE RanInv'
    OBVIOUS
  <1>1. PlaceType /\ TimerType /\ StreamType
    BY RanTypes
  <1> USE DEF RanInv, Through, MayHold, Banking, Ended, PlaceType, TimerType, StreamType, Raise,
             OpenDevice, OpenRaises
  <1>2. CASE COpen
    BY <1>1, <1>2 DEF COpen
  <1>3. CASE POpen
    BY <1>1, <1>3 DEF POpen, PIdle
  <1> QED BY <1>2, <1>3

LEMMA PeerRan == TypeInv /\ RanInv /\ (PResolve \/ PMarker \/ PReport) => RanInv'
  <1> SUFFICES ASSUME TypeInv, RanInv, PResolve \/ PMarker \/ PReport PROVE RanInv'
    OBVIOUS
  <1>1. PlaceType /\ TimerType /\ ControlType
    BY RanTypes
  <1> USE DEF RanInv, Through, MayHold, Banking, Ended, PlaceType, TimerType, Raise, PIdle
  <1>2. CASE PResolve
    BY <1>1, <1>2 DEF PResolve
  <1>3. CASE PMarker
    <2>1. \A k \in 1 .. Len(pipe') : pipe'[k].outcome = "ok" => k \in 1 .. Len(pipe) /\ pipe'[k] = pipe[k]
      <3>1. pipe' = pipe \/ pipe' = Append(pipe, Marker)
        BY <1>3 DEF PMarker
      <3>2. pipe \in Seq(Report \cup {Marker}) /\ Marker \in Report \cup {Marker}
        BY <1>1 DEF ControlType
      <3>3. Marker.outcome # "ok"
        BY DEF Marker
      <3>4. CASE pipe' = Append(pipe, Marker)
        BY ONLY <3>2, <3>3, <3>4
      <3> QED BY ONLY <3>1, <3>4
    <2>2. UNCHANGED <<stash, verdict, receipt, at, up>> /\ pc["P"] = "marker"
      BY <1>3 DEF PMarker
    <2>3. \/ pc' = [pc EXCEPT !["P"] = "sched"] /\ UNCHANGED failed
          \/ pc' = [pc EXCEPT !["P"] = "unwind"] /\ failed' = [failed EXCEPT !["P"] = TRUE]
      BY <1>3 DEF PMarker
    <2>4. ~Through
      BY <2>2
    <2> QED BY <1>1, <2>1, <2>2, <2>3, <2>4
  <1>4. CASE PReport
    <2> DEFINE r == [line |-> "report", outcome |-> IF failed["P"] THEN "aborted" ELSE "ok",
                     opens |-> IF held["P"] THEN 1 ELSE 0]
    <2>1. pipe' = pipe \/ pipe' = Append(pipe, r)
      BY <1>4 DEF PReport
    <2>2. r.outcome = "ok" => at["P"] > Len(Turns)
      BY <1>1, <1>4 DEF PReport
    <2> HIDE DEF r
    <2>3. \A k \in 1 .. Len(pipe') : pipe'[k].outcome = "ok" => at["P"] > Len(Turns)
      BY <1>1, <2>1, <2>2 DEF ControlType
    <2>4. pc' = [pc EXCEPT !["P"] = "exit"] /\ up' = [up EXCEPT !["P"] = FALSE] /\ StreamType
      BY <1>4, RanTypes DEF PReport, CloseDevice
    <2> QED BY <1>1, <1>4, <2>3, <2>4 DEF PReport, StreamType
  <1> QED BY <1>2, <1>3, <1>4

LEMMA ScheduleRan ==
  ASSUME TypeInv, RanInv, NEW s \in Side, Schedule(s) \/ Leave(s)
  PROVE  RanInv'
  <1>1. PlaceType /\ TimerType /\ StreamType /\ CursorType
    BY RanTypes
  <1> USE DEF RanInv, Through, MayHold, Banking, Ended, PlaceType, TimerType, StreamType, CursorType
  <1>2. CASE WriteFrame(s)
    BY <1>1, <1>2 DEF WriteFrame, InSchedule, RaiseInSchedule, Raise, Advance
  <1>3. CASE ReadFrame(s)
    BY <1>1, <1>3 DEF ReadFrame, InSchedule, RaiseInSchedule, Raise, Advance
  <1>4. CASE Finish(s)
    BY <1>1, <1>4 DEF Finish
  <1>5. CASE GlobalAlarm(s)
    BY <1>1, <1>5 DEF GlobalAlarm, RaiseInSchedule, Raise
  <1>6. CASE LateAlarm(s)
    BY <1>1, <1>6 DEF LateAlarm, CloseDevice
  <1>7. CASE Settle(s)
    BY <1>1, <1>7 DEF Settle, CloseDevice
  <1> QED BY <1>2, <1>3, <1>4, <1>5, <1>6, <1>7 DEF Schedule, Leave

LEMMA EnvironmentRan == TypeInv /\ RanInv /\ Environment => RanInv'
  <1> SUFFICES ASSUME TypeInv, RanInv, Environment PROVE RanInv'
    OBVIOUS
  <1>1. PlaceType /\ TimerType /\ StreamType
    BY RanTypes
  <1> USE DEF RanInv, Through, MayHold, Banking, Ended, PlaceType, TimerType, StreamType
  <1>2. CASE CStart
    BY <1>1, <1>2 DEF CStart, FreshRun, MayStart, NoReceipt, NoReport
  <1>3. CASE \E s \in Side : Move(s)
    <2>1. UNCHANGED <<procs, stream, plan, typing, control, disk>>
      BY <1>3 DEF Move
    <2> QED BY <2>1
  <1>4. CASE SshDrops
    BY <1>4 DEF SshDrops
  <1>5. ASSUME NEW s \in Side, Killed(s) PROVE RanInv'
    BY <1>1, <1>5 DEF Killed, CloseDevice
  <1> QED BY <1>2, <1>3, <1>4, <1>5 DEF Environment

LEMMA StepRan == TypeInv /\ OrderInv /\ RanInv /\ [Next]_vars => RanInv'
  <1> SUFFICES ASSUME TypeInv, OrderInv, RanInv, [Next]_vars PROVE RanInv'
    OBVIOUS
  <1>1. CASE Coordinator
    BY <1>1, PlanningRan, BarrierRan, ReapRan, OpenRan, ScheduleRan DEF Coordinator
  <1>2. CASE Peer
    BY <1>2, PeerRan, OpenRan, ScheduleRan DEF Peer
  <1>3. CASE UNCHANGED vars
    BY <1>3 DEF vars, RanInv, Through
  <1> QED BY <1>1, <1>2, <1>3, EnvironmentRan DEF Next

-----------------------------------------------------------------------------
\* The peer's own account. It is printed once, as the last line and on the way out, so while a
\* report is on the pipe none has been consumed, and after one has been none is to come.

IsReport(line) == line.line = "report"
Kept == IF heard THEN stash ELSE NoReport
Ran(r) == r.outcome \in {"aborted", "ok"}

EvidenceInv ==
  /\ \A k \in 1 .. Len(pipe) :
       IsReport(pipe[k]) => pc["P"] = "exit" /\ stash = NoReport /\ k = Len(pipe)
  /\ stash # NoReport => pc["P"] = "exit"
  /\ Ran(verdict) => pc["C"] \in Banking /\ (stash # NoReport => verdict.peer = Kept)
  /\ Ran(receipt) => pc["C"] \in Ended /\ (stash # NoReport => receipt.peer = Kept)

LEMMA InitEvidence == Init => EvidenceInv
  BY DEF Init, EvidenceInv, NoReceipt, NoReport, Ran

LEMMA PlanningEvidence ==
  ASSUME TypeInv, OrderInv, EvidenceInv,
         \/ CServe \/ CJudge \/ CResolve \/ CReach \/ CProbe \/ CMismatch
         \/ CLaunch \/ COpen \/ CWrite
  PROVE  EvidenceInv'
  <1>1. PlaceType /\ (pc["C"] \in BeforeLaunch => pc["P"] = "none")
    BY RanTypes DEF OrderInv, PeerSpeaksSecond
  <1> USE <1>1 DEF EvidenceInv, Ran, Kept, Banking, Ended, PlaceType, Skip, Raise
  <1>2. CASE CServe
    BY <1>2 DEF CServe
  <1>3. CASE CJudge
    BY <1>3 DEF CJudge
  <1>4. CASE CResolve
    BY <1>4 DEF CResolve
  <1>5. CASE CReach
    BY <1>5 DEF CReach
  <1>6. CASE CProbe
    BY <1>6 DEF CProbe
  <1>7. CASE CMismatch
    BY <1>7 DEF CMismatch
  <1>8. CASE CLaunch
    BY <1>8 DEF CLaunch
  <1>9. CASE COpen
    BY <1>9 DEF COpen, OpenDevice, OpenRaises
  <1>10. CASE CWrite
    BY <1>10 DEF CWrite, Torn
  <1> QED BY <1>2, <1>3, <1>4, <1>5, <1>6, <1>7, <1>8, <1>9, <1>10

\* A line that is not the marker is the report, and the last.
LEMMA BarrierEvidence == TypeInv /\ EvidenceInv /\ CBarrier => EvidenceInv'
  <1> SUFFICES ASSUME TypeInv, EvidenceInv, CBarrier PROVE EvidenceInv'
    OBVIOUS
  <1>1. PlaceType /\ ControlType
    BY RanTypes
  <1> USE DEF EvidenceInv, Ran, Kept, Banking, Ended, PlaceType, Raise
  <1>2. CASE pipe # <<>> /\ pipe' = Tail(pipe)
    <2>1. /\ 1 \in 1 .. Len(pipe) /\ Head(pipe) = pipe[1] /\ pipe[1] \in Report \cup {Marker}
          /\ Len(pipe') = Len(pipe) - 1 /\ Len(pipe) \in Nat
          /\ \A k \in 1 .. Len(pipe') : k + 1 \in 1 .. Len(pipe) /\ pipe'[k] = pipe[k + 1]
      BY <1>1, <1>2, PipeTail, LenProperties DEF ControlType
    <2>2. CASE Head(pipe) = Marker /\ UNCHANGED stash
      <3>1. \A k \in 1 .. Len(pipe') :
              IsReport(pipe'[k]) => pc["P"] = "exit" /\ stash = NoReport /\ k = Len(pipe')
        BY <2>1
      <3> QED BY <1>1, <1>2, <2>2, <3>1 DEF CBarrier
    <2>3. CASE Head(pipe) # Marker /\ stash' = Head(pipe)
      <3>1. IsReport(pipe[1])
        BY <2>1, <2>3 DEF IsReport, Report
      <3>2. Len(pipe) = 1 /\ pc["P"] = "exit"
        BY <2>1, <3>1
      <3>3. Len(pipe') = 0
        BY <2>1, <3>2
      <3>4. ~\E k \in 1 .. Len(pipe') : TRUE
        BY <3>3
      <3>5. pc["C"] = "barrier" /\ UNCHANGED <<pc, verdict, receipt>>
        BY <1>1, <1>2, <2>3 DEF CBarrier, ControlType
      <3> QED BY <3>2, <3>4, <3>5
    <2> QED BY <1>2, <2>2, <2>3 DEF CBarrier
  <1>3. CASE UNCHANGED <<pipe, stash>>
    BY <1>1, <1>3 DEF CBarrier
  <1> QED BY <1>2, <1>3 DEF CBarrier

LEMMA ReapEvidence == TypeInv /\ EvidenceInv /\ CReap => EvidenceInv'
  <1> SUFFICES ASSUME TypeInv, EvidenceInv, CReap PROVE EvidenceInv'
    OBVIOUS
  <1>1. PlaceType
    BY RanTypes
  <1>2. stash # NoReport => LastReport = stash
    BY DEF EvidenceInv, LastReport, Newest, IsReport
  <1>3. verdict'.peer = IF heard' THEN LastReport ELSE NoReport
    BY DEF CReap, Outcome
  <1> QED BY <1>1, <1>2, <1>3 DEF CReap, EvidenceInv, Ran, Kept, Banking, Ended, PlaceType

LEMMA PeerEvidence == TypeInv /\ EvidenceInv /\ (PResolve \/ POpen \/ PMarker \/ PReport) => EvidenceInv'
  <1> SUFFICES ASSUME TypeInv, EvidenceInv, PResolve \/ POpen \/ PMarker \/ PReport
               PROVE  EvidenceInv'
    OBVIOUS
  <1>1. PlaceType /\ ControlType
    BY RanTypes
  <1> USE DEF EvidenceInv, Ran, Kept, Banking, Ended, PlaceType, Raise, PIdle
  <1>2. CASE PResolve
    BY <1>1, <1>2 DEF PResolve
  <1>3. CASE POpen
    BY <1>1, <1>3 DEF POpen, OpenDevice, OpenRaises
  <1>4. CASE PMarker
    <2>1. \A k \in 1 .. Len(pipe') : ~IsReport(pipe'[k])
      <3>1. \A k \in 1 .. Len(pipe) : ~IsReport(pipe[k])
        BY <1>4 DEF PMarker
      <3>2. ~IsReport(Marker)
        BY DEF IsReport, Marker
      <3>3. pipe' = pipe \/ pipe' = Append(pipe, Marker)
        BY <1>4 DEF PMarker
      <3> QED BY <1>1, <3>1, <3>2, <3>3 DEF ControlType
    <2> QED BY <1>1, <1>4, <2>1 DEF PMarker
  <1>5. CASE PReport
    <2> DEFINE r == [line |-> "report", outcome |-> IF failed["P"] THEN "aborted" ELSE "ok",
                     opens |-> IF held["P"] THEN 1 ELSE 0]
    <2>1. pipe' = pipe \/ pipe' = Append(pipe, r)
      BY <1>5 DEF PReport
    <2> HIDE DEF r
    <2>2. pc["P"] = "report" /\ pc' = [pc EXCEPT !["P"] = "exit"] /\ UNCHANGED stash
      BY <1>5 DEF PReport
    <2>3. \A k \in 1 .. Len(pipe) : ~IsReport(pipe[k])
      BY <2>2
    <2>4. \A k \in 1 .. Len(pipe') : IsReport(pipe'[k]) => k = Len(pipe')
      BY <1>1, <2>1, <2>3 DEF ControlType
    <2> QED BY <1>1, <1>5, <2>2, <2>4 DEF PReport
  <1> QED BY <1>2, <1>3, <1>4, <1>5

LEMMA ScheduleEvidence ==
  ASSUME TypeInv, EvidenceInv, NEW s \in Side, Schedule(s) \/ Leave(s)
  PROVE  EvidenceInv'
  <1>1. PlaceType
    BY RanTypes
  <1> USE DEF EvidenceInv, Ran, Kept, Banking, Ended, PlaceType
  <1>2. CASE WriteFrame(s)
    BY <1>1, <1>2 DEF WriteFrame, InSchedule, RaiseInSchedule, Raise
  <1>3. CASE ReadFrame(s)
    BY <1>1, <1>3 DEF ReadFrame, InSchedule, RaiseInSchedule, Raise
  <1>4. CASE Finish(s)
    BY <1>1, <1>4 DEF Finish
  <1>5. CASE GlobalAlarm(s)
    BY <1>1, <1>5 DEF GlobalAlarm, RaiseInSchedule, Raise
  <1>6. CASE LateAlarm(s)
    BY <1>1, <1>6 DEF LateAlarm
  <1>7. CASE Settle(s)
    BY <1>1, <1>7 DEF Settle
  <1> QED BY <1>2, <1>3, <1>4, <1>5, <1>6, <1>7 DEF Schedule, Leave

LEMMA EnvironmentEvidence == TypeInv /\ EvidenceInv /\ Environment => EvidenceInv'
  <1> SUFFICES ASSUME TypeInv, EvidenceInv, Environment PROVE EvidenceInv'
    OBVIOUS
  <1>1. PlaceType
    BY RanTypes
  <1> USE DEF EvidenceInv, Ran, Kept, Banking, Ended, PlaceType
  <1>2. CASE CStart
    BY <1>1, <1>2 DEF CStart, FreshRun, MayStart, NoReceipt
  <1>3. CASE \E s \in Side : Move(s)
    <2>1. UNCHANGED <<procs, stream, plan, typing, control, disk>>
      BY <1>3 DEF Move
    <2> QED BY <2>1
  <1>4. CASE SshDrops
    BY <1>4 DEF SshDrops
  <1>5. ASSUME NEW s \in Side, Killed(s) PROVE EvidenceInv'
    BY <1>1, <1>5 DEF Killed
  <1> QED BY <1>2, <1>3, <1>4, <1>5 DEF Environment

LEMMA StepEvidence == TypeInv /\ OrderInv /\ EvidenceInv /\ [Next]_vars => EvidenceInv'
  <1> SUFFICES ASSUME TypeInv, OrderInv, EvidenceInv, [Next]_vars PROVE EvidenceInv'
    OBVIOUS
  <1>1. CASE Coordinator
    BY <1>1, PlanningEvidence, BarrierEvidence, ReapEvidence, ScheduleEvidence DEF Coordinator
  <1>2. CASE Peer
    BY <1>2, PeerEvidence, ScheduleEvidence DEF Peer
  <1>3. CASE UNCHANGED vars
    BY <1>3 DEF vars, EvidenceInv, Ran, Kept, IsReport
  <1> QED BY <1>1, <1>2, <1>3, EnvironmentEvidence DEF Next

-----------------------------------------------------------------------------
\* The cable. What each side resolved is what is there until its hardware moves, the guard let
\* the two resolutions through because they name one wire, and the opens are of them.

FaceInv ==
  /\ pc["C"] \in {"reach", "probe", "mismatch", "launch", "barrier", "open"} /\ "C" \notin moved
       => local = Resolve("C")
  /\ (pc["C"] \in {"mismatch", "launch", "barrier", "open"} \/ pc["P"] # "none") /\ "P" \notin moved
       => probe = Resolve("P")
  /\ pc["C"] \in {"launch", "barrier", "open"} => local.wire = probe.wire
  /\ \A s \in Side : seat[s] # NoWire /\ s \notin moved => seat[s] = probe.wire

LEMMA InitFace == Init => FaceInv
  BY DEF Init, FaceInv

LEMMA PlanningFace ==
  ASSUME TypeInv, OrderInv, HonestInv, FaceInv,
         \/ CServe \/ CJudge \/ CResolve \/ CReach \/ CProbe \/ CMismatch
         \/ CLaunch \/ CBarrier \/ CReap \/ CWrite
  PROVE  FaceInv'
  <1>1. PlaceType /\ (pc["C"] \in BeforeLaunch => pc["P"] = "none")
        /\ (pc["C"] \in BeforeLaunch => \A s \in Side : seat[s] = NoWire)
    BY RanTypes DEF OrderInv, PeerSpeaksSecond, HonestInv, Quiet
  <1> USE <1>1 DEF FaceInv, Resolve, PlaceType, Skip, Raise
  <1>2. CASE CServe
    BY <1>2 DEF CServe
  <1>3. CASE CJudge
    BY <1>3 DEF CJudge
  <1>4. CASE CResolve
    BY <1>4 DEF CResolve
  <1>5. CASE CReach
    BY <1>5 DEF CReach
  <1>6. CASE CProbe
    BY <1>6 DEF CProbe
  <1>7. CASE CMismatch
    BY <1>7 DEF CMismatch
  <1>8. CASE CLaunch
    BY <1>8 DEF CLaunch
  <1>9. CASE CBarrier
    BY <1>9 DEF CBarrier
  <1>10. CASE CReap
    BY <1>10 DEF CReap
  <1>11. CASE CWrite
    BY <1>11 DEF CWrite
  <1> QED BY <1>2, <1>3, <1>4, <1>5, <1>6, <1>7, <1>8, <1>9, <1>10, <1>11

LEMMA OpenFace == TypeInv /\ FaceInv /\ (COpen \/ POpen) => FaceInv'
  <1> SUFFICES ASSUME TypeInv, FaceInv, COpen \/ POpen PROVE FaceInv'
    OBVIOUS
  <1>1. PlaceType /\ StreamType
    BY RanTypes
  <1> USE DEF FaceInv, Resolve, PlaceType, StreamType, Raise, OpenDevice, OpenRaises
  <1>2. CASE COpen
    BY <1>1, <1>2 DEF COpen
  <1>3. CASE POpen
    BY <1>1, <1>3 DEF POpen, PIdle
  <1> QED BY <1>2, <1>3

LEMMA PeerFace ==
  ASSUME TypeInv, FaceInv,
         \/ PResolve \/ PMarker \/ PReport \/ (\E s \in Side : Schedule(s) \/ Leave(s))
  PROVE  FaceInv'
  <1>1. PlaceType
    BY RanTypes
  <1> USE DEF FaceInv, Resolve, PlaceType, PIdle
  <1>2. CASE PResolve
    BY <1>1, <1>2 DEF PResolve, Raise
  <1>3. CASE PMarker
    BY <1>1, <1>3 DEF PMarker, Raise
  <1>4. CASE PReport
    BY <1>1, <1>4 DEF PReport
  <1>5. ASSUME NEW s \in Side, Schedule(s) \/ Leave(s) PROVE FaceInv'
    <2>1. /\ UNCHANGED <<world, seat, plan>>
          /\ pc' = pc \/ (pc[s] # "none" /\ \E place \in {"unwind", "uncaught", "exit", "reap", "report"} :
                            pc' = [pc EXCEPT ![s] = place])
      BY <1>5 DEF Schedule, Leave, WriteFrame, ReadFrame, InSchedule, Finish, GlobalAlarm,
                  LateAlarm, Settle, RaiseInSchedule, Raise
    <2> QED BY <1>1, <2>1
  <1> QED BY <1>2, <1>3, <1>4, <1>5

LEMMA EnvironmentFace == TypeInv /\ FaceInv /\ Environment => FaceInv'
  <1> SUFFICES ASSUME TypeInv, FaceInv, Environment PROVE FaceInv'
    OBVIOUS
  <1>1. PlaceType /\ WorldType
    BY RanTypes, FlowTypes
  <1> USE DEF FaceInv, Resolve, PlaceType
  <1>2. CASE CStart
    BY <1>1, <1>2 DEF CStart, FreshRun, MayStart, Ended
  <1>3. ASSUME NEW s \in Side, Move(s) PROVE FaceInv'
    BY <1>1, <1>3 DEF Move, WorldType
  <1>4. CASE SshDrops
    BY <1>4 DEF SshDrops
  <1>5. ASSUME NEW s \in Side, Killed(s) PROVE FaceInv'
    BY <1>1, <1>5 DEF Killed
  <1> QED BY <1>2, <1>3, <1>4, <1>5 DEF Environment

LEMMA StepFace == TypeInv /\ OrderInv /\ HonestInv /\ FaceInv /\ [Next]_vars => FaceInv'
  <1> SUFFICES ASSUME TypeInv, OrderInv, HonestInv, FaceInv, [Next]_vars PROVE FaceInv'
    OBVIOUS
  <1>1. CASE Coordinator
    BY <1>1, PlanningFace, OpenFace, PeerFace DEF Coordinator
  <1>2. CASE Peer
    BY <1>2, OpenFace, PeerFace DEF Peer
  <1>3. CASE UNCHANGED vars
    BY <1>3 DEF vars, FaceInv, Resolve
  <1> QED BY <1>1, <1>2, <1>3, EnvironmentFace DEF Next

-----------------------------------------------------------------------------
\* What follows, for every run.

SafetyInv == TypeInv /\ OrderInv /\ HonestInv /\ FlowInv /\ RanInv /\ EvidenceInv /\ FaceInv

LEMMA SafetyHolds == Spec => []SafetyInv
  <1>1. Init => SafetyInv
    BY InitType, InitOrder, InitHonest, InitFlow, InitRan, InitEvidence, InitFace DEF SafetyInv
  <1>2. SafetyInv /\ [Next]_vars => SafetyInv'
    BY StepType, StepOrder, StepHonest, StepFlow, StepRan, StepEvidence, StepFace DEF SafetyInv
  <1> QED BY <1>1, <1>2, PTL DEF Spec

\* A skip is of a run that opened nothing, an abort typed outside the open tells whether the
\* coordinator had opened, and "ok" is of a run whose two sides went through the whole schedule
\* on one wire and left nothing on it.
THEOREM ReceiptIsTruthful == Spec => []ReceiptTruthful
  <1>1. SafetyInv => SkipOpenedNothing /\ EarlyAbortOpenedNothing /\ LateAbortOpened
    BY DEF SafetyInv, HonestInv, Quiet, Early, EarlyPhase, Late, SkipOpenedNothing,
           EarlyAbortOpenedNothing, LateAbortOpened
  <1>2. SafetyInv => OkRanEverything
    <2> SUFFICES ASSUME SafetyInv, receipt.outcome = "ok" PROVE OkRanEverything
      BY DEF OkRanEverything
    <2>1. pc["C"] \in Ended /\ pc["P"] = "exit" /\ \A s \in Side : at[s] > Len(Turns)
      BY DEF SafetyInv, RanInv, Through
    <2>2. \A s \in Side : q[s] = <<>>
      BY <2>1 DEF SafetyInv, RanInv, FlowInv, OneWireRead, Ended, MayHold
    <2>3. at["C"] > 1
      BY <2>1, TurnsShape, RanTypes DEF SafetyInv, CursorType
    <2>4. seat["C"] = seat["P"] /\ seat["C"] # NoWire
      BY <2>3 DEF SafetyInv, FlowInv, OpenedInOrder, OneWireRead, AtStart
    <2>5. ~lost
      BY DEF SafetyInv, OrderInv, NoEarlyLoss
    <2> QED BY <2>1, <2>2, <2>4, <2>5 DEF OkRanEverything
  <1> QED BY <1>1, <1>2, SafetyHolds, PTL DEF ReceiptTruthful

\* What the peer said of its own abort is in the receipt, also when the barrier consumed it,
\* unless kill_peer never got to the end of the pipe; then nothing is.
THEOREM EvidenceIsKept == Spec => []PeerEvidenceKept
  <1>1. SafetyInv => PeerEvidenceKept
    BY DEF SafetyInv, EvidenceInv, Ran, Kept, PeerEvidenceKept
  <1> QED BY <1>1, SafetyHolds, PTL

\* With no hardware moving after it was resolved, the two open devices face each other.
THEOREM OpensFace == Spec => []OpensFaceEachOther
  <1>1. SafetyInv => OpensFaceEachOther
    BY DEF SafetyInv, FlowInv, OpenedInOrder, FaceInv, OpensFaceEachOther
  <1> QED BY <1>1, SafetyHolds, PTL

\* Every frame is read as the one it was written as, on any schedule and any ring.
THEOREM FramesInTurn == Spec => []FramesStayInTurn
  <1>1. SafetyInv => FramesStayInTurn
    BY ChainsStayInTurn DEF SafetyInv
  <1> QED BY <1>1, SafetyHolds, PTL

\* The two schedules never wait on each other, as long as no exchange is larger than the ring.
THEOREM WireNeverDeadlocks == Spec => []NoWireDeadlock
  <1>1. SafetyInv => NoWireDeadlock
    BY ChainsNeverDeadlock DEF SafetyInv
  <1> QED BY <1>1, SafetyHolds, PTL
=============================================================================
